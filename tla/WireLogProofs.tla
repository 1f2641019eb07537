--------------------------- MODULE WireLogProofs ---------------------------
(***************************************************************************)
(* Proofs about WireLog, for any callers, records and number of crashes.   *)
(***************************************************************************)
EXTENDS WireLogInv, SequenceFacts, SequenceTheorems, TLAPS

\* The one-line operators that the steps share are expanded everywhere.
USE DEF LockFree, Tracked, Untracked, Enqueued, HasWork, AfterFailure

LEMMA AppendType ==
    ASSUME NEW S, NEW s \in Seq(S), NEW e \in S
    PROVE  Append(s, e) \in Seq(S)
BY AppendProperties

LEMMA LineType ==
    ASSUME NEW s \in Seq(Line), NEW r \in Records, NEW b \in BOOLEAN
    PROVE  Append(s, [rec |-> r, whole |-> b]) \in Seq(Line)
<1>1. [rec |-> r, whole |-> b] \in Line
  BY DEF Line
<1> QED BY <1>1, AppendType

LEMMA TakeType ==
    ASSUME NEW S, NEW s \in Seq(S), s # <<>>
    PROVE  Head(s) \in S /\ Tail(s) \in Seq(S)
BY HeadTailProperties

-----------------------------------------------------------------------------
(* Types.  A caller inside a dump has a record, and the worker has one      *)
(* unless it is idle; without both, Submit and TakeWork need not keep the   *)
(* types of the queue and the disk.                                         *)

TypeInv == TypeOK /\ Holding

LEMMA TypeInit == Init => TypeInv
BY ConstantsAssumption DEF Init, TypeInv, TypeOK, Holding, Dumping, CallerPC, WorkerPC,
   FutureState, Line

LEMMA TypeStep == TypeInv /\ [Next]_vars => TypeInv'
<1> SUFFICES ASSUME TypeInv, [Next]_vars PROVE TypeInv'
  OBVIOUS
<1> USE ConstantsAssumption DEF TypeInv, TypeOK, Holding, Dumping, CallerPC, WorkerPC,
       FutureState, Line, disk, poolVars, callerVars
<1>1. ASSUME NEW c \in Callers, NEW r \in Records, GetExecutor(c, r) PROVE TypeInv'
  BY <1>1 DEF GetExecutor
<1>2. ASSUME NEW c \in Callers, Submit(c) PROVE TypeInv'
  <2>1. Append(queue, arg[c]) \in Seq(Records)
    <3>1. queue \in Seq(Records) /\ arg[c] \in Records
      BY <1>2 DEF Submit
    <3> QED BY ONLY <3>1, AppendType
  <2> QED BY <1>2, <2>1 DEF Submit
<1>3. ASSUME NEW c \in Callers, Register(c) PROVE TypeInv'
  BY <1>3 DEF Register
<1>4. ASSUME NEW c \in Callers, Hook(c) PROVE TypeInv'
  BY <1>4 DEF Hook
<1>5. ASSUME NEW c \in Callers, NEW next \in {"flushing", "draining"}, Flush(c, next)
      PROVE TypeInv'
  BY <1>5 DEF Flush
<1>6. ASSUME NEW c \in Callers, FlushReturns(c) \/ FlushTimesOut(c) PROVE TypeInv'
  BY <1>6 DEF FlushReturns, FlushTimesOut, AfterFlush
<1>7. ASSUME NEW c \in Callers, Close(c) PROVE TypeInv'
  BY <1>7 DEF Close
<1>8. ASSUME NEW c \in Callers, Join(c) PROVE TypeInv'
  BY <1>8 DEF Join
<1>9. ASSUME TakeWork PROVE TypeInv'
  <2>1. Head(queue) \in Records /\ Tail(queue) \in Seq(Records)
    BY <1>9, TakeType DEF TakeWork
  <2> QED BY <1>9, <2>1 DEF TakeWork
<1>10. ASSUME WriteTmp \/ Publish PROVE TypeInv'
  BY <1>10 DEF WriteTmp, Publish
<1>11. ASSUME AppendLine \/ WriteFails PROVE TypeInv'
  <2>1. cur \in Records
    BY <1>11 DEF AppendLine, WriteFails
  <2>2. \A b \in BOOLEAN : Append(jsonl, [rec |-> cur, whole |-> b]) \in Seq(Line)
    BY <2>1, LineType
  <2> QED BY <1>11, <2>1, <2>2 DEF AppendLine, WriteFails
<1>12. ASSUME SetResult PROVE TypeInv'
  BY <1>12 DEF SetResult
<1>13. ASSUME DiscardPending PROVE TypeInv'
  BY <1>13 DEF DiscardPending
<1>14. ASSUME Crash PROVE TypeInv'
  <2>1. wpc = "appending" => Append(jsonl, [rec |-> cur, whole |-> FALSE]) \in Seq(Line)
    BY LineType
  <2>2. jsonl' \in Seq(Line)
    BY <1>14, <2>1 DEF Crash
  <2>3. future' \in [Records -> FutureState]
    BY <1>14 DEF Crash
  <2> QED BY <1>14, <2>2, <2>3 DEF Crash
<1>15. CASE UNCHANGED vars
  BY <1>15 DEF vars
<1> QED
  BY <1>1, <1>2, <1>3, <1>4, <1>5, <1>6, <1>7, <1>8, <1>9, <1>10, <1>11, <1>12, <1>13,
     <1>14, <1>15 DEF Next, Call, Proceed, Worker, Write

(* Every variable of the wire log keeps its type.                           *)
THEOREM TypeCorrect == Spec => []TypeOK
<1>1. TypeInv => TypeOK
  BY DEF TypeInv
<1> QED BY <1>1, TypeInit, TypeStep, PTL DEF Spec

-----------------------------------------------------------------------------
(* Turn files before lines.                                                 *)

LEMMA LineStep == TypeInv /\ LineInv /\ [Next]_vars => LineInv'
<1> SUFFICES ASSUME TypeInv, LineInv, [Next]_vars PROVE LineInv'
  OBVIOUS
<1> USE DEF LineInv, LineHasTurnFile, disk, poolVars, callerVars
<1>1. ASSUME NEW c \in Callers, \E r \in Records : GetExecutor(c, r) PROVE LineInv'
  BY <1>1 DEF GetExecutor
<1>2. ASSUME NEW c \in Callers, Proceed(c) PROVE LineInv'
  BY <1>2 DEF Proceed, Submit, Register, Hook, FlushReturns, FlushTimesOut, Close, Join
<1>3. ASSUME NEW c \in Callers, NEW next, Flush(c, next) PROVE LineInv'
  BY <1>3 DEF Flush
<1>4. ASSUME TakeWork \/ WriteTmp \/ Publish \/ SetResult \/ DiscardPending PROVE LineInv'
  BY <1>4 DEF TakeWork, WriteTmp, Publish, SetResult, DiscardPending
<1>5. ASSUME NEW b \in BOOLEAN, wpc = "appending", UNCHANGED turnFile,
             jsonl' = Append(jsonl, [rec |-> cur, whole |-> b])
      PROVE  LineHasTurnFile'
  <2>1. jsonl \in Seq(Line)
    BY DEF TypeInv, TypeOK
  <2>2. SUFFICES ASSUME NEW i \in DOMAIN jsonl' PROVE jsonl'[i].rec \in turnFile
    BY <1>5
  <2>3. CASE i \in DOMAIN jsonl
    <3>1. jsonl'[i] = jsonl[i]
      BY <1>5, <2>1, <2>3
    <3> QED BY <2>3, <3>1
  <2>4. CASE i \notin DOMAIN jsonl
    <3>1. i = Len(jsonl) + 1
      BY <1>5, <2>1, <2>4
    <3>2. jsonl'[i] = [rec |-> cur, whole |-> b]
      BY <1>5, <2>1, <3>1
    <3> QED BY <1>5, <3>2
  <2> QED BY <2>3, <2>4
<1>6. ASSUME AppendLine \/ WriteFails \/ Crash PROVE LineInv'
  BY <1>5, <1>6 DEF AppendLine, WriteFails, Crash
<1>7. CASE UNCHANGED vars
  BY <1>7 DEF vars
<1> QED
  BY <1>1, <1>2, <1>3, <1>4, <1>6, <1>7 DEF Next, Call, Worker, Write

(* transactions.jsonl never names a transaction without its turn file,      *)
(* through failed writes, torn appends and crashes.                         *)
THEOREM LinesHaveTurnFiles == Spec => []LineHasTurnFile
<1>1. Init => LineInv
  BY DEF Init, LineInv, LineHasTurnFile
<1>2. LineInv => LineHasTurnFile
  BY DEF LineInv
<1> QED BY <1>1, <1>2, TypeInit, TypeStep, LineStep, PTL DEF Spec

-----------------------------------------------------------------------------
(* Futures and the queue.  Only Submit makes a future queued and appends    *)
(* it, only TakeWork makes the head of the queue running, only SetResult    *)
(* makes the worker's record done.                                          *)

LEMMA TailElements ==
    ASSUME NEW S, NEW s \in Seq(S), s # <<>>, NEW i \in DOMAIN Tail(s)
    PROVE  i + 1 \in DOMAIN s /\ Tail(s)[i] = s[i + 1] /\ 1 \in DOMAIN s /\ i \in Nat \ {0}
OBVIOUS

\* Steps that leave the queue, the futures and the worker alone.
QuietStep == UNCHANGED <<queue, future, wpc, cur>>

LEMMA QuietQueue == QueueInv /\ QuietStep => QueueInv'
BY DEF QueueInv, QuietStep

LEMMA QueueStep == TypeInv /\ QueueInv /\ DumpInv /\ [Next]_vars => QueueInv'
<1> SUFFICES ASSUME TypeInv, QueueInv, DumpInv, [Next]_vars PROVE QueueInv'
  OBVIOUS
<1> USE DEF disk, poolVars, callerVars
<1>1. ASSUME NEW c \in Callers, NEW r \in Records, GetExecutor(c, r) PROVE QueueInv'
  <2>1. \A q \in Records : future[q] # "none" => future'[q] = future[q]
    BY <1>1 DEF GetExecutor, TypeInv, TypeOK
  <2>2. \A i \in DOMAIN queue : queue[i] \in Records
    BY DEF TypeInv, TypeOK
  <2>3. wpc # "idle" => cur \in Records
    BY DEF TypeInv, Holding
  <2> QED BY <1>1, <2>1, <2>2, <2>3 DEF GetExecutor, QueueInv
<1>2. ASSUME NEW c \in Callers, Submit(c) PROVE QueueInv'
  <2>1. future[arg[c]] = "claimed" /\ arg[c] \in Records
    BY <1>2 DEF Submit, DumpInv, TypeInv, Holding, Dumping
  <2>2. \A q \in Records : q # arg[c] => future'[q] = future[q]
    BY <1>2 DEF Submit, TypeInv, TypeOK
  <2>3. \A i \in DOMAIN queue : queue[i] \in Records /\ queue[i] # arg[c]
    BY <2>1 DEF QueueInv, TypeInv, TypeOK
  <2>4. wpc # "idle" => cur \in Records /\ cur # arg[c]
    BY <2>1 DEF QueueInv, TypeInv, TypeOK, Holding, WorkerPC
  <2>5. CASE UNCHANGED queue
    BY <1>2, <2>2, <2>3, <2>4, <2>5 DEF Submit, QueueInv
  <2>6. CASE ~UNCHANGED queue
    <3>1. queue' = Append(queue, arg[c]) /\ future'[arg[c]] = "queued"
      BY <1>2, <2>1, <2>6 DEF Submit, TypeInv, TypeOK
    <3>2. queue \in Seq(Records)
      BY DEF TypeInv, TypeOK
    <3>3. \A i \in DOMAIN queue' :
             \/ i \in DOMAIN queue /\ queue'[i] = queue[i]
             \/ i = Len(queue) + 1 /\ queue'[i] = arg[c]
      BY <2>1, <3>1, <3>2
    <3> QED BY <1>2, <2>2, <2>3, <2>4, <3>1, <3>3 DEF Submit, QueueInv
  <2> QED BY <2>5, <2>6
<1>3. ASSUME NEW c \in Callers, Proceed(c), ~Submit(c) PROVE QueueInv'
  <2>1. QuietStep
    BY <1>3 DEF Proceed, Register, Hook, FlushReturns, FlushTimesOut, Close, Join, QuietStep
  <2> QED BY <2>1, QuietQueue
<1>4. ASSUME NEW c \in Callers, NEW next, Flush(c, next) PROVE QueueInv'
  BY <1>4, QuietQueue DEF Flush, QuietStep
<1>5. ASSUME TakeWork PROVE QueueInv'
  <2>1. queue \in Seq(Records) /\ queue # <<>>
    BY <1>5 DEF TakeWork, TypeInv, TypeOK
  <2>2. Head(queue) = queue[1] /\ 1 \in DOMAIN queue /\ queue[1] \in Records
    BY <2>1
  <2>3. \A i \in DOMAIN queue' : i + 1 \in DOMAIN queue /\ queue'[i] = queue[i + 1] /\ i + 1 # 1
    BY <1>5, <2>1, TailElements DEF TakeWork
  <2>4. \A i \in DOMAIN queue' : queue'[i] # queue[1] /\ queue'[i] \in Records
    BY <2>1, <2>2, <2>3 DEF QueueInv
  <2>5. \A q \in Records : q # queue[1] => future'[q] = future[q]
    BY <1>5, <2>2 DEF TakeWork, TypeInv, TypeOK
  <2>6. \A i \in DOMAIN queue' : future'[queue'[i]] = "queued"
    BY <2>3, <2>4, <2>5 DEF QueueInv
  <2>7. \A i, j \in DOMAIN queue' : queue'[i] = queue'[j] => i = j
    <3>1. \A i \in DOMAIN queue' : i \in Nat
      BY <1>5, <2>1, TailElements DEF TakeWork
    <3>2. SUFFICES ASSUME NEW i \in DOMAIN queue', NEW j \in DOMAIN queue',
                          queue'[i] = queue'[j]
                   PROVE  i = j
      OBVIOUS
    <3>3. i + 1 = j + 1
      BY <2>3, <3>2 DEF QueueInv
    <3> QED BY <3>1, <3>3
  <2>8. wpc' = "opening" /\ cur' = queue[1] /\ future'[cur'] = "running"
    BY <1>5, <2>2 DEF TakeWork, TypeInv, TypeOK
  <2> QED BY <2>6, <2>7, <2>8 DEF QueueInv
<1>6. ASSUME Write PROVE QueueInv'
  BY <1>6 DEF Write, WriteTmp, Publish, AppendLine, WriteFails, QueueInv
<1>7. ASSUME SetResult PROVE QueueInv'
  <2>1. future[cur] = "running" /\ cur \in Records
    BY <1>7 DEF SetResult, QueueInv, TypeInv, Holding
  <2>2. \A q \in Records : q # cur => future'[q] = future[q]
    BY <1>7 DEF SetResult, TypeInv, TypeOK
  <2>3. \A i \in DOMAIN queue : queue[i] \in Records /\ queue[i] # cur
    BY <2>1 DEF QueueInv, TypeInv, TypeOK
  <2>4. future'[cur] = "done"
    BY <1>7, <2>1 DEF SetResult, TypeInv, TypeOK
  <2> QED BY <1>7, <2>2, <2>3, <2>4 DEF SetResult, QueueInv
<1>8. ASSUME DiscardPending PROVE QueueInv'
  BY <1>8 DEF DiscardPending, QueueInv
<1>9. ASSUME Crash PROVE QueueInv'
  <2>1. queue' = <<>> /\ wpc' = "idle"
    BY <1>9 DEF Crash
  <2>2. DOMAIN queue' = {}
    BY <2>1
  <2> QED BY <2>1, <2>2 DEF QueueInv
<1>10. CASE UNCHANGED vars
  BY <1>10, QuietQueue DEF vars, QuietStep
<1> QED
  BY <1>1, <1>2, <1>3, <1>4, <1>5, <1>6, <1>7, <1>8, <1>9, <1>10 DEF Next, Call, Worker

-----------------------------------------------------------------------------
(* What the dumping callers know.                                           *)

LEMMA DumpStep == TypeInv /\ QueueInv /\ DumpInv /\ [Next]_vars => DumpInv'
<1> SUFFICES ASSUME TypeInv, QueueInv, DumpInv, [Next]_vars PROVE DumpInv'
  OBVIOUS
<1>0. /\ pc \in [Callers -> CallerPC] /\ arg \in [Callers -> Records \cup {NoOne}]
      /\ future \in [Records -> FutureState] /\ NoOne \notin Records
      /\ \A c \in Callers : pc[c] \in Dumping => arg[c] \in Records
      /\ wpc # "idle" => cur \in Records
      /\ queue \in Seq(Records)
  BY ConstantsAssumption DEF TypeInv, TypeOK, Holding
<1> USE <1>0 DEF disk, poolVars, callerVars, DumpInv, Dumping, Done, CallerPC
<1>1. ASSUME NEW c \in Callers, NEW r \in Records, GetExecutor(c, r) PROVE DumpInv'
  <2>1. \A d \in Callers : arg[d] # r
    <3>1. \A d \in Callers : arg[d] \in Records => future[arg[d]] # "none"
      BY DEF DumpInv
    <3> QED BY <1>1, <3>1 DEF GetExecutor
  <2>2. \A d \in Callers : d # c => arg'[d] = arg[d] /\ pc'[d] = pc[d]
    BY <1>1 DEF GetExecutor
  <2>3. \A q \in Records : q # r => future'[q] = future[q]
    BY <1>1 DEF GetExecutor
  <2>4. arg'[c] = r /\ pc'[c] = "submit" /\ future'[r] = "claimed" /\ UNCHANGED pending
    BY <1>1 DEF GetExecutor
  <2> QED BY <2>1, <2>2, <2>3, <2>4
<1>2. ASSUME NEW c \in Callers, Submit(c) PROVE DumpInv'
  <2>1. \A d \in Callers : d # c =>
           arg'[d] = arg[d] /\ pc'[d] = pc[d] /\ (arg[d] \in Records => arg[d] # arg[c])
    BY <1>2 DEF Submit
  <2>2. \A q \in Records : q # arg[c] => future'[q] = future[q]
    BY <1>2 DEF Submit
  <2>3. \/ pc'[c] = "register" /\ arg'[c] = arg[c] /\ future'[arg[c]] = "queued"
        \/ pc'[c] = "idle" /\ arg'[c] = NoOne
    BY <1>2 DEF Submit
  <2>4. UNCHANGED pending /\ arg[c] \in Records
    BY <1>2 DEF Submit
  <2> QED BY <2>1, <2>2, <2>3, <2>4
<1>3. ASSUME NEW c \in Callers, Register(c) PROVE DumpInv'
  BY <1>3 DEF Register
<1>4. ASSUME NEW c \in Callers, Hook(c) PROVE DumpInv'
  BY <1>4 DEF Hook
<1>5. ASSUME NEW c \in Callers, Proceed(c), ~Submit(c), ~Register(c), ~Hook(c) PROVE DumpInv'
  <2>1. UNCHANGED <<arg, future, pending>> /\ pc[c] \notin Dumping /\ pc'[c] \notin Dumping
    BY <1>5 DEF Proceed, FlushReturns, FlushTimesOut, AfterFlush, Close, Join
  <2>2. \A d \in Callers : d # c => pc'[d] = pc[d]
    BY <1>5 DEF Proceed, FlushReturns, FlushTimesOut, AfterFlush, Close, Join
  <2> QED BY <2>1, <2>2
<1>6. ASSUME NEW c \in Callers, NEW next \in {"flushing", "draining"}, Flush(c, next)
      PROVE  DumpInv'
  BY <1>6 DEF Flush
<1>7. ASSUME TakeWork PROVE DumpInv'
  <2>1. queue[1] \in Records /\ Head(queue) = queue[1] /\ future[queue[1]] = "queued"
    BY <1>7 DEF TakeWork, QueueInv
  <2>2. \A q \in Records : q # queue[1] => future'[q] = future[q]
    BY <1>7, <2>1 DEF TakeWork
  <2>3. future'[queue[1]] = "running"
    BY <1>7, <2>1 DEF TakeWork
  <2> QED BY <1>7, <2>1, <2>2, <2>3 DEF TakeWork
<1>8. ASSUME Write PROVE DumpInv'
  BY <1>8 DEF Write, WriteTmp, Publish, AppendLine, WriteFails
<1>9. ASSUME SetResult PROVE DumpInv'
  <2>1. future[cur] = "running" /\ cur \in Records
    BY <1>9 DEF SetResult, QueueInv
  <2> QED BY <1>9, <2>1 DEF SetResult
<1>10. ASSUME DiscardPending PROVE DumpInv'
  <2>1. future[cur] = "done" /\ cur \in Records
    BY <1>10 DEF DiscardPending, QueueInv
  <2> QED BY <1>10, <2>1 DEF DiscardPending
<1>11. ASSUME Crash PROVE DumpInv'
  BY <1>11 DEF Crash
<1>12. CASE UNCHANGED vars
  BY <1>12 DEF vars
<1> QED
  BY <1>1, <1>2, <1>3, <1>4, <1>5, <1>6, <1>7, <1>8, <1>9, <1>10, <1>11, <1>12
  DEF Next, Call, Worker

-----------------------------------------------------------------------------
(* The pending set tracks what is dumped and not done.                      *)

TrackStart == TypeInv /\ QueueInv /\ DumpInv /\ TrackInv

LEMMA TrackStep == TrackStart /\ [Next]_vars => TrackInv'
<1> SUFFICES ASSUME TrackStart, [Next]_vars PROVE TrackInv'
  OBVIOUS
<1>0. /\ pc \in [Callers -> CallerPC] /\ arg \in [Callers -> Records \cup {NoOne}]
      /\ future \in [Records -> FutureState] /\ NoOne \notin Records
      /\ \A c \in Callers : pc[c] \in Dumping => arg[c] \in Records
      /\ wpc # "idle" => cur \in Records
      /\ TrackInv /\ DumpInv /\ QueueInv /\ pending \subseteq Records
      /\ queue \in Seq(Records)
  BY ConstantsAssumption DEF TypeInv, TypeOK, Holding, TrackStart
<1> USE <1>0
    DEF TrackInv, PendingDoesNotLeak, InDump, Done, disk, poolVars, callerVars, Dumping
<1>1. ASSUME NEW c \in Callers, NEW r \in Records, GetExecutor(c, r) PROVE TrackInv'
  <2>1. \A q \in Records : InDump(q) => InDump(q)'
    <3>1. arg[c] \notin Records
      BY <1>1 DEF GetExecutor, DumpInv
    <3> QED BY <1>1, <3>1 DEF GetExecutor
  <2>2. \A q \in Records : q # r => future'[q] = future[q]
    BY <1>1 DEF GetExecutor
  <2>3. InDump(r)' /\ UNCHANGED <<pending, hooked, wpc, cur>>
    BY <1>1 DEF GetExecutor
  <2> QED BY <2>1, <2>2, <2>3
<1>2. ASSUME NEW c \in Callers, Submit(c) PROVE TrackInv'
  <2>1. future[arg[c]] = "claimed" /\ arg[c] \in Records /\ UNCHANGED <<pending, hooked, wpc, cur>>
    BY <1>2 DEF Submit, DumpInv
  <2>2. \A q \in Records : q # arg[c] => future'[q] = future[q]
    BY <1>2 DEF Submit
  <2>3. \A q \in Records : q # arg[c] => (InDump(q) => InDump(q)')
    <3>1. \A d \in Callers : d # c => arg'[d] = arg[d]
      BY <1>2 DEF Submit
    <3> QED BY <3>1
  <2>4. \/ future'[arg[c]] = "queued" /\ arg'[c] = arg[c]
        \/ future'[arg[c]] = "rejected"
    BY <1>2, <2>1 DEF Submit
  <2>5. \A q \in Records : (future[q] \in {"queued", "running"})' /\ ~InDump(q)'
           => (q \in pending \cap hooked)'
    <3>1. SUFFICES ASSUME NEW q \in Records, future'[q] \in {"queued", "running"}, ~InDump(q)'
                   PROVE  q \in pending \cap hooked
      BY <2>1
    <3>2. q # arg[c]
      BY <2>4, <3>1
    <3>3. future[q] \in {"queued", "running"} /\ ~InDump(q)
      BY <2>2, <2>3, <3>1, <3>2
    <3> QED BY <1>0, <3>3 DEF TrackInv
  <2>6. \A q \in (pending \cap Done)' : InDump(q)' \/ (wpc = "calling" /\ cur = q)'
    BY <2>1, <2>2, <2>3, <2>4
  <2> QED BY <2>5, <2>6
<1>3. ASSUME NEW c \in Callers, Register(c) PROVE TrackInv'
  BY <1>3 DEF Register
<1>4. ASSUME NEW c \in Callers, Hook(c) PROVE TrackInv'
  <2>1. arg[c] \in Records
    BY <1>4 DEF Hook
  <2>2. \A q \in Records : q # arg[c] => (InDump(q) => InDump(q)')
    <3>1. \A d \in Callers : d # c => arg'[d] = arg[d]
      BY <1>4 DEF Hook
    <3>2. SUFFICES ASSUME NEW q \in Records, q # arg[c], InDump(q) PROVE InDump(q)'
      OBVIOUS
    <3>3. PICK d \in Callers : arg[d] = q
      BY <3>2
    <3>4. d # c
      BY <3>2, <3>3
    <3> QED BY <3>1, <3>3, <3>4
  <2>3. CASE arg[c] \in Done
    <3>1. pending' = pending \ {arg[c]} /\ UNCHANGED <<hooked, future, wpc, cur>>
      BY <1>4, <2>3 DEF Hook
    <3> QED BY <2>1, <2>2, <2>3, <3>1
  <2>4. CASE arg[c] \notin Done
    <3>1. hooked' = hooked \cup {arg[c]} /\ UNCHANGED <<pending, future, wpc, cur>>
      BY <1>4, <2>4 DEF Hook
    <3>2. arg[c] \in pending
      BY <1>4, <2>4 DEF Hook, DumpInv
    <3> QED BY <2>1, <2>2, <2>4, <3>1, <3>2
  <2> QED BY <2>3, <2>4
<1>5. ASSUME NEW c \in Callers, Proceed(c), ~Submit(c), ~Register(c), ~Hook(c) PROVE TrackInv'
  BY <1>5 DEF Proceed, FlushReturns, FlushTimesOut, Close, Join
<1>6. ASSUME NEW c \in Callers, NEW next, Flush(c, next) PROVE TrackInv'
  BY <1>6 DEF Flush
<1>7. ASSUME TakeWork PROVE TrackInv'
  <2>1. queue[1] \in Records /\ Head(queue) = queue[1] /\ future[queue[1]] = "queued"
    BY <1>7 DEF TakeWork, QueueInv
  <2>2. future'[queue[1]] = "running" /\ \A q \in Records : q # queue[1] => future'[q] = future[q]
    BY <1>7, <2>1 DEF TakeWork
  <2> QED BY <1>7, <2>1, <2>2 DEF TakeWork
<1>8. ASSUME Write PROVE TrackInv'
  BY <1>8 DEF Write, WriteTmp, Publish, AppendLine, WriteFails
<1>9. ASSUME SetResult PROVE TrackInv'
  <2>1. future[cur] = "running" /\ cur \in Records
    BY <1>9 DEF SetResult, QueueInv
  <2>2. future'[cur] = "done" /\ \A q \in Records : q # cur => future'[q] = future[q]
    BY <1>9, <2>1 DEF SetResult
  <2>3. \A q \in Records : InDump(q)' <=> InDump(q)
    BY <1>9 DEF SetResult
  <2> QED BY <1>9, <2>1, <2>2, <2>3 DEF SetResult
<1>10. ASSUME DiscardPending PROVE TrackInv'
  <2>1. future[cur] = "done" /\ cur \in Records
    BY <1>10 DEF DiscardPending, QueueInv
  <2> QED BY <1>10, <2>1 DEF DiscardPending
<1>11. ASSUME Crash PROVE TrackInv'
  <2>1. pending' = {} /\ \A q \in Records : future'[q] \notin {"queued", "running"}
    BY <1>11 DEF Crash, Unfinished
  <2> QED BY <2>1
<1>12. CASE UNCHANGED vars
  BY <1>12 DEF vars
<1> QED
  BY <1>1, <1>2, <1>3, <1>4, <1>5, <1>6, <1>7, <1>8, <1>9, <1>10, <1>11, <1>12
  DEF Next, Call, Worker

LEMMA TrackInit == Init => TrackStart
<1> SUFFICES ASSUME Init PROVE TrackStart
  OBVIOUS
<1>1. TypeInv
  BY TypeInit
<1>2. DOMAIN queue = {}
  BY DEF Init
<1> QED BY <1>1, <1>2, ConstantsAssumption
        DEF Init, TrackStart, QueueInv, DumpInv, TrackInv, PendingDoesNotLeak, Done

LEMMA TrackAlways == Spec => []TrackStart
<1>1. TrackStart /\ [Next]_vars => TrackStart'
  BY TypeStep, QueueStep, DumpStep, TrackStep DEF TrackStart
<1> QED BY <1>1, TrackInit, PTL DEF Spec

(* A flush that starts now waits for every record whose dump has returned   *)
(* and whose write is not over.                                             *)
THEOREM FlushCovers == Spec => []FlushCoversDumped
<1>1. TrackStart => FlushCoversDumped
  BY DEF TrackStart, TrackInv, FlushCoversDumped
<1> QED BY <1>1, TrackAlways, PTL

(* Nothing done stays in the pending set but for a callback still to run.   *)
THEOREM PendingIsBounded == Spec => []PendingDoesNotLeak
<1>1. TrackStart => PendingDoesNotLeak
  BY DEF TrackStart, TrackInv
<1> QED BY <1>1, TrackAlways, PTL

-----------------------------------------------------------------------------
(* The lock while a caller joins the worker.                                *)

LEMMA LockStep == TypeInv /\ LockInv /\ [Next]_vars => LockInv'
<1> SUFFICES ASSUME TypeInv, LockInv, [Next]_vars PROVE LockInv'
  OBVIOUS
<1>0. /\ pc \in [Callers -> CallerPC] /\ lock \in Callers \cup {NoOne}
      /\ NoOne \notin Callers
  BY ConstantsAssumption DEF TypeInv, TypeOK
<1> USE <1>0 DEF LockInv, disk, poolVars, callerVars, CallerPC
<1>1. ASSUME NEW c \in Callers, \E r \in Records : GetExecutor(c, r) PROVE LockInv'
  BY <1>1 DEF GetExecutor
<1>2. ASSUME NEW c \in Callers, Proceed(c), ~Close(c), ~Join(c) PROVE LockInv'
  BY <1>2 DEF Proceed, Submit, Register, Hook, FlushReturns, FlushTimesOut, AfterFlush
<1>3. ASSUME NEW c \in Callers, NEW next \in {"flushing", "draining"}, Flush(c, next)
      PROVE  LockInv'
  BY <1>3 DEF Flush
<1>4. ASSUME NEW c \in Callers, Close(c) PROVE LockInv'
  BY <1>4 DEF Close
<1>5. ASSUME NEW c \in Callers, Join(c) PROVE LockInv'
  BY <1>5 DEF Join
<1>6. ASSUME Worker PROVE LockInv'
  BY <1>6 DEF Worker, TakeWork, Write, WriteTmp, Publish, AppendLine, WriteFails, SetResult,
     DiscardPending
<1>7. ASSUME Crash PROVE LockInv'
  BY <1>7 DEF Crash
<1>8. CASE UNCHANGED vars
  BY <1>8 DEF vars
<1> QED
  BY <1>1, <1>2, <1>3, <1>4, <1>5, <1>6, <1>7, <1>8 DEF Next, Call

(* The inductive invariant: futures, queue, dumping callers, pending set,   *)
(* files and lock agree at every step, and a caller that waits for the      *)
(* worker thread to exit is the only one and holds the lock.                *)
THEOREM LogIsConsistent == Spec => []LogInv
<1>1. Init => LineInv /\ LockInv
  BY ConstantsAssumption DEF Init, LineInv, LineHasTurnFile, LockInv
<1>2. TrackStart /\ LineInv /\ LockInv /\ [Next]_vars => (LineInv /\ LockInv)'
  BY LineStep, LockStep DEF TrackStart
<1>3. TrackStart /\ LineInv /\ LockInv => LogInv
  BY DEF TrackStart, TypeInv, LogInv
<1> QED BY <1>1, <1>2, <1>3, TrackAlways, PTL DEF Spec

-----------------------------------------------------------------------------
(* The log implements the journal.  A line is that of a record that is      *)
(* settled: done, lost to a crash, or with the worker that wrote it; so the *)
(* record the worker is about to settle has no line yet, and a record that  *)
(* is refused or lost has one only if it was written.                       *)

SettledInv ==
    /\ \A i \in DOMAIN jsonl :
          \/ future[jsonl[i].rec] \in {"done", "lost"}
          \/ cur = jsonl[i].rec /\ wpc = "finishing"
    /\ \A r \in Records : future[r] = "running" => cur = r /\ wpc \notin {"idle", "calling"}

RefInv == TypeInv /\ QueueInv /\ DumpInv /\ SettledInv

LEMMA AppendElement ==
    ASSUME NEW S, NEW s \in Seq(S), NEW x \in S, NEW i \in DOMAIN Append(s, x)
    PROVE  (i \in DOMAIN s /\ Append(s, x)[i] = s[i]) \/ Append(s, x)[i] = x
<1>1. s \in Seq(S)
  OBVIOUS
<1> QED BY <1>1

LEMMA SettledInit == Init => SettledInv
<1> SUFFICES ASSUME Init PROVE SettledInv
  OBVIOUS
<1>1. DOMAIN jsonl = {}
  BY DEF Init
<1> QED BY <1>1 DEF Init, SettledInv

LEMMA SettledStep == TypeInv /\ QueueInv /\ DumpInv /\ SettledInv /\ [Next]_vars => SettledInv'
<1> SUFFICES ASSUME TypeInv, QueueInv, DumpInv, SettledInv, [Next]_vars PROVE SettledInv'
  OBVIOUS
<1>0. /\ pc \in [Callers -> CallerPC] /\ arg \in [Callers -> Records \cup {NoOne}]
      /\ future \in [Records -> FutureState]
      /\ \A c \in Callers : pc[c] \in Dumping => arg[c] \in Records
      /\ wpc # "idle" => cur \in Records
      /\ queue \in Seq(Records) /\ jsonl \in Seq(Line)
      /\ \A i \in DOMAIN jsonl : jsonl[i].rec \in Records
  <2>1. jsonl \in Seq(Line)
    BY DEF TypeInv, TypeOK
  <2>2. \A i \in DOMAIN jsonl : jsonl[i] \in Line
    BY <2>1
  <2> QED BY <2>1, <2>2 DEF TypeInv, TypeOK, Holding, Line
<1> USE <1>0 DEF disk, poolVars, callerVars, SettledInv, Dumping
<1>1. ASSUME NEW c \in Callers, NEW r \in Records, GetExecutor(c, r) PROVE SettledInv'
  BY <1>1 DEF GetExecutor
<1>2. ASSUME NEW c \in Callers, Submit(c) PROVE SettledInv'
  <2>1. future[arg[c]] = "claimed" /\ arg[c] \in Records /\ UNCHANGED <<jsonl, cur, wpc>>
    BY <1>2 DEF Submit, DumpInv
  <2>2. \A q \in Records : q # arg[c] => future'[q] = future[q]
    BY <1>2 DEF Submit
  <2>3. future'[arg[c]] \in {"queued", "rejected"}
    BY <1>2, <2>1 DEF Submit
  <2>4. \A i \in DOMAIN jsonl : jsonl[i].rec # arg[c] \/ (cur = jsonl[i].rec /\ wpc = "finishing")
    BY <2>1
  <2> QED BY <2>1, <2>2, <2>3, <2>4
<1>3. ASSUME NEW c \in Callers, Proceed(c), ~Submit(c) PROVE SettledInv'
  BY <1>3 DEF Proceed, Register, Hook, FlushReturns, FlushTimesOut, Close, Join
<1>4. ASSUME NEW c \in Callers, NEW next, Flush(c, next) PROVE SettledInv'
  BY <1>4 DEF Flush
<1>5. ASSUME TakeWork PROVE SettledInv'
  <2>1. queue[1] \in Records /\ Head(queue) = queue[1] /\ future[queue[1]] = "queued"
    BY <1>5 DEF TakeWork, QueueInv
  <2>2. future'[queue[1]] = "running" /\ \A q \in Records : q # queue[1] => future'[q] = future[q]
    BY <1>5, <2>1 DEF TakeWork
  <2>3. wpc = "idle" /\ wpc' = "opening" /\ cur' = queue[1] /\ UNCHANGED jsonl
    BY <1>5, <2>1 DEF TakeWork
  <2> QED BY <2>1, <2>2, <2>3
<1>6. ASSUME NEW b \in BOOLEAN, wpc = "appending", jsonl' = Append(jsonl, [rec |-> cur, whole |-> b]),
             NEW i \in DOMAIN jsonl'
      PROVE  (i \in DOMAIN jsonl /\ jsonl'[i] = jsonl[i]) \/ jsonl'[i].rec = cur
  <2>1. [rec |-> cur, whole |-> b] \in Line
    BY <1>6 DEF Line
  <2>2. (i \in DOMAIN jsonl /\ jsonl'[i] = jsonl[i]) \/ jsonl'[i] = [rec |-> cur, whole |-> b]
    BY <1>6, <2>1, AppendElement
  <2> QED BY <2>2
<1>7. ASSUME Write PROVE SettledInv'
  <2>1. UNCHANGED <<future, cur>> /\ wpc # "finishing" /\ wpc' \notin {"idle", "calling"}
    BY <1>7 DEF Write, WriteTmp, Publish, AppendLine, WriteFails
  <2>2. \/ UNCHANGED jsonl
        \/ /\ wpc = "appending" /\ wpc' = "finishing"
           /\ \E b \in BOOLEAN : jsonl' = Append(jsonl, [rec |-> cur, whole |-> b])
    BY <1>7 DEF Write, WriteTmp, Publish, AppendLine, WriteFails
  <2>3. \A i \in DOMAIN jsonl' : (i \in DOMAIN jsonl /\ jsonl'[i] = jsonl[i])
                             \/ (jsonl'[i].rec = cur /\ wpc' = "finishing")
    BY <1>6, <2>2
  <2>4. wpc # "idle"
    BY <1>7 DEF Write, WriteTmp, Publish, AppendLine, WriteFails
  <2> QED BY <2>1, <2>3, <2>4
<1>8. ASSUME SetResult PROVE SettledInv'
  <2>1. future'[cur] = "done" /\ \A q \in Records : q # cur => future'[q] = future[q]
    BY <1>8 DEF SetResult
  <2>2. UNCHANGED jsonl
    BY <1>8 DEF SetResult
  <2> QED BY <2>1, <2>2
<1>9. ASSUME DiscardPending PROVE SettledInv'
  BY <1>9 DEF DiscardPending, QueueInv
<1>10. ASSUME Crash PROVE SettledInv'
  <2>1. \A q \in Records : future'[q] = IF future[q] \in Unfinished THEN "lost" ELSE future[q]
    BY <1>10 DEF Crash
  <2>2. \A q \in Records : future[q] = "running" => future'[q] = "lost"
    BY <2>1 DEF Unfinished
  <2>3. \A i \in DOMAIN jsonl : future'[jsonl[i].rec] \in {"done", "lost"}
    <3>1. wpc = "finishing" => future[cur] = "running"
      BY DEF QueueInv
    <3> QED BY <2>1, <2>2, <3>1 DEF Unfinished
  <2>4. wpc = "appending" => future'[cur] = "lost"
    BY <2>2 DEF QueueInv
  <2>5. \/ UNCHANGED jsonl
        \/ /\ wpc = "appending"
           /\ \E b \in BOOLEAN : jsonl' = Append(jsonl, [rec |-> cur, whole |-> b])
    BY <1>10 DEF Crash
  <2>6. \A i \in DOMAIN jsonl' : future'[jsonl'[i].rec] \in {"done", "lost"}
    BY <1>6, <2>3, <2>4, <2>5
  <2>7. \A q \in Records : future'[q] # "running"
    BY <2>1 DEF Unfinished
  <2> QED BY <2>6, <2>7
<1>11. CASE UNCHANGED vars
  BY <1>11 DEF vars
<1> QED
  BY <1>1, <1>2, <1>3, <1>4, <1>5, <1>7, <1>8, <1>9, <1>10, <1>11 DEF Next, Call, Worker

JournalRecs(lines) == [i \in DOMAIN lines |-> lines[i].rec]

LEMMA StateOf ==
    ASSUME NEW r \in Records
    PROVE  JournalState[r] = IF future[r] \in {"none", "claimed"} THEN "new"
                             ELSE IF Awaited(r) THEN "waiting"
                             ELSE IF Written(r) THEN "written" ELSE "dropped"
BY DEF JournalState

LEMMA StateAfter ==
    ASSUME NEW r \in Records
    PROVE  JournalState'[r] = IF future'[r] \in {"none", "claimed"} THEN "new"
                              ELSE IF Awaited(r)' THEN "waiting"
                              ELSE IF Written(r)' THEN "written" ELSE "dropped"
BY DEF JournalState

LEMMA RecsType ==
    ASSUME NEW w \in Seq(Line)
    PROVE  JournalRecs(w) \in Seq(Records) /\ Len(JournalRecs(w)) = Len(w)
<1>1. Len(w) \in Nat /\ DOMAIN w = 1..Len(w) /\ \A i \in 1..Len(w) : w[i] \in Line
  OBVIOUS
<1>2. JournalRecs(w) \in [1..Len(w) -> Records]
  BY <1>1 DEF JournalRecs, Line
<1> QED BY <1>1, <1>2, LenProperties

LEMMA RecsAppend ==
    ASSUME NEW w \in Seq(Line), NEW l \in Line
    PROVE  JournalRecs(Append(w, l)) = Append(JournalRecs(w), l.rec)
<1>1. Append(w, l) \in Seq(Line) /\ Len(Append(w, l)) = Len(w) + 1 /\ Len(w) \in Nat
  OBVIOUS
<1>2. JournalRecs(w) \in Seq(Records) /\ Len(JournalRecs(w)) = Len(w)
  BY RecsType
<1>3. l.rec \in Records
  BY DEF Line
<1>4. JournalRecs(Append(w, l)) \in Seq(Records) /\ Len(JournalRecs(Append(w, l))) = Len(w) + 1
  BY <1>1, RecsType
<1>5. Append(JournalRecs(w), l.rec) \in Seq(Records) /\ Len(Append(JournalRecs(w), l.rec)) = Len(w) + 1
  BY <1>2, <1>3
<1>6. ASSUME NEW i \in 1..(Len(w) + 1)
      PROVE  JournalRecs(Append(w, l))[i] = Append(JournalRecs(w), l.rec)[i]
  <2>1. CASE i \in 1..Len(w)
    <3>1. Append(w, l)[i] = w[i]
      BY <2>1
    <3>2. Append(JournalRecs(w), l.rec)[i] = JournalRecs(w)[i]
      BY <1>2, <1>3, <2>1
    <3> QED BY <1>1, <2>1, <3>1, <3>2 DEF JournalRecs
  <2>2. CASE i = Len(w) + 1
    <3>1. Append(w, l)[i] = l /\ i \in DOMAIN Append(w, l)
      BY <1>1, <2>2
    <3>2. Append(JournalRecs(w), l.rec)[i] = l.rec
      BY <1>2, <1>3, <2>2
    <3> QED BY <3>1, <3>2 DEF JournalRecs
  <2>3. i \in 1..Len(w) \/ i = Len(w) + 1
    BY <1>1
  <2> QED BY <2>1, <2>2, <2>3
<1> QED BY <1>1, <1>4, <1>5, <1>6, SeqEqual

LEMMA WholeAppend ==
    ASSUME TypeInv, NEW r \in Records, NEW b \in BOOLEAN,
           jsonl' = Append(jsonl, [rec |-> r, whole |-> b])
    PROVE  /\ JournalRecs(WholeLines)' =
                 IF b THEN Append(JournalRecs(WholeLines), r) ELSE JournalRecs(WholeLines)
           /\ \A q \in Records : Written(q)' <=> Written(q) \/ (b /\ q = r)
<1> DEFINE l == [rec |-> r, whole |-> b]
           W == [rec : Records, whole : {TRUE}]
<1>1. jsonl \in Seq(Line) /\ l \in Line /\ l.rec = r /\ l.whole = b
  BY DEF TypeInv, TypeOK, Line
<1>2. l \in W <=> b
  OBVIOUS
<1>3. WholeLines \in Seq(Line)
  BY <1>1, KeepType DEF WholeLines
<1>4. WholeLines' = IF b THEN Append(WholeLines, l) ELSE WholeLines
  <2> HIDE DEF l, W
  <2>1. Keep(Append(jsonl, l), W) = IF l \in W THEN Append(Keep(jsonl, W), l) ELSE Keep(jsonl, W)
    BY <1>1, KeepAppend
  <2>2. WholeLines' = Keep(Append(jsonl, l), W)
    BY DEF WholeLines, l, W
  <2> QED BY <1>2, <2>1, <2>2 DEF WholeLines, W
<1>5. JournalRecs(WholeLines)' = IF b THEN Append(JournalRecs(WholeLines), r) ELSE JournalRecs(WholeLines)
  <2>1. JournalRecs(Append(WholeLines, l)) = Append(JournalRecs(WholeLines), l.rec)
    BY <1>1, <1>3, RecsAppend
  <2>2. JournalRecs(WholeLines)' = JournalRecs(WholeLines')
    BY DEF JournalRecs
  <2> QED BY <1>1, <1>4, <2>1, <2>2
<1>6. ASSUME NEW q \in Records PROVE Written(q)' <=> Written(q) \/ (b /\ q = r)
  <2>1. \A i \in DOMAIN jsonl : i \in DOMAIN jsonl' /\ jsonl'[i] = jsonl[i]
    BY <1>1
  <2>2. Len(jsonl) + 1 \in DOMAIN jsonl' /\ jsonl'[Len(jsonl) + 1] = l
    BY <1>1
  <2>3. \A i \in DOMAIN jsonl' : (i \in DOMAIN jsonl /\ jsonl'[i] = jsonl[i]) \/ jsonl'[i] = l
    <3> HIDE DEF l
    <3> QED BY <1>1, AppendElement DEF l
  <2>4. l = [rec |-> q, whole |-> TRUE] <=> b /\ q = r
    OBVIOUS
  <2> HIDE DEF l
  <2> QED BY <2>1, <2>2, <2>3, <2>4 DEF Written
<1> QED BY <1>5, <1>6

\* What the journal sees of a step; the rest of the log's state is its own.
Unseen == /\ \A r \in Records : JournalState[r]' = JournalState[r]
          /\ Waiting' = Waiting
          /\ UNCHANGED jsonl

LEMMA UnseenStutters == Unseen => UNCHANGED Journal!vars
<1> SUFFICES ASSUME Unseen PROVE UNCHANGED Journal!vars
  OBVIOUS
<1>1. JournalState' = JournalState
  BY DEF Unseen, JournalState
<1>2. WholeLines' = WholeLines
  BY DEF Unseen, WholeLines
<1> QED BY <1>1, <1>2 DEF Unseen, Journal!vars

LEMMA JournalInit == Init => Journal!Init
<1> SUFFICES ASSUME Init PROVE Journal!Init
  OBVIOUS
<1>1. JournalState = [r \in Records |-> "new"]
  BY DEF Init, JournalState
<1>2. Waiting = <<>>
  BY DEF Init, Waiting
<1>3. JournalRecs(WholeLines) = <<>>
  <2>1. WholeLines = <<>>
    BY KeepEmpty DEF Init, WholeLines
  <2>2. <<>> \in Seq(Line) /\ Len(<<>>) = 0
    OBVIOUS
  <2>3. JournalRecs(<<>>) \in Seq(Records) /\ Len(JournalRecs(<<>>)) = 0
    BY <2>2, RecsType
  <2>4. JournalRecs(<<>>) = <<>>
    BY <2>3, EmptySeq
  <2> QED BY <2>1, <2>4
<1> QED BY <1>1, <1>2, <1>3 DEF Journal!Init, JournalRecs

LEMMA CallerImplements ==
    ASSUME RefInv, NEW c \in Callers, Call(c) \/ Proceed(c)
    PROVE  [Journal!Next]_(Journal!vars)
<1>0. /\ pc \in [Callers -> CallerPC] /\ arg \in [Callers -> Records \cup {NoOne}]
      /\ future \in [Records -> FutureState] /\ queue \in Seq(Records)
      /\ wpc # "idle" => cur \in Records
      /\ \A d \in Callers : pc[d] \in Dumping => arg[d] \in Records
  BY DEF RefInv, TypeInv, TypeOK, Holding
<1> USE DEF disk, poolVars, callerVars
<1>1. ASSUME UNCHANGED <<queue, jsonl, wpc, cur>>,
             \A r \in Records : \/ future'[r] = future[r]
                              \/ {future[r], future'[r]} = {"none", "claimed"}
      PROVE  Unseen
  <2>1. ASSUME NEW r \in Records PROVE JournalState[r]' = JournalState[r]
    <3>1. Awaited(r)' = Awaited(r) /\ Written(r)' = Written(r)
      BY <1>1 DEF Awaited, Written
    <3> QED BY <1>1, <3>1, StateOf, StateAfter
  <2> QED BY <1>1, <2>1 DEF Unseen, Waiting
<1>2. CASE Call(c)
  <2>1. Unseen
    BY <1>0, <1>1, <1>2 DEF Call, GetExecutor, Flush
  <2> QED BY <2>1, UnseenStutters
<1>3. CASE Proceed(c) /\ ~Submit(c)
  <2>1. Unseen
    BY <1>1, <1>3 DEF Proceed, Register, Hook, FlushReturns, FlushTimesOut, Close, Join
  <2> QED BY <2>1, UnseenStutters
<1>4. CASE Submit(c)
  <2>1. future[arg[c]] = "claimed" /\ arg[c] \in Records /\ UNCHANGED <<jsonl, wpc, cur>>
    BY <1>0, <1>4 DEF Submit, RefInv, DumpInv, Dumping
  <2>2. \A q \in Records : q # arg[c] => future'[q] = future[q]
    BY <1>0, <1>4 DEF Submit
  <2>3. \A q \in Records : q # arg[c] => JournalState'[q] = JournalState[q]
    <3>1. SUFFICES ASSUME NEW q \in Records, q # arg[c] PROVE JournalState'[q] = JournalState[q]
      OBVIOUS
    <3>2. Awaited(q)' = Awaited(q) /\ Written(q)' = Written(q)
      BY <2>1, <2>2, <3>1 DEF Awaited, Written
    <3> QED BY <2>2, <3>1, <3>2, StateOf, StateAfter
  <2>4. JournalState[arg[c]] = "new"
    BY <2>1, StateOf
  <2>5. UNCHANGED WholeLines
    BY <2>1 DEF WholeLines
  <2>6. ASSUME NEW v, JournalState'[arg[c]] = v
        PROVE  JournalState' = [JournalState EXCEPT ![arg[c]] = v]
    BY <2>1, <2>3, <2>6 DEF JournalState
  <2>7. CASE executor = "open" /\ handle[c] = gen
    <3>1. future'[arg[c]] = "queued" /\ queue' = Append(queue, arg[c])
      BY <1>0, <1>4, <2>1, <2>7 DEF Submit
    <3>2. wpc = "finishing" => cur # arg[c]
      BY <2>1 DEF RefInv, QueueInv
    <3>3. JournalState'[arg[c]] = "waiting"
      BY <2>1, <3>1, <3>2, StateAfter DEF Awaited
    <3>4. Waiting' = Append(Waiting, arg[c])
      <4>1. ASSUME NEW s \in Seq(Records) PROVE s \o Append(queue, arg[c]) = Append(s \o queue, arg[c])
        BY <1>0, <2>1
      <4>2. Waiting = (IF wpc \in {"opening", "replacing", "appending"} THEN <<cur>> ELSE <<>>) \o queue
        BY DEF Waiting
      <4>3. Waiting' = (IF wpc \in {"opening", "replacing", "appending"} THEN <<cur>> ELSE <<>>) \o queue'
        BY <2>1 DEF Waiting
      <4>4. (IF wpc \in {"opening", "replacing", "appending"} THEN <<cur>> ELSE <<>>) \in Seq(Records)
        BY <1>0
      <4> QED BY <3>1, <4>1, <4>2, <4>3, <4>4
    <3>5. Journal!Accept(arg[c])
      BY <2>4, <2>5, <2>6, <3>3, <3>4 DEF Journal!Accept
    <3> QED BY <2>1, <3>5 DEF Journal!Next
  <2>8. CASE ~(executor = "open" /\ handle[c] = gen)
    <3>1. future'[arg[c]] = "rejected" /\ UNCHANGED queue
      BY <1>0, <1>4, <2>1, <2>8 DEF Submit
    <3>2. ~Written(arg[c])
      <4>1. \A i \in DOMAIN jsonl : jsonl[i].rec # arg[c]
        BY <2>1 DEF RefInv, SettledInv, QueueInv
      <4> QED BY <4>1 DEF Written
    <3>3. JournalState'[arg[c]] = "dropped"
      BY <2>1, <3>1, <3>2, StateAfter DEF Awaited, Written
    <3>4. UNCHANGED Waiting
      BY <2>1, <3>1 DEF Waiting
    <3>5. Journal!Refuse(arg[c])
      BY <2>4, <2>5, <2>6, <3>3, <3>4 DEF Journal!Refuse
    <3> QED BY <2>1, <3>5 DEF Journal!Next
  <2> QED BY <2>7, <2>8
<1> QED BY <1>2, <1>3, <1>4

\* The end of a write, whole, torn or failed, settles the record the worker holds.
LEMMA SettleImplements ==
    ASSUME RefInv, wpc \in {"opening", "replacing", "appending"}, wpc' = "finishing",
           UNCHANGED <<queue, future, cur>>,
           \/ UNCHANGED jsonl
           \/ \E b \in BOOLEAN : jsonl' = Append(jsonl, [rec |-> cur, whole |-> b])
    PROVE  Journal!Next
<1>1. cur \in Records /\ future[cur] = "running" /\ queue \in Seq(Records)
  BY DEF RefInv, TypeInv, TypeOK, Holding, QueueInv
<1>2. Waiting = <<cur>> \o queue /\ Waiting' = <<>> \o queue
  BY DEF Waiting
<1>3. Waiting # <<>> /\ Head(Waiting) = cur /\ Tail(Waiting) = Waiting'
  BY <1>1, <1>2
<1>4. ~Written(cur)
  <2>1. \A i \in DOMAIN jsonl : jsonl[i].rec # cur
    BY <1>1 DEF RefInv, SettledInv
  <2> QED BY <2>1 DEF Written
<1>5. PICK wrote \in BOOLEAN :
         /\ JournalRecs(WholeLines)' =
               IF wrote THEN Append(JournalRecs(WholeLines), cur) ELSE JournalRecs(WholeLines)
         /\ \A q \in Records : Written(q)' <=> Written(q) \/ (wrote /\ q = cur)
  <2>1. CASE UNCHANGED jsonl
    BY <2>1 DEF JournalRecs, WholeLines, Written
  <2>2. CASE \E b \in BOOLEAN : jsonl' = Append(jsonl, [rec |-> cur, whole |-> b])
    BY <1>1, <2>2, WholeAppend DEF RefInv
  <2> QED BY <2>1, <2>2
<1>6. ASSUME NEW q \in Records, q # cur PROVE JournalState'[q] = JournalState[q]
  <2>1. (Awaited(q)' <=> Awaited(q)) /\ (Written(q)' <=> Written(q))
    BY <1>5, <1>6 DEF Awaited
  <2> QED BY <2>1, StateOf, StateAfter
<1>7. JournalState'[cur] = IF wrote THEN "written" ELSE "dropped"
  <2>1. ~Awaited(cur)' /\ (Written(cur)' <=> wrote) /\ future'[cur] = "running"
    BY <1>1, <1>4, <1>5 DEF Awaited
  <2> QED BY <1>1, <2>1, StateAfter
<1>8. JournalState' = [JournalState EXCEPT ![cur] = IF wrote THEN "written" ELSE "dropped"]
  BY <1>1, <1>6, <1>7 DEF JournalState
<1>9. Journal!Settle(IF wrote THEN "written" ELSE "dropped")
  BY <1>3, <1>5, <1>8 DEF Journal!Settle, JournalRecs
<1> QED BY <1>9 DEF Journal!Next

LEMMA WorkerImplements ==
    ASSUME RefInv, Worker
    PROVE  [Journal!Next]_(Journal!vars)
<1>0. /\ future \in [Records -> FutureState] /\ queue \in Seq(Records)
      /\ wpc # "idle" => cur \in Records
  BY DEF RefInv, TypeInv, TypeOK, Holding
<1> USE DEF disk, poolVars, callerVars
<1>1. ASSUME UNCHANGED jsonl, Waiting' = Waiting,
             \A r \in Records : Awaited(r)' <=> Awaited(r),
             \A r \in Records : future'[r] \in {"none", "claimed"} <=> future[r] \in {"none", "claimed"}
      PROVE  UNCHANGED Journal!vars
  <2>1. ASSUME NEW r \in Records PROVE JournalState'[r] = JournalState[r]
    <3>1. Written(r)' = Written(r)
      BY <1>1 DEF Written
    <3> QED BY <1>1, <3>1, StateOf, StateAfter
  <2> QED BY <1>1, <2>1, UnseenStutters DEF Unseen
<1>2. CASE TakeWork
  <2>1. /\ queue # <<>> /\ Head(queue) \in Records /\ future[Head(queue)] = "queued"
        /\ queue = <<Head(queue)>> \o Tail(queue)
    BY <1>0, <1>2 DEF TakeWork, RefInv, QueueInv
  <2>2. /\ UNCHANGED jsonl /\ wpc = "idle" /\ wpc' = "opening" /\ cur' = Head(queue)
        /\ queue' = Tail(queue) /\ future'[Head(queue)] = "running"
        /\ \A q \in Records : q # Head(queue) => future'[q] = future[q]
    BY <1>0, <1>2, <2>1 DEF TakeWork
  <2>3. Waiting' = Waiting
    <3>1. Waiting = <<>> \o queue /\ Waiting' = <<Head(queue)>> \o Tail(queue)
      BY <2>2 DEF Waiting
    <3> QED BY <1>0, <2>1, <3>1
  <2>4. \A r \in Records : Awaited(r)' <=> Awaited(r)
    BY <2>1, <2>2 DEF Awaited
  <2>5. \A r \in Records : future'[r] \in {"none", "claimed"} <=> future[r] \in {"none", "claimed"}
    BY <2>1, <2>2
  <2> QED BY <1>1, <2>2, <2>3, <2>4, <2>5
<1>3. CASE WriteTmp \/ Publish
  <2>1. UNCHANGED <<jsonl, future, cur, queue>> /\ wpc # "finishing" /\ wpc' # "finishing"
        /\ {wpc, wpc'} \subseteq {"opening", "replacing", "appending"}
    BY <1>3 DEF WriteTmp, Publish
  <2>2. Waiting' = Waiting
    BY <2>1 DEF Waiting
  <2>3. \A r \in Records : Awaited(r)' = Awaited(r)
    BY <2>1 DEF Awaited
  <2> QED BY <1>1, <2>1, <2>2, <2>3
<1>4. CASE AppendLine \/ WriteFails
  <2>1. Journal!Next
    BY <1>4, SettleImplements DEF AppendLine, WriteFails
  <2> QED BY <2>1
<1>5. CASE SetResult
  <2>1. future[cur] = "running" /\ future'[cur] = "done" /\ cur \in Records
        /\ \A q \in Records : q # cur => future'[q] = future[q]
    BY <1>0, <1>5 DEF SetResult, RefInv, QueueInv
  <2>2. UNCHANGED <<jsonl, queue>> /\ wpc = "finishing" /\ wpc' \in {"idle", "calling"}
    BY <1>5 DEF SetResult
  <2>3. Waiting' = Waiting
    BY <2>2 DEF Waiting
  <2>4. \A r \in Records : Awaited(r)' <=> Awaited(r)
    BY <2>1, <2>2 DEF Awaited
  <2> QED BY <1>1, <2>1, <2>2, <2>3, <2>4
<1>6. CASE DiscardPending
  <2>1. UNCHANGED <<jsonl, future, queue>> /\ wpc = "calling" /\ wpc' = "idle"
    BY <1>6 DEF DiscardPending
  <2>2. Waiting' = Waiting
    BY <2>1 DEF Waiting
  <2>3. \A r \in Records : Awaited(r)' = Awaited(r)
    BY <2>1 DEF Awaited
  <2> QED BY <1>1, <2>1, <2>2, <2>3
<1> QED BY <1>2, <1>3, <1>4, <1>5, <1>6 DEF Worker, Write

\* A crash drops what waits, and refuses the dumps that had not submitted.
LEMMA CrashImplements ==
    ASSUME RefInv, Crash
    PROVE  Journal!Next
<1>1. /\ wpc' = "idle" /\ queue' = <<>>
      /\ \A q \in Records : future'[q] = IF future[q] \in Unfinished THEN "lost" ELSE future[q]
  BY DEF Crash
<1>2. JournalRecs(WholeLines)' = JournalRecs(WholeLines) /\ \A q \in Records : Written(q)' <=> Written(q)
  <2>1. CASE UNCHANGED jsonl
    BY <2>1 DEF JournalRecs, WholeLines, Written
  <2>2. CASE wpc = "appending" /\ jsonl' = Append(jsonl, [rec |-> cur, whole |-> FALSE])
    <3>1. cur \in Records
      BY <2>2 DEF RefInv, TypeInv, Holding
    <3> QED BY <2>2, <3>1, WholeAppend DEF RefInv
  <2> QED BY <2>1, <2>2 DEF Crash
<1>3. Waiting' = <<>>
  BY <1>1 DEF Waiting
<1> DEFINE refused == {r \in Records : future[r] = "claimed"}
<1>4. ASSUME NEW r \in Records
      PROVE  JournalState'[r] = IF JournalState[r] = "waiting" \/ r \in refused THEN "dropped"
                                ELSE JournalState[r]
  <2>1. ~Awaited(r)'
    BY <1>1 DEF Awaited, Unfinished
  <2>2. \A i \in DOMAIN jsonl : jsonl[i].rec = r =>
           future[r] \in {"done", "lost"} \/ (cur = r /\ wpc = "finishing")
    BY DEF RefInv, SettledInv
  <2>3. Written(r) => future[r] \in {"done", "lost"} \/ (cur = r /\ wpc = "finishing")
    BY <2>2 DEF Written
  <2>4. wpc = "finishing" => future[cur] = "running"
    BY DEF RefInv, QueueInv
  <2>5. Written(r) => ~Awaited(r) /\ future[r] \notin {"none", "claimed"}
    BY <2>3, <2>4 DEF Awaited
  <2>6. CASE future[r] = "none"
    BY <1>1, <2>6, StateOf, StateAfter DEF Unfinished
  <2>7. CASE future[r] # "none"
    BY <1>1, <1>2, <2>1, <2>5, <2>7, StateOf, StateAfter DEF Unfinished
  <2> QED BY <2>6, <2>7
<1>5. refused \in SUBSET {r \in Records : JournalState[r] = "new"}
  BY StateOf
<1>6. JournalState' = [r \in Records |->
          IF JournalState[r] = "waiting" \/ r \in refused THEN "dropped" ELSE JournalState[r]]
  <2> HIDE DEF refused
  <2> QED BY <1>4 DEF JournalState
<1>7. Journal!Crash
  <2> HIDE DEF refused
  <2> QED BY <1>2, <1>3, <1>5, <1>6 DEF Journal!Crash, JournalRecs
<1> QED BY <1>7 DEF Journal!Next

LEMMA StepImplements == RefInv /\ [Next]_vars => [Journal!Next]_(Journal!vars)
<1>1. ASSUME RefInv, UNCHANGED vars PROVE UNCHANGED Journal!vars
  BY <1>1 DEF vars, poolVars, callerVars, disk, Journal!vars, JournalState, Awaited, Written,
     Waiting, WholeLines
<1> QED BY <1>1, CallerImplements, WorkerImplements, CrashImplements DEF Next

(* The wire log is a journal: every record handed to it is settled once,    *)
(* in the order of acceptance, by a whole line or by none, and the whole    *)
(* lines only grow, whatever failed, was refused, torn or killed.           *)
THEOREM LogIsAJournal == Spec => JournalSpec
<1>1. RefInv /\ [Next]_vars => RefInv'
  BY TypeStep, QueueStep, DumpStep, SettledStep DEF RefInv
<1>2. Init => RefInv
  BY TrackInit, SettledInit DEF RefInv, TrackStart
<1>3. Spec => []RefInv
  BY <1>1, <1>2, PTL DEF Spec
<1> QED BY <1>3, JournalInit, StepImplements, PTL DEF Spec, JournalSpec, Journal!Spec
=============================================================================
