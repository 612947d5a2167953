------------------------ MODULE KnowledgeExtractionProofs ------------------------
(***************************************************************************)
(* Proofs about KnowledgeExtraction, for any number of runs, processes,    *)
(* attempts, retries, chunks and answers.                                  *)
(*                                                                         *)
(* First every step of the handler is shown to be a step of the queue or   *)
(* to leave the queue alone, so what is proved of WorkflowQueue holds of   *)
(* the composition.  On top of the queue's invariant, TraceInv says who    *)
(* may write which rows as long as no human retried the run.               *)
(***************************************************************************)
EXTENDS KnowledgeExtraction, WorkflowQueueProofs

-------------------------------------------------------------------------------
(* The handler implements the queue's idea of a handler.                   *)

LEMMA RaisingIsQueueStep ==
  ASSUME NEW w \in Workers, phase[w] = "running",
         NEW failure \in {"retryable", "terminal"}, Raises(w, failure)
  PROVE  HandlerRaises(w)
BY DEF Raises, HandlerRaises

LEMMA ExecuteIsQueueStep ==
  ASSUME NEW w \in Workers, Execute(w)
  PROVE  Handle(w) \/ UNCHANGED vars
<1>1. CASE FindResult(w) \/ Finish(w)
  BY <1>1 DEF FindResult, Finish, Returns, Handle
<1>2. CASE FindNone(w)
  BY <1>2 DEF FindNone
<1>3. CASE StartChunk(w)
  BY <1>3 DEF StartChunk
<1>4. CASE \E response \in Responses : ChunkAnswered(w, response)
  BY <1>4 DEF ChunkAnswered
<1>5. CASE ChunkFails(w)
  BY <1>5, RaisingIsQueueStep DEF ChunkFails, At, Handle
<1>6. CASE CheckResult(w)
  BY <1>6 DEF CheckResult, Returns, Handle
<1>7. CASE Persist(w)
  BY <1>7 DEF Persist, Handle
<1>8. CASE PersistRefused(w)
  BY <1>8, RaisingIsQueueStep DEF PersistRefused, At, Handle
<1>9. CASE Interrupted(w)
  BY <1>9, RaisingIsQueueStep DEF Interrupted, Handle
<1> QED
  BY <1>1, <1>2, <1>3, <1>4, <1>5, <1>6, <1>7, <1>8, <1>9 DEF Execute

LEMMA StepIsQueueStep ==
  ASSUME [ExtractionNext]_allVars
  PROVE  [Next]_vars
<1>1. CASE \E r \in Runs : Claim(r)
  BY <1>1 DEF Claim, Begin, Next, Take
<1>2. CASE \E w \in Workers : Execute(w)
  BY <1>2, ExecuteIsQueueStep DEF Next
<1>3. CASE \E w \in Workers : Dies(w)
  BY <1>3 DEF Dies, Next
<1>4. CASE QueueStep
  BY <1>4 DEF QueueStep, Next
<1>5. CASE UNCHANGED allVars
  BY <1>5 DEF allVars
<1> QED
  BY <1>1, <1>2, <1>3, <1>4, <1>5 DEF ExtractionNext

\* Whatever the handler's steps, crashes and collisions, the composition
\* behaves as the queue does: it commits one result, returns only with a
\* result, and leaves the queue's rows to the queue.
THEOREM ExtractionImplementsQueue == ExtractionSpec => Spec
<1>1. ExtractionInit => Init
  BY DEF ExtractionInit
<1> QED
  BY <1>1, StepIsQueueStep, PTL DEF ExtractionSpec, Spec

-------------------------------------------------------------------------------
(* Who may write which rows.                                               *)

\* A process executes the handler exactly while it is running.
TasksRun == \A w \in Workers : task[w] # NoTask <=> phase[w] = "running"

\* No two processes execute a run under the same lease.
OneTaskPerLease ==
  \A v, w \in Workers :
    /\ v # w /\ task[v] # NoTask /\ task[w] # NoTask
    /\ claim[v].run = claim[w].run
    => claim[v].lease # claim[w].lease

Works(w, r) == task[w] # NoTask /\ claim[w].run = r

\* The rows of an execution are what it remembers: the chunks answered, the
\* one it is calling about, and nothing beyond.
OwnRows(w, r) ==
  \A c \in Chunks :
    LET row == rows[r][task[w].attempt][c]
        n == Len(task[w].answers)
    IN  /\ c <= n => row = [status |-> "succeeded", response |-> task[w].answers[c]]
        /\ c > n /\ ~ (task[w].step = "calling" /\ c = n + 1) => row = Absent

FutureRowsAbsent(r) ==
  \A a \in Attempts, c \in Chunks : a > leases[r] => rows[r][a][c] = Absent

RowsSequential(r) ==
  \A a \in Attempts, c \in Chunks \ {ChunkCount} :
    rows[r][a][c + 1] # Absent => rows[r][a][c].status = "succeeded"

\* The attempt of the result is over, but for the process that returns.
ResultStands(r) ==
  result[r] # NoResult =>
    /\ result[r].attempt <= leases[r]
    /\ \A c \in Chunks : rows[r][result[r].attempt][c] =
         [status |-> "succeeded", response |-> result[r].answers[c]]
    /\ \A w \in Workers :
         Works(w, r) /\ task[w].attempt = result[r].attempt => task[w].step = "returning"

TasksOwn(r) ==
  \A w \in Workers : Works(w, r) => task[w].attempt = claim[w].lease /\ OwnRows(w, r)

\* As long as no human retried the run its leases are its attempts.
RunTrace(r) ==
  /\ leases[r] = job[r].attempts
  /\ TasksOwn(r)
  /\ FutureRowsAbsent(r)
  /\ RowsSequential(r)
  /\ ResultStands(r)

Traces == \A r \in Runs : retried[r] = {} => RunTrace(r)

TraceInv ==
  /\ IInv
  /\ ExtractionTypeOK
  /\ TasksRun
  /\ OneTaskPerLease
  /\ Traces

\* A process that executes the handler has a claim and a typed task.
LEMMA TaskTypes ==
  ASSUME TraceInv, NEW w \in Workers, task[w] # NoTask
  PROVE  /\ phase[w] = "running"
         /\ claim[w] \in Claims
         /\ claim[w].run \in Runs
         /\ claim[w].lease \in Nat
         /\ leases[claim[w].run] \in Nat
         /\ claim[w].lease <= leases[claim[w].run]
         /\ task[w] \in Tasks
         /\ task[w].attempt \in Attempts
         /\ task[w].answers \in Seq(Responses)
         /\ Len(task[w].answers) \in Nat
<1>1. phase[w] = "running" /\ task[w] \in Tasks
  BY DEF TraceInv, TasksRun, ExtractionTypeOK
<1>2. claim[w] \in Claims /\ claim[w].run \in Runs
  BY <1>1, BusyClaims DEF TraceInv, IInv, Busy
<1>3. claim[w].lease <= leases[claim[w].run]
  BY <1>2, ClaimsNotNull DEF TraceInv, IInv, ClaimsAreReal
<1>4. claim[w].lease \in Nat /\ leases[claim[w].run] \in Nat
  BY <1>2 DEF Claims, TraceInv, IInv, TypeOK
<1>5. /\ task[w].attempt \in Attempts
      /\ task[w].answers \in Seq(Responses)
      /\ Len(task[w].answers) \in Nat
  BY <1>1 DEF Tasks
<1> QED BY <1>1, <1>2, <1>3, <1>4, <1>5

\* A step that writes no rows, starts no task and at most ends some or moves
\* them on keeps the traces.
LEMMA RowsKeptTraces ==
  ASSUME TraceInv,
         rows' = rows, result' = result, leases' = leases,
         \A r \in Runs : retried'[r] = {} => retried[r] = {} /\ job'[r].attempts = job[r].attempts,
         \A w \in Workers :
           task'[w] # NoTask =>
             /\ task[w] # NoTask
             /\ claim'[w] = claim[w]
             /\ task'[w].attempt = task[w].attempt
             /\ task'[w].answers = task[w].answers
             /\ task'[w].step = "calling" <=> task[w].step = "calling"
             /\ task[w].step = "returning" => task'[w].step = "returning"
  PROVE  OneTaskPerLease' /\ Traces'
<1>1. OneTaskPerLease'
  BY DEF TraceInv, OneTaskPerLease
<1>2. ASSUME NEW r \in Runs, retried'[r] = {}
      PROVE  RunTrace(r)'
  <2>1. RunTrace(r) /\ job'[r].attempts = job[r].attempts
    BY <1>2 DEF TraceInv, Traces
  <2>2. TasksOwn(r)'
    BY <2>1 DEF RunTrace, TasksOwn, Works, OwnRows
  <2>3. FutureRowsAbsent(r)' /\ RowsSequential(r)'
    BY <2>1 DEF RunTrace, FutureRowsAbsent, RowsSequential
  <2>4. ResultStands(r)'
    BY <2>1 DEF RunTrace, ResultStands, Works
  <2> QED BY <2>1, <2>2, <2>3, <2>4 DEF RunTrace
<1> QED BY <1>1, <1>2 DEF Traces

-------------------------------------------------------------------------------
(* A process writes the row of the chunk it works on.                      *)

\* What a process at work may write: the row after those it has answers for.
\* Nobody else writes to these rows, and no result rests on them.
LEMMA WriteKeepsRows ==
  ASSUME TraceInv, NEW w \in Workers,
         At(w, "starting") \/ At(w, "calling"),
         NEW row \in Rows, WriteRow(w, row),
         result' = result, leases' = leases, job' = job, claim' = claim,
         task'[w] = NoTask \/ (task'[w] # NoTask /\ task'[w].attempt = task[w].attempt
                                 /\ task'[w].step # "returning"),
         \A v \in Workers \ {w} : task'[v] = task[v],
         retried[RunOf(w)] = {},
         task'[w] # NoTask => OwnRows(w, RunOf(w))'
  PROVE  RunTrace(RunOf(w))'
<1> DEFINE r == RunOf(w)
           a == task[w].attempt
           n == Len(task[w].answers)
           c == n + 1
<1>1. /\ task[w] # NoTask /\ r \in Runs /\ a \in Attempts /\ n \in Nat
      /\ task[w].step \in {"starting", "calling"}
      /\ claim[w].run = r /\ claim[w].lease <= leases[r]
  BY TaskTypes DEF At, RunOf
<1>2. c \in Chunks /\ n < ChunkCount
  <2>1. n < ChunkCount
    BY <1>1 DEF TraceInv, ExtractionTypeOK, TaskFits
  <2> QED BY <1>1, <2>1, ExtractionAssumption DEF Chunks
<1>3. RunTrace(r)
  BY <1>1 DEF TraceInv, Traces
<1>4. a = claim[w].lease /\ OwnRows(w, r)
  BY <1>1, <1>3 DEF RunTrace, TasksOwn, Works
<1>5. rows' = [rows EXCEPT ![r][a][c] = row]
  BY DEF WriteRow, RunOf, Slot, Chunk
<1>6. /\ rows' \in [Runs -> [Attempts -> [Chunks -> Rows]]]
      /\ rows'[r][a][c] = row
      /\ \A s \in Runs, b \in Attempts, d \in Chunks :
           ~ (s = r /\ b = a /\ d = c) => rows'[s][b][d] = rows[s][b][d]
  <2>1. ExtractionTypeOK /\ r \in Runs /\ a \in Attempts /\ c \in Chunks
    BY <1>1, <1>2 DEF TraceInv
  <2> HIDE DEF r, a, c
  <2> QED BY <2>1, <1>5 DEF ExtractionTypeOK
<1>7. r' = r
  BY DEF RunOf
<1> HIDE DEF r
<1>8. TasksOwn(r)'
  <2> SUFFICES ASSUME NEW v \in Workers, task'[v] # NoTask, claim'[v].run = r
               PROVE  task'[v].attempt = claim'[v].lease /\ OwnRows(v, r)'
    BY <1>7 DEF TasksOwn, Works
  <2>1. CASE v = w
    BY <1>4, <2>1 DEF r
  <2>2. CASE v # w
    <3>1. task'[v] = task[v] /\ task[v] # NoTask /\ claim[v].run = r /\ claim'[v] = claim[v]
      BY <2>2
    <3>2. task[v].attempt = claim[v].lease /\ OwnRows(v, r)
      BY <1>3, <3>1 DEF RunTrace, TasksOwn, Works
    <3>3. task[v].attempt # a
      BY <1>1, <1>4, <2>2, <3>1, <3>2 DEF TraceInv, OneTaskPerLease
    <3>4. task[v].attempt \in Attempts
      BY <3>1, TaskTypes
    <3>5. \A d \in Chunks : rows'[r][task[v].attempt][d] = rows[r][task[v].attempt][d]
      BY <1>1, <1>6, <3>3, <3>4
    <3> QED BY <1>7, <3>1, <3>2, <3>5 DEF OwnRows
  <2> QED BY <2>1, <2>2
<1>9. FutureRowsAbsent(r)'
  <2> SUFFICES ASSUME NEW b \in Attempts, NEW d \in Chunks, b > leases[r]
               PROVE  rows'[r][b][d] = Absent
    BY <1>7 DEF FutureRowsAbsent
  <2>1. b # a
    <3>1. leases[r] \in Nat /\ claim[w].lease \in Nat
      BY <1>1, TaskTypes
    <3> HIDE DEF a
    <3> QED BY <1>1, <1>4, <3>1, QueueAssumption DEF Attempts
  <2> QED BY <1>1, <1>3, <1>6, <2>1 DEF RunTrace, FutureRowsAbsent
<1>10. RowsSequential(r)'
  <2> SUFFICES ASSUME NEW b \in Attempts, NEW d \in Chunks \ {ChunkCount},
                      rows'[r][b][d + 1] # Absent
               PROVE  rows'[r][b][d].status = "succeeded"
    BY <1>7 DEF RowsSequential
  <2>1. d \in Chunks /\ d + 1 \in Chunks /\ d \in Nat
    BY ExtractionAssumption DEF Chunks
  <2>2. CASE b # a
    BY <1>1, <1>3, <1>6, <2>1, <2>2 DEF RunTrace, RowsSequential
  <2>3. CASE b = a /\ d + 1 = c
    <3>1. d <= n /\ d # c
      BY <1>1, <2>1, <2>3
    <3>2. rows[r][a][d] = [status |-> "succeeded", response |-> task[w].answers[d]]
      BY <1>4, <2>1, <3>1 DEF OwnRows
    <3> QED BY <1>1, <1>6, <2>1, <2>3, <3>1, <3>2
  <2>4. CASE b = a /\ d = c
    <3>1. d + 1 > n /\ d + 1 # n + 1 /\ d + 1 # c
      BY <1>1, <2>1, <2>4
    <3>2. rows[r][a][d + 1] = Absent
      BY <1>4, <2>1, <3>1 DEF OwnRows
    <3> QED BY <1>1, <1>6, <2>1, <2>4, <3>1, <3>2
  <2>5. CASE b = a /\ d + 1 # c /\ d # c
    <3>1. rows'[r][b][d + 1] = rows[r][b][d + 1] /\ rows'[r][b][d] = rows[r][b][d]
      BY <1>1, <1>6, <2>1, <2>5
    <3>2. RowsSequential(r)
      BY <1>3 DEF RunTrace
    <3> QED BY <3>1, <3>2 DEF RowsSequential
  <2> QED BY <2>2, <2>3, <2>4, <2>5
<1>11. ResultStands(r)'
  <2> SUFFICES ASSUME result[r] # NoResult
               PROVE  /\ result[r].attempt <= leases[r]
                      /\ \A d \in Chunks : rows'[r][result[r].attempt][d] =
                           [status |-> "succeeded", response |-> result[r].answers[d]]
                      /\ \A v \in Workers :
                           Works(v, r)' /\ task'[v].attempt = result[r].attempt
                             => task'[v].step = "returning"
    BY <1>7 DEF ResultStands
  <2>1. ResultStands(r)
    BY <1>3 DEF RunTrace
  <2>2. result[r].attempt # a
    BY <1>1, <2>1 DEF ResultStands, Works
  <2>3. result[r].attempt \in Attempts
    BY <1>1 DEF TraceInv, ExtractionTypeOK, Results
  <2>4. \A d \in Chunks : rows'[r][result[r].attempt][d] = rows[r][result[r].attempt][d]
    BY <1>1, <1>6, <2>2, <2>3
  <2>5. ASSUME NEW v \in Workers, Works(v, r)', task'[v].attempt = result[r].attempt
        PROVE  task'[v].step = "returning"
    <3>1. v # w
      BY <2>2, <2>5 DEF Works
    <3> QED BY <1>7, <2>1, <2>5, <3>1 DEF ResultStands, Works
  <2> QED BY <2>1, <2>4, <2>5 DEF ResultStands
<1>12. leases'[r] = job'[r].attempts
  BY <1>3 DEF RunTrace
<1> QED BY <1>7, <1>8, <1>9, <1>10, <1>11, <1>12 DEF RunTrace, r

\* The other runs do not notice.
LEMMA WriteKeepsTraces ==
  ASSUME TraceInv, NEW w \in Workers,
         At(w, "starting") \/ At(w, "calling"),
         NEW row \in Rows, WriteRow(w, row),
         result' = result, leases' = leases, job' = job, claim' = claim, retried' = retried,
         task'[w] = NoTask \/ (task'[w] # NoTask /\ task'[w].attempt = task[w].attempt
                                 /\ task'[w].step # "returning"),
         \A v \in Workers \ {w} : task'[v] = task[v],
         task'[w] # NoTask /\ retried[RunOf(w)] = {} => OwnRows(w, RunOf(w))'
  PROVE  OneTaskPerLease' /\ Traces'
<1>1. task[w] # NoTask /\ RunOf(w) \in Runs
  BY TaskTypes DEF At, RunOf
<1>2. OneTaskPerLease'
  BY <1>1 DEF TraceInv, OneTaskPerLease
<1>3. ASSUME NEW s \in Runs, retried[s] = {}, s # RunOf(w)
      PROVE  RunTrace(s)'
  <2>1. RunTrace(s)
    BY <1>3 DEF TraceInv, Traces
  <2>2. rows'[s] = rows[s]
    BY <1>3 DEF WriteRow, TraceInv, ExtractionTypeOK
  <2>3. ASSUME NEW v \in Workers, Works(v, s)'
        PROVE  Works(v, s) /\ task'[v] = task[v] /\ claim'[v] = claim[v]
    BY <1>3, <2>3 DEF Works, RunOf
  <2>4. TasksOwn(s)'
    BY <2>1, <2>2, <2>3 DEF RunTrace, TasksOwn, OwnRows
  <2>5. FutureRowsAbsent(s)' /\ RowsSequential(s)'
    BY <2>1, <2>2 DEF RunTrace, FutureRowsAbsent, RowsSequential
  <2>6. ResultStands(s)'
    BY <2>1, <2>2, <2>3 DEF RunTrace, ResultStands
  <2> QED BY <2>1, <2>4, <2>5, <2>6 DEF RunTrace
<1>4. ASSUME retried[RunOf(w)] = {}
      PROVE  RunTrace(RunOf(w))'
  BY <1>4, WriteKeepsRows
<1>5. RunOf(w)' = RunOf(w)
  BY DEF RunOf
<1> QED BY <1>2, <1>3, <1>4, <1>5 DEF Traces

-------------------------------------------------------------------------------
(* A new execution, and a result.                                          *)

LEMMA BeginTraces ==
  ASSUME TraceInv, NEW w \in Workers, NEW r \in Runs, Begin(w, r)
  PROVE  /\ ExtractionTypeOK'
         /\ TasksRun'
         /\ OneTaskPerLease'
         /\ Traces'
<1> DEFINE new == NewTask(job[r].attempts + 1)
<1>1. /\ phase[w] = "idle"
      /\ phase' = [phase EXCEPT ![w] = "running"]
      /\ claim' = [claim EXCEPT ![w] = [run |-> r, lease |-> leases[r] + 1]]
      /\ leases' = [leases EXCEPT ![r] = leases[r] + 1]
      /\ job' = [job EXCEPT ![r] = LeasedTo(w, r)]
      /\ task' = [task EXCEPT ![w] = new]
      /\ rows' = rows /\ result' = result /\ retried' = retried
  BY DEF Begin, ClaimLease
<1>2. /\ TypeOK /\ job[r].attempts \in Nat /\ job[r].attempts < MaxAttempts
      /\ leases[r] \in Nat
  BY ClaimableRun, RowTypes DEF Begin, ClaimLease, TraceInv, IInv, TypeOK
<1>3. /\ phase'[w] = "running" /\ task'[w] = new
      /\ claim'[w] = [run |-> r, lease |-> leases[r] + 1]
      /\ leases'[r] = leases[r] + 1
      /\ job'[r].attempts = job[r].attempts + 1
      /\ \A v \in Workers \ {w} : phase'[v] = phase[v] /\ task'[v] = task[v] /\ claim'[v] = claim[v]
      /\ \A s \in Runs \ {r} : leases'[s] = leases[s] /\ job'[s] = job[s]
  BY <1>1, <1>2 DEF TypeOK, TraceInv, ExtractionTypeOK, LeasedTo
<1>4. /\ new = [step |-> "looking", attempt |-> job[r].attempts + 1, answers |-> <<>>]
      /\ new \in Tasks /\ new # NoTask
  <2>1. job[r].attempts + 1 \in Attempts
    BY <1>2, QueueAssumption DEF Attempts
  <2>2. <<>> \in Seq(Responses)
    OBVIOUS
  <2>3. new \in Tasks
    BY <2>1, <2>2 DEF NewTask, Tasks, Steps
  <2> QED BY <2>3, ExtractionAssumption DEF NewTask
<1> HIDE DEF new
<1>5. ExtractionTypeOK'
  <2>1. task' \in [Workers -> Tasks \cup {NoTask}]
    BY <1>1, <1>4 DEF TraceInv, ExtractionTypeOK
  <2>2. ASSUME NEW v \in Workers PROVE TaskFits(v)'
    <3>1. CASE v = w
      <4>1. task'[v].answers = <<>> /\ task'[v].step = "looking" /\ phase'[v] = "running"
        BY <1>3, <1>4, <3>1
      <4> QED BY <4>1, ExtractionAssumption DEF TaskFits
    <3>2. CASE v # w
      BY <1>3, <3>2 DEF TaskFits, TraceInv, ExtractionTypeOK
    <3> QED BY <3>1, <3>2
  <2> QED BY <1>1, <2>1, <2>2 DEF TraceInv, ExtractionTypeOK
<1>6. TasksRun'
  <2> SUFFICES ASSUME NEW v \in Workers
               PROVE  task'[v] # NoTask <=> phase'[v] = "running"
    BY DEF TasksRun
  <2>1. CASE v = w
    BY <1>3, <1>4, <2>1
  <2>2. CASE v # w
    BY <1>3, <2>2 DEF TraceInv, TasksRun
  <2> QED BY <2>1, <2>2
<1>7. ASSUME NEW v \in Workers, v # w, task[v] # NoTask
      PROVE  claim[v].run = r => claim[v].lease <= leases[r] /\ claim[v].lease \in Nat
  BY <1>7, TaskTypes
<1>8. OneTaskPerLease'
  <2> SUFFICES ASSUME NEW u \in Workers, NEW v \in Workers, u # v,
                      task'[u] # NoTask, task'[v] # NoTask, claim'[u].run = claim'[v].run
               PROVE  claim'[u].lease # claim'[v].lease
    BY DEF OneTaskPerLease
  <2>1. CASE u = w
    BY <1>2, <1>3, <1>7, <2>1
  <2>2. CASE v = w
    BY <1>2, <1>3, <1>7, <2>2
  <2>3. CASE u # w /\ v # w
    BY <1>3, <2>3 DEF TraceInv, OneTaskPerLease
  <2> QED BY <2>1, <2>2, <2>3
<1>9. ASSUME NEW s \in Runs, retried'[s] = {}, s # r
      PROVE  RunTrace(s)'
  <2>1. RunTrace(s)
    BY <1>1, <1>9 DEF TraceInv, Traces
  <2>2. ASSUME NEW v \in Workers, Works(v, s)'
        PROVE  Works(v, s) /\ task'[v] = task[v] /\ claim'[v] = claim[v]
    BY <1>3, <1>9, <2>2 DEF Works
  <2>3. TasksOwn(s)'
    BY <1>1, <2>1, <2>2 DEF RunTrace, TasksOwn, OwnRows
  <2>4. FutureRowsAbsent(s)' /\ RowsSequential(s)' /\ leases'[s] = job'[s].attempts
    BY <1>1, <1>3, <1>9, <2>1 DEF RunTrace, FutureRowsAbsent, RowsSequential
  <2>5. ResultStands(s)'
    BY <1>1, <1>3, <1>9, <2>1, <2>2 DEF RunTrace, ResultStands
  <2> QED BY <2>3, <2>4, <2>5 DEF RunTrace
<1>10. ASSUME retried'[r] = {}
       PROVE  RunTrace(r)'
  <2>1. RunTrace(r)
    BY <1>1, <1>10 DEF TraceInv, Traces
  <2>2. leases'[r] = job'[r].attempts
    BY <1>2, <1>3, <2>1 DEF RunTrace
  <2>3. ASSUME NEW v \in Workers, Works(v, r)', v # w
        PROVE  Works(v, r) /\ task'[v] = task[v] /\ claim'[v] = claim[v]
    BY <1>3, <2>3 DEF Works
  <2>4. TasksOwn(r)'
    <3> SUFFICES ASSUME NEW v \in Workers, Works(v, r)'
                 PROVE  task'[v].attempt = claim'[v].lease /\ OwnRows(v, r)'
      BY DEF TasksOwn
    <3>1. CASE v = w
      <4>1. /\ task'[v].attempt = leases[r] + 1 /\ claim'[v].lease = leases[r] + 1
            /\ task'[v].attempt \in Attempts
            /\ task'[v].step = "looking" /\ Len(task'[v].answers) = 0
        BY <1>3, <1>4, <2>1, <3>1 DEF RunTrace, Tasks
      <4>2. \A c \in Chunks : rows'[r][task'[v].attempt][c] = Absent
        <5>1. leases[r] + 1 > leases[r]
          BY <1>2
        <5> QED BY <1>1, <2>1, <4>1, <5>1 DEF RunTrace, FutureRowsAbsent
      <4>3. \A c \in Chunks : ~ (c <= 0)
        BY DEF Chunks
      <4> QED BY <4>1, <4>2, <4>3 DEF OwnRows
    <3>2. CASE v # w
      BY <1>1, <2>1, <2>3, <3>2 DEF RunTrace, TasksOwn, OwnRows
    <3> QED BY <3>1, <3>2
  <2>5. FutureRowsAbsent(r)'
    <3> SUFFICES ASSUME NEW a \in Attempts, NEW c \in Chunks, a > leases'[r]
                 PROVE  rows[r][a][c] = Absent
      BY <1>1 DEF FutureRowsAbsent
    <3>1. a > leases[r]
      BY <1>2, <1>3, QueueAssumption DEF Attempts
    <3> QED BY <2>1, <3>1 DEF RunTrace, FutureRowsAbsent
  <2>6. RowsSequential(r)'
    BY <1>1, <2>1 DEF RunTrace, RowsSequential
  <2>7. ResultStands(r)'
    <3> SUFFICES ASSUME result[r] # NoResult
                 PROVE  /\ result[r].attempt <= leases'[r]
                        /\ \A c \in Chunks : rows[r][result[r].attempt][c] =
                             [status |-> "succeeded", response |-> result[r].answers[c]]
                        /\ \A v \in Workers :
                             Works(v, r)' /\ task'[v].attempt = result[r].attempt
                               => task'[v].step = "returning"
      BY <1>1 DEF ResultStands
    <3>1. ResultStands(r) /\ result[r].attempt \in Nat
      BY <2>1, QueueAssumption DEF RunTrace, TraceInv, ExtractionTypeOK, Results, Attempts
    <3>2. result[r].attempt <= leases'[r] /\ result[r].attempt # leases[r] + 1
      BY <1>2, <1>3, <3>1 DEF ResultStands
    <3>3. task'[w].attempt # result[r].attempt
      BY <1>3, <1>4, <2>1, <3>2 DEF RunTrace
    <3> QED BY <2>3, <3>1, <3>2, <3>3 DEF ResultStands
  <2> QED BY <2>2, <2>4, <2>5, <2>6, <2>7 DEF RunTrace
<1> QED BY <1>5, <1>6, <1>8, <1>9, <1>10 DEF Traces

LEMMA PersistTraces ==
  ASSUME TraceInv, NEW w \in Workers, Persist(w)
  PROVE  /\ ExtractionTypeOK'
         /\ TasksRun'
         /\ OneTaskPerLease'
         /\ Traces'
<1> DEFINE r == RunOf(w)
           new == [task[w] EXCEPT !.step = "returning"]
           answer == [attempt |-> task[w].attempt, answers |-> task[w].answers]
<1>1. /\ task[w] # NoTask /\ task[w].step = "persisting" /\ r = claim[w].run
      /\ result[r] = NoResult
      /\ task' = [task EXCEPT ![w] = new]
      /\ result' = [result EXCEPT ![r] = answer]
      /\ rows' = rows /\ claim' = claim /\ phase' = phase
      /\ job' = job /\ leases' = leases /\ retried' = retried
  BY DEF Persist, At, Insertable, Moves, HandlerCommits, dbVars, RunOf
<1>2. /\ r \in Runs /\ task[w] \in Tasks /\ task[w].attempt \in Attempts
      /\ task[w].answers \in Seq(Responses)
  BY <1>1, TaskTypes
<1>3. Len(task[w].answers) = ChunkCount
  BY <1>1 DEF TraceInv, ExtractionTypeOK, TaskFits
<1>4. /\ new \in Tasks /\ new # NoTask /\ new.step = "returning"
      /\ new.attempt = task[w].attempt /\ new.answers = task[w].answers
  <2>1. new = [step |-> "returning", attempt |-> task[w].attempt, answers |-> task[w].answers]
    BY <1>2 DEF Tasks
  <2>2. new \in Tasks
    BY <1>2, <2>1 DEF Tasks, Steps
  <2> QED BY <2>1, <2>2, ExtractionAssumption
<1>5. answer \in Results /\ answer # NoResult
  <2>1. task[w].answers \in [Chunks -> Responses]
    BY <1>2, <1>3 DEF Chunks
  <2> QED BY <1>2, <2>1, ExtractionAssumption DEF Results
<1> HIDE DEF r, new, answer
<1>6. /\ task'[w] = new /\ result'[r] = answer
      /\ \A v \in Workers \ {w} : task'[v] = task[v]
      /\ \A s \in Runs \ {r} : result'[s] = result[s]
  BY <1>1, <1>2 DEF TraceInv, ExtractionTypeOK
<1>7. ExtractionTypeOK'
  <2>1. task' \in [Workers -> Tasks \cup {NoTask}]
    BY <1>1, <1>4 DEF TraceInv, ExtractionTypeOK
  <2>2. result' \in [Runs -> Results \cup {NoResult}]
    BY <1>1, <1>2, <1>5 DEF TraceInv, ExtractionTypeOK
  <2>3. ASSUME NEW v \in Workers PROVE TaskFits(v)'
    <3>1. CASE v = w
      <4>1. phase[v] = "running" /\ ChunkCount \in Nat
        BY <1>1, <3>1, TaskTypes, ExtractionAssumption
      <4> QED BY <1>1, <1>3, <1>4, <1>6, <3>1, <4>1 DEF TaskFits
    <3>2. CASE v # w
      BY <1>1, <1>6, <3>2 DEF TaskFits, TraceInv, ExtractionTypeOK
    <3> QED BY <3>1, <3>2
  <2> QED BY <1>1, <2>1, <2>2, <2>3 DEF TraceInv, ExtractionTypeOK
<1>8. TasksRun'
  BY <1>1, <1>4, <1>6 DEF TraceInv, TasksRun
<1>9. OneTaskPerLease'
  BY <1>1, <1>4, <1>6 DEF TraceInv, OneTaskPerLease
<1>10. ASSUME NEW s \in Runs, retried'[s] = {}
       PROVE  RunTrace(s)'
  <2>1. RunTrace(s)
    BY <1>1, <1>10 DEF TraceInv, Traces
  <2>2. ASSUME NEW v \in Workers, Works(v, s)'
        PROVE  /\ Works(v, s)
               /\ claim'[v] = claim[v]
               /\ task'[v].attempt = task[v].attempt /\ task'[v].answers = task[v].answers
               /\ task'[v].step = "calling" <=> task[v].step = "calling"
               /\ v # w => task'[v] = task[v]
    BY <1>1, <1>4, <1>6, <2>2 DEF Works
  <2>3. TasksOwn(s)'
    BY <1>1, <2>1, <2>2 DEF RunTrace, TasksOwn, OwnRows
  <2>4. FutureRowsAbsent(s)' /\ RowsSequential(s)' /\ leases'[s] = job'[s].attempts
    BY <1>1, <2>1 DEF RunTrace, FutureRowsAbsent, RowsSequential
  <2>5. CASE s # r
    <3>1. result'[s] = result[s]
      BY <1>6, <2>5
    <3>2. ASSUME NEW v \in Workers, Works(v, s)' PROVE v # w
      BY <1>1, <2>2, <2>5, <3>2 DEF Works
    <3>3. ResultStands(s)'
      BY <1>1, <2>1, <2>2, <3>1, <3>2 DEF RunTrace, ResultStands
    <3> QED BY <2>3, <2>4, <3>3 DEF RunTrace
  <2>6. CASE s = r
    <3>1. task[w].attempt = claim[w].lease /\ claim[w].lease <= leases[r]
      BY <1>1, <2>1, <2>6, TaskTypes DEF RunTrace, TasksOwn, Works
    <3>2. \A c \in Chunks : rows[r][task[w].attempt][c] =
            [status |-> "succeeded", response |-> task[w].answers[c]]
      BY DEF Persist, TraceMatches, Row, Slot, r
    <3>3. ASSUME NEW v \in Workers, Works(v, s)', task'[v].attempt = task[w].attempt
          PROVE  task'[v].step = "returning"
      <4>1. Works(v, r) /\ task[v].attempt = claim[v].lease
        BY <2>1, <2>2, <2>6, <3>3 DEF RunTrace, TasksOwn
      <4>2. v = w
        BY <1>1, <2>2, <3>1, <3>3, <4>1 DEF TraceInv, OneTaskPerLease, Works
      <4> QED BY <1>4, <1>6, <4>2
    <3>4. answer.attempt = task[w].attempt /\ answer.answers = task[w].answers
      BY DEF answer
    <3>5. ResultStands(s)'
      BY <1>1, <1>6, <2>6, <3>1, <3>2, <3>3, <3>4 DEF ResultStands
    <3> QED BY <2>3, <2>4, <3>5 DEF RunTrace
  <2> QED BY <2>5, <2>6
<1> QED BY <1>7, <1>8, <1>9, <1>10 DEF Traces

-------------------------------------------------------------------------------
(* The other steps of an execution.                                        *)

\* The execution ends: it returns, raises or dies.
LEMMA EndTypes ==
  ASSUME TraceInv, NEW w \in Workers, NEW next, next # "running",
         phase' = [phase EXCEPT ![w] = next],
         task' = [task EXCEPT ![w] = NoTask],
         result' = result,
         rows' \in [Runs -> [Attempts -> [Chunks -> Rows]]]
  PROVE  ExtractionTypeOK' /\ TasksRun'
<1>1. /\ phase'[w] = next /\ task'[w] = NoTask
      /\ \A v \in Workers \ {w} : phase'[v] = phase[v] /\ task'[v] = task[v]
      /\ task' \in [Workers -> Tasks \cup {NoTask}]
  BY DEF TraceInv, IInv, TypeOK, ExtractionTypeOK
<1>2. TasksRun'
  BY <1>1 DEF TraceInv, TasksRun
<1>3. \A v \in Workers : TaskFits(v)'
  BY <1>1 DEF TraceInv, ExtractionTypeOK, TaskFits
<1> QED BY <1>1, <1>2, <1>3 DEF TraceInv, ExtractionTypeOK

LEMMA EndTraces ==
  ASSUME TraceInv, NEW w \in Workers, NEW next, next # "running",
         phase' = [phase EXCEPT ![w] = next],
         task' = [task EXCEPT ![w] = NoTask],
         \A v \in Workers \ {w} : claim'[v] = claim[v],
         UNCHANGED dbVars, rows' = rows, result' = result
  PROVE  ExtractionTypeOK' /\ TasksRun' /\ OneTaskPerLease' /\ Traces'
<1>1. ExtractionTypeOK' /\ TasksRun'
  BY EndTypes DEF TraceInv, ExtractionTypeOK
<1>2. ASSUME NEW v \in Workers, task'[v] # NoTask
      PROVE  task'[v] = task[v] /\ claim'[v] = claim[v]
  BY <1>2 DEF TraceInv, ExtractionTypeOK
<1>3. OneTaskPerLease' /\ Traces'
  BY <1>2, RowsKeptTraces DEF dbVars
<1> QED BY <1>1, <1>3

LEMMA ReturnsTraces ==
  ASSUME TraceInv, NEW w \in Workers, Returns(w)
  PROVE  ExtractionTypeOK' /\ TasksRun' /\ OneTaskPerLease' /\ Traces'
<1>1. /\ phase' = [phase EXCEPT ![w] = "ok"] /\ "ok" # "running"
      /\ task' = [task EXCEPT ![w] = NoTask]
      /\ claim' = claim /\ UNCHANGED dbVars /\ rows' = rows /\ result' = result
  BY DEF Returns, HandlerReturns
<1> QED BY <1>1, EndTraces

LEMMA RaisesTraces ==
  ASSUME TraceInv, NEW w \in Workers, NEW failure \in {"retryable", "terminal"},
         Raises(w, failure), rows' = rows
  PROVE  ExtractionTypeOK' /\ TasksRun' /\ OneTaskPerLease' /\ Traces'
<1>1. /\ phase' = [phase EXCEPT ![w] = failure] /\ failure # "running"
      /\ task' = [task EXCEPT ![w] = NoTask]
      /\ claim' = claim /\ UNCHANGED dbVars /\ result' = result
  BY DEF Raises
<1> QED BY <1>1, EndTraces

LEMMA DiesTraces ==
  ASSUME TraceInv, NEW w \in Workers, Dies(w)
  PROVE  ExtractionTypeOK' /\ TasksRun' /\ OneTaskPerLease' /\ Traces'
<1>1. /\ phase' = [phase EXCEPT ![w] = "down"] /\ "down" # "running"
      /\ task' = [task EXCEPT ![w] = NoTask]
      /\ \A v \in Workers \ {w} : claim'[v] = claim[v]
      /\ UNCHANGED dbVars /\ rows' = rows /\ result' = result
  BY DEF Dies, Crash, Leaves, TraceInv, IInv, TypeOK
<1> QED BY <1>1, EndTraces

\* The execution goes on.
LEMMA MoveTypes ==
  ASSUME TraceInv, NEW w \in Workers, task[w] # NoTask,
         NEW new \in Tasks, Len(new.answers) <= ChunkCount,
         new.step \in {"starting", "calling"} => Len(new.answers) < ChunkCount,
         new.step \in {"checking", "persisting"} => Len(new.answers) = ChunkCount,
         new.step # "looking",
         task' = [task EXCEPT ![w] = new],
         phase' = phase, result' = result,
         rows' \in [Runs -> [Attempts -> [Chunks -> Rows]]]
  PROVE  /\ ExtractionTypeOK' /\ TasksRun'
         /\ task'[w] = new /\ new # NoTask
         /\ \A v \in Workers \ {w} : task'[v] = task[v]
<1>1. /\ task'[w] = new /\ new # NoTask
      /\ \A v \in Workers \ {w} : task'[v] = task[v]
      /\ task' \in [Workers -> Tasks \cup {NoTask}]
  BY ExtractionAssumption DEF TraceInv, ExtractionTypeOK
<1>2. TasksRun'
  BY <1>1 DEF TraceInv, TasksRun
<1>3. ASSUME NEW v \in Workers PROVE TaskFits(v)'
  <2>1. CASE v = w
    BY <1>1, <2>1, TaskTypes DEF TaskFits
  <2>2. CASE v # w
    BY <1>1, <2>2 DEF TraceInv, ExtractionTypeOK, TaskFits
  <2> QED BY <2>1, <2>2
<1> QED BY <1>1, <1>2, <1>3 DEF TraceInv, ExtractionTypeOK

LEMMA MovesTraces ==
  ASSUME TraceInv, NEW w \in Workers, NEW from, NEW to \in Steps, At(w, from), Moves(w, to),
         <<from, to>> \in {<<"looking", "starting">>, <<"checking", "persisting">>},
         UNCHANGED <<vars, rows, result>>
  PROVE  ExtractionTypeOK' /\ TasksRun' /\ OneTaskPerLease' /\ Traces'
<1> DEFINE new == [task[w] EXCEPT !.step = to]
<1>1. task[w] # NoTask /\ task[w].step = from /\ task' = [task EXCEPT ![w] = new]
  BY DEF At, Moves
<1>2. task[w] \in Tasks /\ Len(task[w].answers) \in Nat
  BY <1>1, TaskTypes
<1>3. /\ new \in Tasks /\ new.step = to
      /\ new.attempt = task[w].attempt /\ new.answers = task[w].answers
  BY <1>2 DEF Tasks
<1>4. /\ Len(task[w].answers) <= ChunkCount
      /\ from = "checking" => Len(task[w].answers) = ChunkCount
      /\ from = "looking" => Len(task[w].answers) < ChunkCount
  <2>1. Len(<<>>) = 0 /\ ChunkCount \in Nat \ {0}
    BY ExtractionAssumption
  <2> QED BY <1>1, <2>1 DEF TraceInv, ExtractionTypeOK, TaskFits
<1>5. rows \in [Runs -> [Attempts -> [Chunks -> Rows]]]
  BY DEF TraceInv, ExtractionTypeOK
<1>6. phase' = phase /\ claim' = claim /\ leases' = leases /\ job' = job /\ retried' = retried
  BY DEF vars
<1> HIDE DEF new
<1>7. /\ ExtractionTypeOK' /\ TasksRun'
      /\ task'[w] = new /\ new # NoTask
      /\ \A v \in Workers \ {w} : task'[v] = task[v]
  <2>1. /\ new.step \in {"starting", "calling"} => Len(new.answers) < ChunkCount
        /\ new.step \in {"checking", "persisting"} => Len(new.answers) = ChunkCount
    BY <1>3, <1>4
  <2> QED BY <1>1, <1>3, <1>4, <1>5, <1>6, <2>1, MoveTypes
<1>8. ASSUME NEW v \in Workers, task'[v] # NoTask
      PROVE  /\ task[v] # NoTask
             /\ claim'[v] = claim[v]
             /\ task'[v].attempt = task[v].attempt
             /\ task'[v].answers = task[v].answers
             /\ task'[v].step = "calling" <=> task[v].step = "calling"
             /\ task[v].step = "returning" => task'[v].step = "returning"
  <2>1. CASE v = w
    BY <1>1, <1>3, <1>6, <1>7, <2>1
  <2>2. CASE v # w
    BY <1>6, <1>7, <1>8, <2>2
  <2> QED BY <2>1, <2>2
<1> QED BY <1>6, <1>7, <1>8, RowsKeptTraces

LEMMA StartedRow ==
  ASSUME NEW row \in Rows
  PROVE  Restarted(row) \in Rows
BY DEF Restarted, Rows

LEMMA StartChunkTraces ==
  ASSUME TraceInv, NEW w \in Workers, StartChunk(w)
  PROVE  ExtractionTypeOK' /\ TasksRun' /\ OneTaskPerLease' /\ Traces'
<1> DEFINE new == [task[w] EXCEPT !.step = "calling"]
           r == RunOf(w)
           a == task[w].attempt
           n == Len(task[w].answers)
           row == Restarted(rows[r][a][n + 1])
<1>1. /\ task[w] # NoTask /\ task[w].step = "starting" /\ task' = [task EXCEPT ![w] = new]
      /\ WriteRow(w, row)
      /\ phase' = phase /\ claim' = claim /\ leases' = leases /\ job' = job
      /\ retried' = retried /\ result' = result
  BY DEF StartChunk, At, Moves, vars, Row, Slot, Chunk
<1>2. /\ task[w] \in Tasks /\ a \in Attempts /\ n \in Nat /\ r \in Runs
      /\ claim[w].run = r
  BY <1>1, TaskTypes DEF RunOf
<1>3. n < ChunkCount /\ n + 1 \in Chunks
  <2>1. n < ChunkCount
    BY <1>1 DEF TraceInv, ExtractionTypeOK, TaskFits
  <2> QED BY <1>2, <2>1, ExtractionAssumption DEF Chunks
<1>4. /\ new \in Tasks /\ new.step = "calling"
      /\ new.attempt = a /\ new.answers = task[w].answers
  BY <1>2 DEF Tasks, Steps
<1>5. rows[r] \in [Attempts -> [Chunks -> Rows]] /\ rows[r][a][n + 1] \in Rows
  BY <1>2, <1>3 DEF TraceInv, ExtractionTypeOK
<1>6. row \in Rows
  BY <1>5, StartedRow
<1>7. rows' = [rows EXCEPT ![r][a][n + 1] = row]
  BY <1>1 DEF WriteRow, Slot, Chunk
<1> HIDE DEF new, row, r
<1>8. /\ rows' \in [Runs -> [Attempts -> [Chunks -> Rows]]]
      /\ \A c \in Chunks : c # n + 1 => rows'[r][a][c] = rows[r][a][c]
  BY <1>2, <1>3, <1>6, <1>7 DEF TraceInv, ExtractionTypeOK
<1>9. /\ ExtractionTypeOK' /\ TasksRun'
      /\ task'[w] = new /\ new # NoTask
      /\ \A v \in Workers \ {w} : task'[v] = task[v]
  <2>1. /\ Len(new.answers) <= ChunkCount /\ Len(new.answers) < ChunkCount
        /\ new.step # "looking" /\ new.step \notin {"checking", "persisting"}
    BY <1>2, <1>3, <1>4, ExtractionAssumption
  <2> QED BY <1>1, <1>4, <1>8, <2>1, MoveTypes
<1>10. ASSUME retried[r] = {}
       PROVE  OwnRows(w, r)'
  <2>1. OwnRows(w, r)
    BY <1>1, <1>2, <1>10 DEF TraceInv, Traces, RunTrace, TasksOwn, Works
  <2>2. r' = r
    BY <1>1 DEF r, RunOf
  <2> SUFFICES ASSUME NEW c \in Chunks
               PROVE  /\ c <= n => rows'[r][a][c] =
                           [status |-> "succeeded", response |-> task[w].answers[c]]
                      /\ c > n /\ c # n + 1 => rows'[r][a][c] = Absent
    BY <1>4, <1>9, <2>2 DEF OwnRows
  <2>3. c <= n => c # n + 1
    BY <1>2 DEF Chunks
  <2> QED BY <1>8, <2>1, <2>3 DEF OwnRows
<1>11. OneTaskPerLease' /\ Traces'
  <2>1. At(w, "starting") /\ task'[w].attempt = task[w].attempt /\ task'[w].step # "returning"
    BY <1>4, <1>9 DEF StartChunk
  <2>2. RunOf(w)' = RunOf(w)
    BY <1>1 DEF RunOf
  <2>3. retried[RunOf(w)] = {} => OwnRows(w, RunOf(w))'
    BY <1>10, <2>2 DEF r
  <2> QED BY <1>1, <1>6, <1>9, <2>1, <2>3, WriteKeepsTraces
<1> QED BY <1>9, <1>11

LEMMA ChunkAnsweredTraces ==
  ASSUME TraceInv, NEW w \in Workers, NEW response \in Responses, ChunkAnswered(w, response)
  PROVE  ExtractionTypeOK' /\ TasksRun' /\ OneTaskPerLease' /\ Traces'
<1> DEFINE r == RunOf(w)
           a == task[w].attempt
           n == Len(task[w].answers)
           new == [step |-> NextStep(w), attempt |-> a, answers |-> Append(task[w].answers, response)]
           row == [status |-> "succeeded", response |-> response]
<1>1. /\ task[w] # NoTask /\ task[w].step = "calling"
      /\ WriteRow(w, row)
      /\ phase' = phase /\ claim' = claim /\ leases' = leases /\ job' = job
      /\ retried' = retried /\ result' = result
  BY DEF ChunkAnswered, At, vars
<1>2. /\ task[w] \in Tasks /\ a \in Attempts /\ n \in Nat /\ r \in Runs
      /\ claim[w].run = r /\ task[w].answers \in Seq(Responses)
  BY <1>1, TaskTypes DEF RunOf
<1>3. n < ChunkCount /\ n + 1 \in Chunks
  <2>1. n < ChunkCount
    BY <1>1 DEF TraceInv, ExtractionTypeOK, TaskFits
  <2> QED BY <1>2, <2>1, ExtractionAssumption DEF Chunks
<1>4. task' = [task EXCEPT ![w] = new]
  BY DEF ChunkAnswered
<1>5. /\ Append(task[w].answers, response) \in Seq(Responses)
      /\ Len(Append(task[w].answers, response)) = n + 1
      /\ Append(task[w].answers, response)[n + 1] = response
      /\ \A c \in 1 .. n : Append(task[w].answers, response)[c] = task[w].answers[c]
  BY <1>2
<1>6. /\ NextStep(w) \in {"checking", "starting"}
      /\ NextStep(w) = "checking" => n + 1 = ChunkCount
      /\ NextStep(w) = "starting" => n + 1 < ChunkCount
  <2>1. NextStep(w) = IF n + 1 = ChunkCount THEN "checking" ELSE "starting"
    BY DEF NextStep, Chunk
  <2>2. n + 1 <= ChunkCount
    BY <1>2, <1>3, ExtractionAssumption
  <2>3. n + 1 # ChunkCount => n + 1 < ChunkCount
    BY <1>2, <2>2, ExtractionAssumption
  <2> QED BY <2>1, <2>3
<1>7. new \in Tasks
  BY <1>2, <1>5, <1>6 DEF Tasks, Steps
<1>8. row \in Rows
  BY DEF Rows
<1>9. rows' = [rows EXCEPT ![r][a][n + 1] = row]
  BY <1>1 DEF WriteRow, Slot, Chunk
<1>10. /\ rows' \in [Runs -> [Attempts -> [Chunks -> Rows]]]
       /\ rows'[r][a][n + 1] = row
       /\ \A c \in Chunks : c # n + 1 => rows'[r][a][c] = rows[r][a][c]
  <2> HIDE DEF r, row
  <2> QED BY <1>2, <1>3, <1>8, <1>9 DEF TraceInv, ExtractionTypeOK
<1>11. /\ ExtractionTypeOK' /\ TasksRun'
       /\ task'[w] = new /\ new # NoTask
       /\ \A v \in Workers \ {w} : task'[v] = task[v]
  <2>1. /\ Len(new.answers) <= ChunkCount
        /\ new.step \in {"starting", "calling"} => Len(new.answers) < ChunkCount
        /\ new.step \in {"checking", "persisting"} => Len(new.answers) = ChunkCount
        /\ new.step # "looking"
    BY <1>2, <1>3, <1>5, <1>6, ExtractionAssumption
  <2> HIDE DEF new
  <2> QED BY <1>1, <1>4, <1>7, <1>10, <2>1, MoveTypes
<1>12. ASSUME retried[r] = {}
       PROVE  OwnRows(w, r)'
  <2>1. OwnRows(w, r)
    BY <1>1, <1>2, <1>12 DEF TraceInv, Traces, RunTrace, TasksOwn, Works
  <2>2. r' = r
    BY <1>1 DEF RunOf
  <2>3. /\ task'[w].attempt = a /\ Len(task'[w].answers) = n + 1
        /\ task'[w].answers[n + 1] = response
        /\ \A c \in 1 .. n : task'[w].answers[c] = task[w].answers[c]
    BY <1>5, <1>11
  <2> SUFFICES ASSUME NEW c \in Chunks
               PROVE  /\ c <= n + 1 => rows'[r][a][c] =
                           [status |-> "succeeded", response |-> task'[w].answers[c]]
                      /\ c > n + 1 => rows'[r][a][c] = Absent
    BY <2>2, <2>3 DEF OwnRows
  <2>4. CASE c = n + 1
    BY <1>2, <1>10, <2>3, <2>4
  <2>5. CASE c # n + 1 /\ c <= n + 1
    <3>1. c \in 1 .. n /\ c <= n
      BY <1>2, <2>5 DEF Chunks
    <3> QED BY <1>10, <2>1, <2>3, <2>5, <3>1 DEF OwnRows
  <2>6. CASE c > n + 1
    <3>1. c > n /\ c # n + 1
      BY <1>2, <2>6 DEF Chunks
    <3>2. ~ (c <= n + 1)
      BY <1>2, <2>6 DEF Chunks
    <3> QED BY <1>10, <2>1, <3>1, <3>2 DEF OwnRows
  <2>7. c \in Nat
    BY DEF Chunks
  <2> QED BY <1>2, <2>4, <2>5, <2>6, <2>7
<1>13. OneTaskPerLease' /\ Traces'
  <2>1. At(w, "calling") /\ task'[w].attempt = task[w].attempt /\ task'[w].step # "returning"
    BY <1>6, <1>11 DEF ChunkAnswered
  <2>2. RunOf(w)' = RunOf(w)
    BY <1>1 DEF RunOf
  <2>3. retried[RunOf(w)] = {} => OwnRows(w, RunOf(w))'
    BY <1>12, <2>2
  <2> HIDE DEF row, new
  <2> QED BY <1>1, <1>8, <1>11, <2>1, <2>3, WriteKeepsTraces
<1> QED BY <1>11, <1>13

LEMMA ChunkFailsTraces ==
  ASSUME TraceInv, NEW w \in Workers, ChunkFails(w)
  PROVE  ExtractionTypeOK' /\ TasksRun' /\ OneTaskPerLease' /\ Traces'
<1> DEFINE r == RunOf(w)
           a == task[w].attempt
           n == Len(task[w].answers)
           row == [rows[r][a][n + 1] EXCEPT !.status = "failed"]
<1>1. /\ task[w] # NoTask /\ task[w].step = "calling"
      /\ WriteRow(w, row)
      /\ task' = [task EXCEPT ![w] = NoTask]
      /\ phase' = [phase EXCEPT ![w] = "terminal"]
      /\ claim' = claim /\ leases' = leases /\ job' = job
      /\ retried' = retried /\ result' = result
  BY DEF ChunkFails, At, Raises, dbVars, Row, Slot, Chunk
<1>2. a \in Attempts /\ n \in Nat /\ r \in Runs
  BY <1>1, TaskTypes DEF RunOf
<1>3. n + 1 \in Chunks
  <2>1. n < ChunkCount
    BY <1>1 DEF TraceInv, ExtractionTypeOK, TaskFits
  <2> QED BY <1>2, <2>1, ExtractionAssumption DEF Chunks
<1>4. rows[r] \in [Attempts -> [Chunks -> Rows]] /\ rows[r][a][n + 1] \in Rows
  BY <1>2, <1>3 DEF TraceInv, ExtractionTypeOK
<1>5. row \in Rows
  BY <1>4 DEF Rows
<1>6. rows' = [rows EXCEPT ![r][a][n + 1] = row]
  BY <1>1 DEF WriteRow, Slot, Chunk
<1> HIDE DEF row, r
<1>7. rows' \in [Runs -> [Attempts -> [Chunks -> Rows]]]
  BY <1>2, <1>3, <1>5, <1>6 DEF TraceInv, ExtractionTypeOK
<1>8. ExtractionTypeOK' /\ TasksRun'
  <2>1. "terminal" # "running"
    OBVIOUS
  <2> QED BY <1>1, <1>7, <2>1, EndTypes
<1>9. task'[w] = NoTask /\ \A v \in Workers \ {w} : task'[v] = task[v]
  BY <1>1 DEF TraceInv, ExtractionTypeOK
<1>10. OneTaskPerLease' /\ Traces'
  BY <1>1, <1>5, <1>9, WriteKeepsTraces DEF ChunkFails
<1> QED BY <1>8, <1>10

-------------------------------------------------------------------------------
(* The queue's transactions, and the theorems.                             *)

\* What the queue does to runs and to processes that execute nothing leaves
\* the executions alone; only a retry, which ends the claim, resets attempts.
LEMMA QueueTraces ==
  ASSUME TraceInv, UNCHANGED extractionVars, leases' = leases,
         \A r \in Runs : retried'[r] = {} => retried[r] = {} /\ job'[r].attempts = job[r].attempts,
         \A w \in Workers : phase[w] = "running" <=> phase'[w] = "running",
         \A w \in Workers : phase[w] = "running" => claim'[w] = claim[w]
  PROVE  ExtractionTypeOK' /\ TasksRun' /\ OneTaskPerLease' /\ Traces'
<1>1. task' = task /\ rows' = rows /\ result' = result
  BY DEF extractionVars
<1>2. TasksRun'
  BY <1>1 DEF TraceInv, TasksRun
<1>3. ExtractionTypeOK'
  BY <1>1 DEF TraceInv, ExtractionTypeOK, TaskFits
<1>4. OneTaskPerLease' /\ Traces'
  BY <1>1, RowsKeptTraces DEF TraceInv, TasksRun
<1> QED BY <1>2, <1>3, <1>4

LEMMA RetriedGrows ==
  ASSUME TypeOK, NEW r \in Runs, NEW key \in RetryKeys, RetryRun(r, key)
  PROVE  /\ retried'[r] # {}
         /\ \A s \in Runs \ {r} : retried'[s] = retried[s] /\ job'[s] = job[s]
BY DEF RetryRun, TypeOK

LEMMA QueueStepTraces ==
  ASSUME TraceInv, QueueStep, UNCHANGED extractionVars
  PROVE  ExtractionTypeOK' /\ TasksRun' /\ OneTaskPerLease' /\ Traces'
<1>0. TypeOK
  BY DEF TraceInv, IInv
<1>1. ASSUME NEW r \in Runs, Enqueue(r)
      PROVE  ExtractionTypeOK' /\ TasksRun' /\ OneTaskPerLease' /\ Traces'
  <2>1. r \notin enqueued /\ job' = [job EXCEPT ![r] = NewJob]
        /\ leases' = leases /\ retried' = retried /\ phase' = phase /\ claim' = claim
    BY <1>1 DEF Enqueue
  <2>2. job[r] = NewJob
    BY <2>1 DEF TraceInv, IInv, UnsubmittedIsBlank
  <2>3. \A s \in Runs : job'[s] = job[s]
    BY <1>0, <2>1, <2>2 DEF TypeOK
  <2> QED BY <2>1, <2>3, QueueTraces
<1>2. ASSUME NEW r \in Runs, NEW key \in RetryKeys, RetryRun(r, key)
      PROVE  ExtractionTypeOK' /\ TasksRun' /\ OneTaskPerLease' /\ Traces'
  <2>1. leases' = leases /\ phase' = phase /\ claim' = claim
    BY <1>2 DEF RetryRun
  <2> QED BY <1>0, <1>2, <2>1, RetriedGrows, QueueTraces
<1>3. ASSUME NEW r \in Runs, Elapse(r)
      PROVE  ExtractionTypeOK' /\ TasksRun' /\ OneTaskPerLease' /\ Traces'
  <2>1. /\ leases' = leases /\ phase' = phase /\ claim' = claim /\ retried' = retried
        /\ \A s \in Runs : job'[s].attempts = job[s].attempts
    BY <1>0, <1>3 DEF Elapse, TypeOK, JobRecord
  <2> QED BY <2>1, QueueTraces
<1>4. ASSUME NEW w \in Workers, Settle(w) \/ Restart(w)
      PROVE  ExtractionTypeOK' /\ TasksRun' /\ OneTaskPerLease' /\ Traces'
  <2>1. /\ leases' = leases /\ retried' = retried
        /\ \A s \in Runs : job'[s].attempts = job[s].attempts
    BY <1>0, <1>4 DEF Settle, Restart, Complete, Fail, LoseLease, dbVars, ReleasedJob, TypeOK, JobRecord
  <2>2. \E next \in {"idle", "down"} : Leaves(w, next)
    BY <1>4 DEF Settle, Restart, Complete, Fail, LoseLease
  <2>3. phase[w] # "running"
    BY <1>4 DEF Settle, Restart, Complete, Fail, LoseLease, Outcomes
  <2>4. \A v \in Workers : /\ phase[v] = "running" <=> phase'[v] = "running"
                           /\ phase[v] = "running" => claim'[v] = claim[v]
    BY <1>0, <2>2, <2>3 DEF Leaves, TypeOK
  <2> QED BY <2>1, <2>4, QueueTraces
<1> QED BY <1>1, <1>2, <1>3, <1>4 DEF QueueStep

LEMMA ExecuteTraces ==
  ASSUME TraceInv, NEW w \in Workers, Execute(w)
  PROVE  ExtractionTypeOK' /\ TasksRun' /\ OneTaskPerLease' /\ Traces'
<1>1. CASE FindResult(w) \/ Finish(w)
  BY <1>1, ReturnsTraces DEF FindResult, Finish
<1>2. CASE FindNone(w)
  BY <1>2, MovesTraces DEF FindNone, Steps
<1>3. CASE StartChunk(w)
  BY <1>3, StartChunkTraces
<1>4. CASE \E response \in Responses : ChunkAnswered(w, response)
  BY <1>4, ChunkAnsweredTraces
<1>5. CASE ChunkFails(w)
  BY <1>5, ChunkFailsTraces
<1>6. CASE CheckResult(w)
  BY <1>6, ReturnsTraces, MovesTraces DEF CheckResult, Steps
<1>7. CASE Persist(w)
  BY <1>7, PersistTraces
<1>8. CASE PersistRefused(w)
  BY <1>8, RaisesTraces DEF PersistRefused
<1>9. CASE Interrupted(w)
  BY <1>9, RaisesTraces DEF Interrupted
<1> QED BY <1>1, <1>2, <1>3, <1>4, <1>5, <1>6, <1>7, <1>8, <1>9 DEF Execute

LEMMA ClaimTraces ==
  ASSUME TraceInv, NEW r \in Runs, Claim(r)
  PROVE  ExtractionTypeOK' /\ TasksRun' /\ OneTaskPerLease' /\ Traces'
<1>1. ASSUME NEW w \in Workers, Begin(w, r)
      PROVE  ExtractionTypeOK' /\ TasksRun' /\ OneTaskPerLease' /\ Traces'
  BY <1>1, BeginTraces
<1>2. ASSUME NEW w \in Workers, FailExpired(w, r), UNCHANGED extractionVars
      PROVE  ExtractionTypeOK' /\ TasksRun' /\ OneTaskPerLease' /\ Traces'
  <2>1. /\ leases' = leases /\ retried' = retried /\ phase' = phase /\ claim' = claim
        /\ \A s \in Runs : job'[s].attempts = job[s].attempts
    BY <1>2 DEF FailExpired, ReleasedJob, TraceInv, IInv, TypeOK, JobRecord
  <2> QED BY <1>2, <2>1, QueueTraces
<1> QED BY <1>1, <1>2 DEF Claim

LEMMA TracesInit == ExtractionInit => TraceInv
<1> SUFFICES ASSUME ExtractionInit PROVE TraceInv
  OBVIOUS
<1>1. IInv
  BY InitInvariant DEF ExtractionInit
<1>2. /\ \A w \in Workers : task[w] = NoTask /\ phase[w] = "idle"
      /\ \A r \in Runs : result[r] = NoResult /\ leases[r] = 0 /\ job[r].attempts = 0
      /\ \A r \in Runs, a \in Attempts, c \in Chunks : rows[r][a][c] = Absent
  BY DEF ExtractionInit, Init, NewJob
<1>3. ExtractionTypeOK
  <2>1. Absent \in Rows
    BY DEF Absent, Rows
  <2>2. \A w \in Workers : TaskFits(w)
    BY <1>2 DEF TaskFits
  <2> QED BY <2>1, <2>2 DEF ExtractionInit, ExtractionTypeOK
<1>4. TasksRun /\ OneTaskPerLease
  BY <1>2 DEF TasksRun, OneTaskPerLease
<1>5. ASSUME NEW r \in Runs PROVE RunTrace(r)
  <2>1. \A c \in Chunks \ {ChunkCount} : c + 1 \in Chunks
    BY ExtractionAssumption DEF Chunks
  <2> QED BY <1>2, <2>1 DEF RunTrace, TasksOwn, Works, FutureRowsAbsent, RowsSequential, ResultStands
<1> QED BY <1>1, <1>3, <1>4, <1>5 DEF TraceInv, Traces

LEMMA TracesNext == TraceInv /\ [ExtractionNext]_allVars => TraceInv'
<1> SUFFICES ASSUME TraceInv, [ExtractionNext]_allVars PROVE TraceInv'
  OBVIOUS
<1>1. IInv'
  BY StepIsQueueStep, NextInvariant DEF TraceInv
<1>2. ExtractionTypeOK' /\ TasksRun' /\ OneTaskPerLease' /\ Traces'
  <2>1. CASE UNCHANGED allVars
    BY <2>1, QueueTraces DEF allVars, vars
  <2> QED BY <2>1, ClaimTraces, ExecuteTraces, DiesTraces, QueueStepTraces DEF ExtractionNext
<1> QED BY <1>1, <1>2 DEF TraceInv

LEMMA TraceInvariant == ExtractionSpec => []TraceInv
BY TracesInit, TracesNext, PTL DEF ExtractionSpec

\* Rows, results and executions keep their types; in particular an execution
\* checks and persists only what it has for every chunk.
THEOREM ExtractionTypeCorrect == ExtractionSpec => []ExtractionTypeOK
<1>1. TraceInv => ExtractionTypeOK
  BY DEF TraceInv
<1> QED BY <1>1, TraceInvariant, PTL

\* Until a human retries the run, the rows of the attempt that produced its
\* result are its answers: no other execution ever wrote to them.
THEOREM TraceAlwaysStands == ExtractionSpec => []TraceStands
<1>1. TraceInv => TraceStands
  BY DEF TraceInv, Traces, RunTrace, ResultStands, TraceStands
<1> QED BY <1>1, TraceInvariant, PTL

\* Until a human retries the run, each attempt has the rows of one execution.
THEOREM TraceAlwaysSequential == ExtractionSpec => []TraceIsSequential
<1>1. TraceInv => TraceIsSequential
  BY DEF TraceInv, Traces, RunTrace, RowsSequential, TraceIsSequential
<1> QED BY <1>1, TraceInvariant, PTL

\* Only Persist writes a result, where there was none.
LEMMA ResultWrittenOnce ==
  ASSUME [ExtractionNext]_allVars, TraceInv, NEW r \in Runs, result[r] # NoResult
  PROVE  result'[r] = result[r]
<1>1. CASE result' = result
  BY <1>1
<1>2. CASE \E w \in Workers : Persist(w)
  <2>1. PICK w \in Workers : Persist(w)
    BY <1>2
  <2>2. RunOf(w) # r
    BY <2>1 DEF Persist, Insertable
  <2> QED BY <2>1, <2>2 DEF Persist, TraceInv, ExtractionTypeOK
<1>3. result' = result \/ \E w \in Workers : Persist(w)
  BY DEF ExtractionNext, allVars, extractionVars, Claim, Begin, Execute, FindResult, FindNone,
         StartChunk, ChunkAnswered, ChunkFails, CheckResult, PersistRefused, Finish, Interrupted,
         Returns, Raises, Dies
<1> QED BY <1>1, <1>2, <1>3

\* A result is never replaced, however many executions reach persist_result,
\* before and after a retry.
THEOREM ResultAlwaysFinal == ExtractionSpec => ResultIsFinal
<1>1. TraceInv /\ [ExtractionNext]_allVars
        => [\A r \in Runs : result[r] # NoResult => result'[r] = result[r]]_allVars
  BY ResultWrittenOnce
<1> QED BY <1>1, TraceInvariant, PTL DEF ExtractionSpec, ResultIsFinal

===============================================================================
