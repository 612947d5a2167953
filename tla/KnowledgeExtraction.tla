--------------------------- MODULE KnowledgeExtraction ---------------------------
(***************************************************************************)
(* The handler of knowledge.extract, executed by the processes of          *)
(* WorkflowQueue:                                                          *)
(*   application/knowledge_jobs.py        extract                          *)
(*   application/knowledge_extraction.py  ExtractionHarness.run            *)
(*   infrastructure/database/knowledge_repository.py                       *)
(*                        the observer's three rows, persist_result        *)
(*                                                                         *)
(* WorkflowQueue lets a handler commit, return or raise whenever it likes. *)
(* Here each of these is a step of the code, between the calls of the      *)
(* model, and what it leaves in the database is modelled; every step is    *)
(* one of the queue's or leaves the queue's state alone.                   *)
(*                                                                         *)
(* The chunks of a document and the fingerprints of their requests are     *)
(* functions of immutable text, so the identity checks between a row, a    *)
(* request and an answer always pass and are left out.  A response stands  *)
(* for what a call returns: its claims, usage and response_id.             *)
(***************************************************************************)
EXTENDS WorkflowQueue, Sequences

CONSTANTS
  ChunkCount,  \* the number of chunks of the document
  Responses,   \* what the model may answer
  NoResponse,  \* a row without an answer
  NoResult,    \* a run without a row in knowledge_extraction_results
  NoTask       \* a process that executes no handler

Chunks == 1 .. ChunkCount
Attempts == 1 .. MaxAttempts

VARIABLES
  rows,    \* rows[r][a][c]: the row of model_invocations of run r, attempt a, chunk c
  result,  \* result[r]: the result row of run r, with its claims
  task     \* task[w]: the execution of the handler in process w

extractionVars == <<rows, result, task>>
allVars == <<vars, extractionVars>>

Rows == [status : {"absent", "running", "succeeded", "failed"},
         response : Responses \cup {NoResponse}]
Absent == [status |-> "absent", response |-> NoResponse]

\* A result holds the attempt that produced it and the answer for each chunk.
Results == [attempt : Attempts, answers : [Chunks -> Responses]]

Steps == {"looking", "starting", "calling", "checking", "persisting", "returning"}
Tasks == [step : Steps, attempt : Attempts, answers : Seq(Responses)]

ASSUME ExtractionAssumption ==
  /\ ChunkCount \in Nat \ {0}
  /\ NoResponse \notin Responses
  /\ NoResult \notin Results
  /\ NoTask \notin Tasks

TaskFits(w) ==
  task[w] # NoTask =>
    /\ phase[w] = "running"
    /\ Len(task[w].answers) <= ChunkCount
    /\ task[w].step = "looking" => task[w].answers = <<>>
    /\ task[w].step \in {"starting", "calling"} => Len(task[w].answers) < ChunkCount
    /\ task[w].step \in {"checking", "persisting"} => Len(task[w].answers) = ChunkCount

ExtractionTypeOK ==
  /\ rows \in [Runs -> [Attempts -> [Chunks -> Rows]]]
  /\ result \in [Runs -> Results \cup {NoResult}]
  /\ task \in [Workers -> Tasks \cup {NoTask}]
  /\ \A w \in Workers : TaskFits(w)

ExtractionInit ==
  /\ Init
  /\ rows = [r \in Runs |-> [a \in Attempts |-> [c \in Chunks |-> Absent]]]
  /\ result = [r \in Runs |-> NoResult]
  /\ task = [w \in Workers |-> NoTask]

-------------------------------------------------------------------------------
(* What an execution reads and writes.                                     *)

At(w, step) == phase[w] = "running" /\ task[w] # NoTask /\ task[w].step = step

RunOf(w) == claim[w].run

\* The chunk process w works on.
Chunk(w) == Len(task[w].answers) + 1

\* FAULT: a run has one set of rows, whatever the attempt.
SlotOfRun(w) == 1

\* The attempt under which process w reads and writes its rows.
Slot(w) == task[w].attempt

Row(w, c) == rows[RunOf(w)][Slot(w)][c]

WriteRow(w, row) == rows' = [rows EXCEPT ![RunOf(w)][Slot(w)][Chunk(w)] = row]

NewTask(attempt) == [step |-> "looking", attempt |-> attempt, answers |-> <<>>]

Moves(w, step) == task' = [task EXCEPT ![w].step = step]

\* _validate_invocations: the rows of the attempt tell what the process has in memory.
TraceMatches(w) ==
  \A c \in Chunks : Row(w, c) = [status |-> "succeeded", response |-> task[w].answers[c]]

\* FAULT: the result is replaced.
AlwaysInsertable(r) == TRUE

\* The primary key of knowledge_extraction_results.
Insertable(r) == result[r] = NoResult

-------------------------------------------------------------------------------
(* The handler.                                                            *)

Begin(w, r) ==
  /\ ClaimLease(w, r)
  /\ task' = [task EXCEPT ![w] = NewTask(job[r].attempts + 1)]
  /\ UNCHANGED <<rows, result>>

\* The handler returns: its result is there, by whichever execution.
Returns(w) ==
  /\ HandlerReturns(w)
  /\ task' = [task EXCEPT ![w] = NoTask]
  /\ UNCHANGED <<rows, result>>

\* FAULT: the exception is swallowed.
RaisesNothing(w, failure) ==
  /\ phase' = [phase EXCEPT ![w] = "ok"]
  /\ task' = [task EXCEPT ![w] = NoTask]
  /\ UNCHANGED <<dbVars, effects, claim, result>>

Raises(w, failure) ==
  /\ phase' = [phase EXCEPT ![w] = failure]
  /\ task' = [task EXCEPT ![w] = NoTask]
  /\ UNCHANGED <<dbVars, effects, claim, result>>

FindResult(w) == At(w, "looking") /\ result[RunOf(w)] # NoResult /\ Returns(w)

\* No result yet; the target and its text are loaded, which changes nothing.
FindNone(w) ==
  /\ At(w, "looking")
  /\ result[RunOf(w)] = NoResult
  /\ Moves(w, "starting")
  /\ UNCHANGED <<vars, rows, result>>

\* observer.started: a new row, or that of an earlier execution under the same
\* attempt number; one that succeeded is left alone.
Restarted(row) ==
  IF row.status = "succeeded" THEN row ELSE [status |-> "running", response |-> NoResponse]

StartChunk(w) ==
  /\ At(w, "starting")
  /\ WriteRow(w, Restarted(Row(w, Chunk(w))))
  /\ Moves(w, "calling")
  /\ UNCHANGED <<vars, result>>

\* FAULT: the last chunk is left out.
NextStepEarly(w) == IF Chunk(w) + 1 >= ChunkCount THEN "checking" ELSE "starting"

NextStep(w) == IF Chunk(w) = ChunkCount THEN "checking" ELSE "starting"

\* The call returns an answer, and observer.succeeded overwrites the row.
ChunkAnswered(w, response) ==
  /\ At(w, "calling")
  /\ WriteRow(w, [status |-> "succeeded", response |-> response])
  /\ task' = [task EXCEPT ![w] =
       [step |-> NextStep(w), attempt |-> @.attempt, answers |-> Append(@.answers, response)]]
  /\ UNCHANGED <<vars, result>>

\* The call fails, or answers another request: observer.failed overwrites the
\* status of the row, and the whole document fails for good.
ChunkFails(w) ==
  /\ At(w, "calling")
  /\ WriteRow(w, [Row(w, Chunk(w)) EXCEPT !.status = "failed"])
  /\ Raises(w, "terminal")

\* persist_result looks for a result before it locks the run.
CheckResult(w) ==
  /\ At(w, "checking")
  /\ \/ /\ result[RunOf(w)] # NoResult
        /\ Returns(w)
     \/ /\ result[RunOf(w)] = NoResult
        /\ Moves(w, "persisting")
        /\ UNCHANGED <<vars, rows, result>>

\* With the run locked the rows are compared; claims, evidence and the result
\* row commit together, or another execution's primary key refuses them all.
Persist(w) ==
  /\ At(w, "persisting")
  /\ TraceMatches(w)
  /\ Insertable(RunOf(w))
  /\ HandlerCommits(w)
  /\ result' = [result EXCEPT ![RunOf(w)] =
       [attempt |-> task[w].attempt, answers |-> task[w].answers]]
  /\ Moves(w, "returning")
  /\ UNCHANGED rows

PersistRefused(w) ==
  /\ At(w, "persisting")
  /\ \/ ~ TraceMatches(w) /\ Raises(w, "terminal")
     \/ TraceMatches(w) /\ ~ Insertable(RunOf(w)) /\ Raises(w, "retryable")
  /\ UNCHANGED rows

Finish(w) == At(w, "returning") /\ Returns(w)

\* The database or the object store fails at any step; before the first call
\* the target may also be found archived, or its bytes corrupt.
Interrupted(w) ==
  /\ phase[w] = "running"
  /\ \E failure \in {"retryable", "terminal"} :
       /\ failure = "terminal" => At(w, "looking") \/ At(w, "persisting")
       /\ Raises(w, failure)
  /\ UNCHANGED rows

Execute(w) ==
  \/ FindResult(w) \/ FindNone(w) \/ StartChunk(w)
  \/ \E response \in Responses : ChunkAnswered(w, response)
  \/ ChunkFails(w) \/ CheckResult(w) \/ Persist(w) \/ PersistRefused(w)
  \/ Finish(w) \/ Interrupted(w)

-------------------------------------------------------------------------------
(* The handler between the queue's own transactions.                       *)

Dies(w) ==
  /\ Crash(w)
  /\ task' = [task EXCEPT ![w] = NoTask]
  /\ UNCHANGED <<rows, result>>

Claim(r) == \E w \in Workers : Begin(w, r) \/ (FailExpired(w, r) /\ UNCHANGED extractionVars)

QueueStep ==
  \/ \E r \in Runs : Enqueue(r) \/ Elapse(r) \/ \E key \in RetryKeys : RetryRun(r, key)
  \/ \E w \in Workers : Settle(w) \/ Restart(w)

ExtractionNext ==
  \/ \E r \in Runs : Claim(r)
  \/ \E w \in Workers : Execute(w) \/ Dies(w)
  \/ QueueStep /\ UNCHANGED extractionVars

ExtractionSpec == ExtractionInit /\ [][ExtractionNext]_allVars

\* The fairness of the queue; a call ends because the gateway has a timeout.
ExtractionFairness ==
  /\ \A r \in Runs : WF_allVars(Claim(r)) /\ WF_allVars(Elapse(r) /\ UNCHANGED extractionVars)
  /\ \A w \in Workers :
       /\ WF_allVars(Execute(w))
       /\ WF_allVars(Settle(w) /\ UNCHANGED extractionVars)
       /\ WF_allVars(Restart(w) /\ UNCHANGED extractionVars)

FairExtraction == ExtractionSpec /\ ExtractionFairness

-------------------------------------------------------------------------------
(* Properties.                                                             *)

\* Until a human retries the run, the rows of the attempt that produced the
\* result are its answers, for ever: no process that outlived its lease and no
\* later attempt writes to them (started, succeeded and failed overwrite rows).
TraceStands ==
  \A r \in Runs :
    result[r] # NoResult /\ retried[r] = {} =>
      \A c \in Chunks :
        rows[r][result[r].attempt][c] =
          [status |-> "succeeded", response |-> result[r].answers[c]]

\* Until a human retries the run, the rows of an attempt are those of one
\* execution, chunk by chunk: before the last one there is, all succeeded.
TraceIsSequential ==
  \A r \in Runs, a \in Attempts :
    retried[r] = {} =>
      \A c \in Chunks \ {ChunkCount} :
        rows[r][a][c + 1] # Absent => rows[r][a][c].status = "succeeded"

\* A result, with its claims, is committed once for a run and never replaced,
\* however many executions reach persist_result ("immutable and is the retry
\* idempotency marker", m1c-durable-extraction.md:29).
ResultIsFinal == [][\A r \in Runs : result[r] # NoResult => result'[r] = result[r]]_allVars

\* The handler does what the queue relies on: it commits at most its result,
\* returns only with a result, whoever committed it, and always ends.
ImplementsQueue == FairSpec

=================================================================================
