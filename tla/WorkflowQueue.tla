----------------------------- MODULE WorkflowQueue -----------------------------
(***************************************************************************)
(* The durable job queue and the workers around it:                        *)
(*   infrastructure/database/job_queue.py   claim_next, complete, fail     *)
(*   infrastructure/database/run_service.py, workspace_service.py          *)
(*                                          enqueue_run, enqueue, retry_run*)
(*   application/jobs.py, apps/worker/main.py   Worker.run_once, main      *)
(*                                                                         *)
(* Every method of the queue is one database transaction that locks the    *)
(* job's row and the run's row before it reads them, so it is one action.  *)
(* Between two of them a worker process executes the job's handler, with   *)
(* no lock held and no renewal of the lease: that is where processes       *)
(* interleave, crash, and outlive their lease.                             *)
(*                                                                         *)
(* The only commands that create runs give each run exactly one job, so a  *)
(* job is named by its run, and a run by the idempotency key it was        *)
(* requested with.                                                         *)
(***************************************************************************)
EXTENDS RunState, Naturals, FiniteSets

CONSTANTS
  Runs,         \* the idempotency keys runs may be requested with
  Workers,      \* worker processes
  IdOf,         \* IdOf[w] is settings.worker_id of process w
  MaxAttempts,  \* max_attempts of every job (3 in the code)
  RetryKeys,    \* the Idempotency-Key values a human may retry a run with
  NoOwner,      \* a NULL lease_owner
  NoClaim       \* a process that holds no ClaimedJob

WorkerIds == {IdOf[w] : w \in Workers}

ASSUME QueueAssumption ==
  /\ MaxAttempts \in Nat \ {0}
  /\ IsFiniteSet(RetryKeys)
  /\ IdOf = [w \in Workers |-> IdOf[w]]
  /\ NoOwner \notin WorkerIds
  /\ NoClaim \notin [run : Runs, lease : Nat]

\* What is true when no two processes share a worker_id.
DistinctWorkerIds == \A v, w \in Workers : IdOf[v] = IdOf[w] => v = w

\* A process is polling, executing a handler, about to record the outcome of
\* a handler, or dead.
Outcomes == {"ok", "retryable", "terminal"}
Phases == {"idle", "running", "down"} \cup Outcomes

VARIABLES
  enqueued,  \* the runs whose run and job rows exist
  run,       \* run[r]: the row of run r in workflow_runs
  job,       \* job[r]: the row of its job in workflow_jobs
  effects,   \* the runs whose handler has committed its durable result
  retried,   \* retried[r]: command keys in the run.retried events of r
  leases,    \* leases[r]: the number of job.leased events of r
  phase,     \* phase[w]: what process w is doing
  claim      \* claim[w]: the ClaimedJob in w's memory, as the run and the
             \* number of the job.leased event that handed it out

dbVars == <<enqueued, run, job, retried, leases>>
vars == <<enqueued, run, job, effects, retried, leases, phase, claim>>

\* `due` stands for the two timestamps a claim compares with the clock:
\* available_at <= now of a queued job, lease_expires_at <= now of a leased one.
JobRecord == [status : JobStatus, attempts : 0 .. MaxAttempts,
              owner : WorkerIds \cup {NoOwner}, due : BOOLEAN, error : Errors]

Claims == [run : Runs, lease : Nat \ {0}]

TypeOK ==
  /\ enqueued \in SUBSET Runs
  /\ run \in [Runs -> RunRecord]
  /\ job \in [Runs -> JobRecord]
  /\ effects \in SUBSET Runs
  /\ retried \in [Runs -> SUBSET RetryKeys]
  /\ leases \in [Runs -> Nat]
  /\ phase \in [Workers -> Phases]
  /\ claim \in [Workers -> Claims \cup {NoClaim}]

NewRun == [status |-> "queued", error |-> NoError, finished |-> FALSE]

NewJob == [status |-> "queued", attempts |-> 0, owner |-> NoOwner,
           due |-> TRUE, error |-> NoError]

Init ==
  /\ enqueued = {}
  /\ run = [r \in Runs |-> NewRun]
  /\ job = [r \in Runs |-> NewJob]
  /\ effects = {}
  /\ retried = [r \in Runs |-> {}]
  /\ leases = [r \in Runs |-> 0]
  /\ phase = [w \in Workers |-> "idle"]
  /\ claim = [w \in Workers |-> NoClaim]

-------------------------------------------------------------------------------
(* The rules the transactions decide by.  An operator marked FAULT is not  *)
(* part of the model: it is the rule below it with a bug, put in its place *)
(* to see a property fail.                                                 *)

\* FAULT: an expired lease is never reclaimed.
ClaimableQueuedOnly(r) ==
  /\ r \in enqueued
  /\ job[r].due
  /\ job[r].status = "queued" /\ job[r].attempts < MaxAttempts

\* The WHERE clause of claim_next.
Claimable(r) ==
  /\ r \in enqueued
  /\ job[r].due
  /\ \/ job[r].status = "queued" /\ job[r].attempts < MaxAttempts
     \/ job[r].status = "leased"

\* FAULT: one attempt too many.
FinalLeaseExpiredLate(r) ==
  job[r].status = "leased" /\ job[r].attempts > MaxAttempts

\* The claimed row is a lease that expired on the last allowed attempt.
FinalLeaseExpired(r) ==
  job[r].status = "leased" /\ job[r].attempts >= MaxAttempts

\* FAULT: any process may settle a leased job.
OwnsAnyLease(w, r) == job[r].status = "leased"

\* The ownership test of _locked_job_and_run: the job must be leased, and to
\* the worker_id of the caller.  Neither the expiry of the lease nor the
\* attempt it was handed out for is looked at.
Owns(w, r) == job[r].status = "leased" /\ job[r].owner = IdOf[w]

\* FAULT: the last attempt is given up.
ShouldRetryEarly(r, failure) ==
  failure = "retryable" /\ job[r].attempts + 1 < MaxAttempts

\* fail() schedules another attempt.
ShouldRetry(r, failure) == failure = "retryable" /\ job[r].attempts < MaxAttempts

\* FAULT: replays are not recognised.
NeverReplay(r, key) == FALSE

\* A retry command whose key is in an earlier run.retried event is a replay.
IsReplay(r, key) == key \in retried[r]

\* FAULT: a run waiting for its retry is not requeued first.
RunOfClaimFromQueued(state) ==
  IF state.status = "queued" THEN Transition(state, "running", NoError) ELSE state

\* A claim moves a waiting run to queued and a queued one to running; the run
\* of an expired lease is running already and is left alone.
RunOfClaim(state) ==
  LET requeued == IF state.status = "retry_wait"
                    THEN Transition(state, "queued", NoError)
                    ELSE state
  IN  IF requeued.status = "queued"
        THEN Transition(requeued, "running", NoError)
        ELSE state

\* The job row after a claim, and after its lease is given back.
LeasedTo(w, r) ==
  [status |-> "leased", attempts |-> job[r].attempts + 1, owner |-> IdOf[w],
   due |-> FALSE, error |-> job[r].error]

ReleasedJob(r, status, error) ==
  [status |-> status, attempts |-> job[r].attempts, owner |-> NoOwner,
   due |-> FALSE, error |-> error]

-------------------------------------------------------------------------------
(* Commands of the API.                                                    *)

\* enqueue_run / enqueue: a known idempotency key returns the run it has.
Enqueue(r) ==
  /\ r \notin enqueued
  /\ enqueued' = enqueued \cup {r}
  /\ run' = [run EXCEPT ![r] = NewRun]
  /\ job' = [job EXCEPT ![r] = NewJob]
  /\ UNCHANGED <<effects, retried, leases, phase, claim>>

\* retry_run: a human requeues the failed job of a run needing attention with
\* a fresh budget of attempts.  The status is assigned, not transitioned.
RetryRun(r, key) ==
  /\ r \in enqueued
  /\ ~ IsReplay(r, key)
  /\ run[r].status = "needs_attention"
  /\ job[r].status = "failed"
  /\ job' = [job EXCEPT ![r] = NewJob]
  /\ run' = [run EXCEPT ![r] = NewRun]
  /\ retried' = [retried EXCEPT ![r] = @ \cup {key}]
  /\ UNCHANGED <<enqueued, effects, leases, phase, claim>>

-------------------------------------------------------------------------------
(* Worker.run_once.                                                        *)

\* claim_next returns a job.
ClaimLease(w, r) ==
  /\ phase[w] = "idle"
  /\ Claimable(r)
  /\ ~ FinalLeaseExpired(r)
  /\ run' = [run EXCEPT ![r] = RunOfClaim(run[r])]
  /\ job' = [job EXCEPT ![r] = LeasedTo(w, r)]
  /\ leases' = [leases EXCEPT ![r] = @ + 1]
  /\ phase' = [phase EXCEPT ![w] = "running"]
  /\ claim' = [claim EXCEPT ![w] = [run |-> r, lease |-> leases[r] + 1]]
  /\ UNCHANGED <<enqueued, effects, retried>>

\* claim_next gives up on a final lease nobody settled, and returns None.
FailExpired(w, r) ==
  /\ phase[w] = "idle"
  /\ Claimable(r)
  /\ FinalLeaseExpired(r)
  /\ CanTransition(run[r], "needs_attention")
  /\ job' = [job EXCEPT ![r] = ReleasedJob(r, "failed", "lease_expired")]
  /\ run' = [run EXCEPT ![r] = Transition(@, "needs_attention", "lease_expired")]
  /\ UNCHANGED <<enqueued, effects, retried, leases, phase, claim>>

\* The last transaction of a handler commits: save_candidates,
\* persist_capture, record_not_modified, persist_result, or persist of a
\* review.  None of them looks at the lease, so a process that outlived its
\* lease commits as well; a handler that finds its result commits nothing.
HandlerCommits(w) ==
  /\ phase[w] = "running"
  /\ effects' = effects \cup {claim[w].run}
  /\ UNCHANGED <<dbVars, phase, claim>>

\* A handler that returns without an error leaves a result that is stored: it
\* committed one, found that of an execution before it, or, for
\* knowledge.review, rests on the completed review of another run, which
\* stands here for a result of this one (agent_review_jobs.py:33-39).
HandlerReturns(w) ==
  /\ phase[w] = "running"
  /\ claim[w].run \in effects
  /\ phase' = [phase EXCEPT ![w] = "ok"]
  /\ UNCHANGED <<dbVars, effects, claim>>

\* The handler raises, before or after it has committed: a JobExecutionError
\* says whether it is retryable, any other exception is retryable except a
\* KeyError, which is taken for an unknown task type.
HandlerRaises(w) ==
  /\ phase[w] = "running"
  /\ \E failure \in {"retryable", "terminal"} : phase' = [phase EXCEPT ![w] = failure]
  /\ UNCHANGED <<dbVars, effects, claim>>

\* The process is done with its job: it polls again, or is gone.
Leaves(w, next) ==
  /\ phase' = [phase EXCEPT ![w] = next]
  /\ claim' = [claim EXCEPT ![w] = NoClaim]

\* complete(): no other job of the run can be unfinished, as there is none.
Complete(w) ==
  LET r == claim[w].run IN
  /\ phase[w] = "ok"
  /\ Owns(w, r)
  /\ CanTransition(run[r], "succeeded")
  /\ job' = [job EXCEPT ![r] = ReleasedJob(r, "completed", job[r].error)]
  /\ run' = [run EXCEPT ![r] = Transition(@, "succeeded", NoError)]
  /\ Leaves(w, "idle")
  /\ UNCHANGED <<enqueued, effects, retried, leases>>

\* fail(): another attempt after a delay of 2^attempts seconds, at most 60,
\* or a failure a human sees.
Fail(w) ==
  LET r == claim[w].run
      failure == phase[w]
      retry == ShouldRetry(r, failure)
      next == IF retry THEN "retry_wait" ELSE "needs_attention"
  IN
  /\ failure \in {"retryable", "terminal"}
  /\ Owns(w, r)
  /\ CanTransition(run[r], next)
  /\ job' = [job EXCEPT ![r] = ReleasedJob(r, IF retry THEN "queued" ELSE "failed", failure)]
  /\ run' = [run EXCEPT ![r] = Transition(@, next, failure)]
  /\ Leaves(w, "idle")
  /\ UNCHANGED <<enqueued, effects, retried, leases>>

\* complete() or fail() raises JobLeaseError; nothing in run_once or main
\* catches it, so the process exits.
LoseLease(w) ==
  /\ phase[w] \in Outcomes
  /\ ~ Owns(w, claim[w].run)
  /\ Leaves(w, "down")
  /\ UNCHANGED <<dbVars, effects>>

-------------------------------------------------------------------------------
(* The environment of the workers.                                         *)

\* A process dies while it holds a job: killed, out of memory, or its
\* database connection lost in complete() or fail().  The death of a polling
\* process changes nothing another process or the database can see.
Crash(w) ==
  /\ phase[w] \in {"running"} \cup Outcomes
  /\ Leaves(w, "down")
  /\ UNCHANGED <<dbVars, effects>>

\* The service restarts the process (restart: unless-stopped).
Restart(w) ==
  /\ phase[w] = "down"
  /\ Leaves(w, "idle")
  /\ UNCHANGED <<dbVars, effects>>

\* The clock passes available_at of a delayed job, or the expiry of a lease.
Elapse(r) ==
  /\ job[r].status \in {"queued", "leased"}
  /\ ~ job[r].due
  /\ job' = [job EXCEPT ![r].due = TRUE]
  /\ UNCHANGED <<enqueued, run, effects, retried, leases, phase, claim>>

Handle(w) == HandlerCommits(w) \/ HandlerReturns(w) \/ HandlerRaises(w)

Settle(w) == Complete(w) \/ Fail(w) \/ LoseLease(w)

Take(r) == \E w \in Workers : ClaimLease(w, r) \/ FailExpired(w, r)

Next ==
  \/ \E r \in Runs : \/ Enqueue(r)
                     \/ \E key \in RetryKeys : RetryRun(r, key)
                     \/ Take(r)
                     \/ Elapse(r)
  \/ \E w \in Workers : Handle(w) \/ Settle(w) \/ Crash(w) \/ Restart(w)

Spec == Init /\ [][Next]_vars

(***************************************************************************)
(* What the deployment keeps doing: a poll serves every due job, because   *)
(* claim_next takes the longest due one first; a handler ends, because the *)
(* HTTP client, the browser and the model gateway have timeouts; run_once  *)
(* then calls complete or fail; a dead process is restarted; and the clock *)
(* advances.  Nothing makes a process crash, a client submit a run, or a   *)
(* human retry one.                                                        *)
(***************************************************************************)
Fairness ==
  /\ \A r \in Runs : WF_vars(Take(r)) /\ WF_vars(Elapse(r))
  /\ \A w \in Workers : WF_vars(Handle(w)) /\ WF_vars(Settle(w)) /\ WF_vars(Restart(w))

FairSpec == Spec /\ Fairness

-------------------------------------------------------------------------------
(* Safety.                                                                 *)

\* The two rows of a run tell one story in every committed state, whichever
\* processes settled what: they are written by eight different assignments in
\* four transactions, and retry_run assigns the run's status past the table.
\* A queued job can always be claimed again, so no run is stuck waiting; a
\* completed one has its durable result; a failed one shows the human why.
StateOf(r) == <<job[r].status, run[r].status, run[r].finished>>

ConsistentStates ==
  {<<"queued", "queued", FALSE>>, <<"queued", "retry_wait", FALSE>>,
   <<"leased", "running", FALSE>>, <<"completed", "succeeded", TRUE>>,
   <<"failed", "needs_attention", FALSE>>}

RowsAgree(r) ==
  /\ StateOf(r) \in ConsistentStates
  /\ job[r].status = "queued" => job[r].attempts < MaxAttempts
  /\ run[r].status = "queued" <=> job[r].attempts = 0
  /\ job[r].status = "leased" <=> job[r].owner # NoOwner
  /\ job[r].status = "completed" => r \in effects
  /\ IF run[r].status \in {"retry_wait", "needs_attention"}
       THEN run[r].error = job[r].error /\ run[r].error # NoError
       ELSE run[r].error = NoError

RunMatchesJob == \A r \in Runs : RowsAgree(r)

\* A human is asked only when the machine is out of options: a transient
\* failure or an expired lease ends in needs_attention only after every
\* allowed attempt (fail, and the first branch of claim_next).
AttentionIsEarned ==
  \A r \in Runs :
    run[r].status = "needs_attention" /\ run[r].error # "terminal"
      => job[r].attempts = MaxAttempts

\* JobLeaseError is "raised when a worker no longer owns the job it tries to
\* update" (job_queue.py:21): a process whose lease expired and was handed
\* out again never passes the ownership test, so of all the processes that
\* ever held a job only the latest one can settle it.
LeaseFencing ==
  \A w \in Workers :
    claim[w] # NoClaim /\ Owns(w, claim[w].run)
      => claim[w].lease = leases[claim[w].run]

\* "Retries are bounded" (ADR-004): crashes, expiries and replayed retry
\* commands included, a run is handed to a process at most MaxAttempts times
\* for its submission and for each distinct retry command.
BoundedWork ==
  \A r \in Runs : leases[r] <= MaxAttempts * (1 + Cardinality(retried[r]))

\* A run that has succeeded, and its job, never change again and keep the
\* result: no process that outlived its lease, no expiry and no retry command
\* reopens it.
SucceededIsFinal ==
  [][\A r \in Runs :
       run[r].status = "succeeded" =>
         run'[r] = run[r] /\ job'[r] = job[r] /\ r \in effects']_vars

-------------------------------------------------------------------------------
(* Liveness.                                                               *)

\* Every submitted or retried run reaches a state a human can read, however
\* its workers crash and whatever its handler does ("becomes visible instead
\* of looping forever", test_database_queue.py:81).
EveryRunSettles ==
  \A r \in Runs : r \in enqueued ~> run[r].status \in Settled

-------------------------------------------------------------------------------
(* The queue implements the contract its clients rely on.                  *)

ContractState(r) ==
  IF r \notin enqueued THEN "absent"
  ELSE IF run[r].status \in Settled THEN run[r].status ELSE "pending"

Contract == INSTANCE RunContract
              WITH state <- [r \in Runs |-> ContractState(r)]

ImplementsContract == Contract!Spec

===============================================================================
