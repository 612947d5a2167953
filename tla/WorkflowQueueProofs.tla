-------------------------- MODULE WorkflowQueueProofs --------------------------
(***************************************************************************)
(* Proofs about WorkflowQueue, for any runs, processes, worker_ids, retry  *)
(* keys and number of attempts.                                            *)
(*                                                                         *)
(* None of the invariants is inductive alone: what the rows of a run say   *)
(* depends on what the processes that were handed its job remember.  IInv  *)
(* joins the two, and each theorem about a state reads its conclusion off  *)
(* it; the fencing of leases is inductive on top of it.                    *)
(***************************************************************************)
EXTENDS WorkflowQueue, TLAPS, FiniteSetTheorems

Busy == {"running"} \cup Outcomes

\* A process has a ClaimedJob exactly while it is busy; the job was submitted
\* and handed out by one of its job.leased events; a process about to call
\* complete() has its result in the database.
ClaimsAreReal ==
  \A w \in Workers :
    /\ phase[w] \in Busy <=> claim[w] # NoClaim
    /\ claim[w] # NoClaim => /\ claim[w].run \in enqueued
                             /\ claim[w].lease <= leases[claim[w].run]
    /\ phase[w] = "ok" => claim[w].run \in effects

\* A run that was not submitted has no rows, hence nothing to show for it.
UnsubmittedIsBlank ==
  \A r \in Runs \ enqueued : run[r] = NewRun /\ job[r] = NewJob /\ r \notin effects

\* The leases of the current round are its attempts, and each earlier round,
\* closed by a retry command, had at most MaxAttempts.
RoundsAreCounted ==
  \A r \in Runs :
    leases[r] <= MaxAttempts * Cardinality(retried[r]) + job[r].attempts

IInv ==
  /\ TypeOK
  /\ ClaimsAreReal
  /\ UnsubmittedIsBlank
  /\ RunMatchesJob
  /\ AttentionIsEarned

-------------------------------------------------------------------------------
\* NoClaim is not a claim, so the two kinds of value of claim[w] are disjoint.
LEMMA ClaimsNotNull ==
  /\ NoClaim \notin Claims
  /\ \A c \in Claims : c # NoClaim
BY QueueAssumption DEF Claims

LEMMA OwnerIsWorkerId ==
  ASSUME NEW w \in Workers
  PROVE  IdOf[w] \in WorkerIds /\ IdOf[w] # NoOwner
BY QueueAssumption DEF WorkerIds

\* The claim of a run that may be claimed always takes it to running, with no
\* error: the only statuses such a run has are queued, retry_wait and running.
LEMMA RunOfClaimRuns ==
  ASSUME NEW s \in RunRecord,
         s.status \in {"queued", "retry_wait", "running"},
         s.status = "running" => s.error = NoError
  PROVE  RunOfClaim(s) = [status |-> "running", error |-> NoError,
                          finished |-> s.finished]
<1>1. CASE s.status = "running"
  <2>1. s = [status |-> s.status, error |-> s.error, finished |-> s.finished]
    BY DEF RunRecord
  <2> QED BY <1>1, <2>1 DEF RunOfClaim
<1>2. CASE s.status = "queued"
  BY <1>2 DEF RunOfClaim, Transition, RunRecord
<1>3. CASE s.status = "retry_wait"
  BY <1>3 DEF RunOfClaim, Transition, RunRecord
<1> QED BY <1>1, <1>2, <1>3

LEMMA InitInvariant == Init => IInv
<1> SUFFICES ASSUME Init PROVE IInv
  OBVIOUS
<1>1. NoOwner \notin WorkerIds /\ MaxAttempts \in Nat \ {0}
  BY QueueAssumption
<1>2. NewRun \in RunRecord /\ NewJob \in JobRecord
  BY <1>1 DEF NewRun, NewJob, RunRecord, JobRecord, RunStatus, JobStatus, Errors, Failures
<1>3. TypeOK
  BY <1>2 DEF Init, TypeOK, Phases
<1>4. ClaimsAreReal /\ UnsubmittedIsBlank
  BY DEF Init, ClaimsAreReal, UnsubmittedIsBlank, Busy, Outcomes
<1>5. RunMatchesJob
  <2> SUFFICES ASSUME NEW r \in Runs PROVE RowsAgree(r)
    BY DEF RunMatchesJob
  <2>1. run[r] = NewRun /\ job[r] = NewJob
    BY DEF Init
  <2>2. StateOf(r) = <<"queued", "queued", FALSE>>
    BY <2>1 DEF StateOf, NewRun, NewJob
  <2> QED BY <1>1, <2>1, <2>2 DEF RowsAgree, ConsistentStates, NewRun, NewJob, NoError
<1>6. AttentionIsEarned
  BY DEF Init, AttentionIsEarned, NewRun
<1> QED BY <1>3, <1>4, <1>5, <1>6 DEF IInv

-------------------------------------------------------------------------------
(* Facts used in every step.                                               *)

\* The fields of the rows, typed.
LEMMA RowTypes ==
  ASSUME TypeOK, NEW r \in Runs
  PROVE  /\ run[r] \in RunRecord
         /\ run[r].status \in RunStatus
         /\ run[r].error \in Errors
         /\ run[r].finished \in BOOLEAN
         /\ job[r] \in JobRecord
         /\ job[r].status \in JobStatus
         /\ job[r].attempts \in Nat
         /\ job[r].attempts <= MaxAttempts
         /\ job[r].owner \in WorkerIds \cup {NoOwner}
         /\ job[r].due \in BOOLEAN
         /\ job[r].error \in Errors
         /\ MaxAttempts \in Nat \ {0}
BY QueueAssumption DEF TypeOK, RunRecord, JobRecord

\* A busy process has a claim, on a run that exists.
LEMMA BusyClaims ==
  ASSUME TypeOK, ClaimsAreReal, NEW w \in Workers, phase[w] \in Busy
  PROVE  claim[w] \in Claims /\ claim[w].run \in Runs /\ claim[w].run \in enqueued
BY DEF TypeOK, ClaimsAreReal, Claims

\* One row of each table is written: the other runs keep what they had.
LEMMA OneRunChanges ==
  ASSUME RunMatchesJob, AttentionIsEarned, TypeOK,
         NEW r \in Runs, NEW newRun, NEW newJob,
         run' = [run EXCEPT ![r] = newRun],
         job' = [job EXCEPT ![r] = newJob],
         effects' = effects,
         RowsAgree(r)',
         newRun.status = "needs_attention" /\ newRun.error # "terminal"
           => newJob.attempts = MaxAttempts
  PROVE  RunMatchesJob' /\ AttentionIsEarned'
<1>1. run'[r] = newRun /\ job'[r] = newJob
  BY DEF TypeOK
<1>2. \A s \in Runs \ {r} : run'[s] = run[s] /\ job'[s] = job[s]
  BY DEF TypeOK
<1>3. \A s \in Runs \ {r} : RowsAgree(s)'
  BY <1>2 DEF RunMatchesJob, RowsAgree, StateOf
<1>4. RunMatchesJob'
  BY <1>3 DEF RunMatchesJob
<1>5. AttentionIsEarned'
  BY <1>1, <1>2 DEF AttentionIsEarned
<1> QED BY <1>4, <1>5

-------------------------------------------------------------------------------
(* The commands of the API.                                                *)

LEMMA NewRows ==
  /\ NewRun \in RunRecord
  /\ NewJob \in JobRecord
BY QueueAssumption DEF NewRun, NewJob, RunRecord, JobRecord, RunStatus, JobStatus, Errors, Failures

LEMMA EnqueueInvariant ==
  ASSUME IInv, NEW r \in Runs, Enqueue(r)
  PROVE  IInv'
<1> USE DEF IInv
<1>1. run'[r] = NewRun /\ job'[r] = NewJob
  BY DEF Enqueue, TypeOK
<1>2. TypeOK'
  BY NewRows DEF Enqueue, TypeOK
<1>3. ClaimsAreReal'
  BY DEF Enqueue, ClaimsAreReal
<1>4. UnsubmittedIsBlank'
  <2> SUFFICES ASSUME NEW s \in Runs, s \notin enqueued'
               PROVE  run'[s] = NewRun /\ job'[s] = NewJob /\ s \notin effects'
    BY DEF UnsubmittedIsBlank
  <2>1. s # r /\ s \notin enqueued
    BY DEF Enqueue
  <2> QED BY <2>1 DEF Enqueue, UnsubmittedIsBlank, TypeOK
<1>5. RowsAgree(r)'
  BY <1>1, QueueAssumption
     DEF RowsAgree, StateOf, ConsistentStates, NewRun, NewJob, NoError
<1>6. RunMatchesJob' /\ AttentionIsEarned'
  <2>1. NewRun.status # "needs_attention"
    BY DEF NewRun
  <2>2. /\ run' = [run EXCEPT ![r] = NewRun]
        /\ job' = [job EXCEPT ![r] = NewJob]
        /\ effects' = effects
    BY DEF Enqueue
  <2> QED BY <1>5, <2>1, <2>2, OneRunChanges
<1> QED BY <1>2, <1>3, <1>4, <1>6

LEMMA RetryRunInvariant ==
  ASSUME IInv, NEW r \in Runs, NEW key \in RetryKeys, RetryRun(r, key)
  PROVE  IInv'
<1> USE DEF IInv
<1>1. run'[r] = NewRun /\ job'[r] = NewJob
  BY DEF RetryRun, TypeOK
<1>2. TypeOK'
  <2>1. retried' \in [Runs -> SUBSET RetryKeys]
    BY DEF RetryRun, TypeOK
  <2> QED BY <2>1, NewRows DEF RetryRun, TypeOK
<1>3. ClaimsAreReal'
  BY DEF RetryRun, ClaimsAreReal
<1>4. UnsubmittedIsBlank'
  BY DEF RetryRun, UnsubmittedIsBlank, TypeOK
<1>5. RowsAgree(r)'
  BY <1>1, QueueAssumption
     DEF RowsAgree, StateOf, ConsistentStates, NewRun, NewJob, NoError
<1>6. RunMatchesJob' /\ AttentionIsEarned'
  <2>1. NewRun.status # "needs_attention"
    BY DEF NewRun
  <2>2. /\ run' = [run EXCEPT ![r] = NewRun]
        /\ job' = [job EXCEPT ![r] = NewJob]
        /\ effects' = effects
    BY DEF RetryRun
  <2> QED BY <1>5, <2>1, <2>2, OneRunChanges
<1> QED BY <1>2, <1>3, <1>4, <1>6

-------------------------------------------------------------------------------
(* Claims.                                                                 *)

\* A run that may be claimed with attempts left: its job is queued, or leased
\* and not the last time; its state leads to running.
LEMMA ClaimableRun ==
  ASSUME IInv, NEW r \in Runs, Claimable(r), ~ FinalLeaseExpired(r)
  PROVE  /\ r \in enqueued
         /\ job[r].attempts < MaxAttempts
         /\ RunOfClaim(run[r]) = [status |-> "running", error |-> NoError,
                                  finished |-> FALSE]
<1> USE DEF IInv
<1>1. RowsAgree(r)
  BY DEF RunMatchesJob
<1>2. job[r].attempts \in Nat /\ MaxAttempts \in Nat /\ run[r] \in RunRecord
  BY RowTypes
<1>3. r \in enqueued /\ job[r].attempts < MaxAttempts
  BY <1>2 DEF Claimable, FinalLeaseExpired
<1>4. /\ run[r].status \in {"queued", "retry_wait", "running"}
      /\ run[r].finished = FALSE
      /\ run[r].status = "running" => run[r].error = NoError
  BY <1>1 DEF RowsAgree, StateOf, ConsistentStates, Claimable
<1> QED BY <1>2, <1>3, <1>4, RunOfClaimRuns

LEMMA ClaimLeaseInvariant ==
  ASSUME IInv, NEW w \in Workers, NEW r \in Runs, ClaimLease(w, r)
  PROVE  IInv'
<1> USE DEF IInv
<1> DEFINE state == [status |-> "running", error |-> NoError, finished |-> FALSE]
<1>1. /\ r \in enqueued
      /\ job[r].attempts < MaxAttempts
      /\ RunOfClaim(run[r]) = state
  BY ClaimableRun DEF ClaimLease
<1>2. /\ run' = [run EXCEPT ![r] = state]
      /\ job' = [job EXCEPT ![r] = LeasedTo(w, r)]
      /\ run'[r] = state
      /\ job'[r] = LeasedTo(w, r)
  BY <1>1 DEF ClaimLease, TypeOK
<1>3. IdOf[w] \in WorkerIds /\ IdOf[w] # NoOwner
  BY OwnerIsWorkerId
<1>4. /\ job[r] \in JobRecord
      /\ job[r].attempts \in Nat
      /\ MaxAttempts \in Nat
  BY RowTypes
<1>5. /\ LeasedTo(w, r).status = "leased"
      /\ LeasedTo(w, r).owner = IdOf[w]
      /\ LeasedTo(w, r).attempts = job[r].attempts + 1
      /\ LeasedTo(w, r) \in JobRecord
  BY <1>1, <1>3, <1>4 DEF LeasedTo, JobRecord, JobStatus
<1>6. state \in RunRecord
  BY DEF RunRecord, RunStatus, Errors
<1>7. /\ leases[r] \in Nat
      /\ leases' = [leases EXCEPT ![r] = leases[r] + 1]
      /\ leases' \in [Runs -> Nat]
      /\ leases'[r] = leases[r] + 1
      /\ \A s \in Runs : leases[s] <= leases'[s]
  BY DEF ClaimLease, TypeOK
<1>8. /\ claim' = [claim EXCEPT ![w] = [run |-> r, lease |-> leases[r] + 1]]
      /\ [run |-> r, lease |-> leases[r] + 1] \in Claims
  BY <1>7 DEF ClaimLease, Claims
<1>9. TypeOK'
  <2>1. run' \in [Runs -> RunRecord] /\ job' \in [Runs -> JobRecord]
    BY <1>2, <1>5, <1>6 DEF TypeOK
  <2>2. phase' \in [Workers -> Phases] /\ claim' \in [Workers -> Claims \cup {NoClaim}]
    BY <1>8 DEF ClaimLease, TypeOK, Phases
  <2> QED BY <1>7, <2>1, <2>2 DEF ClaimLease, TypeOK
<1>10. ClaimsAreReal'
  <2> SUFFICES ASSUME NEW v \in Workers
               PROVE  /\ phase'[v] \in Busy <=> claim'[v] # NoClaim
                      /\ claim'[v] # NoClaim =>
                           /\ claim'[v].run \in enqueued'
                           /\ claim'[v].lease <= leases'[claim'[v].run]
                      /\ phase'[v] = "ok" => claim'[v].run \in effects'
    BY DEF ClaimsAreReal
  <2>1. enqueued' = enqueued /\ effects' = effects
    BY DEF ClaimLease
  <2>2. CASE v = w
    <3>1. phase'[v] = "running" /\ claim'[v] = [run |-> r, lease |-> leases[r] + 1]
      BY <1>8, <2>2 DEF ClaimLease, TypeOK
    <3>2. claim'[v] # NoClaim
      BY <1>8, <3>1, ClaimsNotNull
    <3> QED BY <1>1, <1>7, <2>1, <3>1, <3>2 DEF Busy
  <2>3. CASE v # w
    <3>1. phase'[v] = phase[v] /\ claim'[v] = claim[v]
      BY <1>8, <2>3 DEF ClaimLease, TypeOK
    <3>2. ASSUME claim[v] # NoClaim
          PROVE  claim[v].run \in enqueued /\ claim[v].lease <= leases'[claim[v].run]
      <4>1. /\ claim[v].run \in Runs /\ claim[v].lease \in Nat
            /\ claim[v].run \in enqueued /\ claim[v].lease <= leases[claim[v].run]
        BY <3>2 DEF TypeOK, ClaimsAreReal, Claims
      <4>2. leases[claim[v].run] \in Nat /\ leases'[claim[v].run] \in Nat
        BY <1>7, <4>1 DEF TypeOK
      <4> QED BY <1>7, <4>1, <4>2
    <3> QED BY <2>1, <3>1, <3>2 DEF ClaimsAreReal
  <2> QED BY <2>2, <2>3
<1>11. UnsubmittedIsBlank'
  <2> SUFFICES ASSUME NEW s \in Runs, s \notin enqueued'
               PROVE  run'[s] = NewRun /\ job'[s] = NewJob /\ s \notin effects'
    BY DEF UnsubmittedIsBlank
  <2>1. enqueued' = enqueued /\ effects' = effects /\ s # r
    BY <1>1 DEF ClaimLease
  <2> QED BY <1>2, <2>1 DEF UnsubmittedIsBlank, TypeOK
<1>12. RowsAgree(r)'
  <2>1. /\ run'[r].status = "running"
        /\ run'[r].error = NoError
        /\ run'[r].finished = FALSE
    BY <1>2
  <2> HIDE DEF state
  <2>2. /\ job'[r].status = "leased"
        /\ job'[r].owner # NoOwner
        /\ job'[r].attempts # 0
    BY <1>2, <1>3, <1>4, <1>5
  <2> QED BY <2>1, <2>2 DEF RowsAgree, StateOf, ConsistentStates
<1>13. RunMatchesJob' /\ AttentionIsEarned'
  <2>1. effects' = effects
    BY DEF ClaimLease
  <2>2. state.status # "needs_attention"
    OBVIOUS
  <2> HIDE DEF state
  <2> QED BY <1>2, <1>12, <2>1, <2>2, OneRunChanges
<1> QED BY <1>9, <1>10, <1>11, <1>13

-------------------------------------------------------------------------------
(* Steps that change no row: the handler and the life of a process.        *)

\* The rows alone: what a step that writes none of them leaves true.
LEMMA RowsUntouched ==
  ASSUME IInv, UNCHANGED dbVars, effects \subseteq effects'
  PROVE  RunMatchesJob' /\ AttentionIsEarned'
<1>1. \A r \in Runs : RowsAgree(r) => RowsAgree(r)'
  BY DEF dbVars, RowsAgree, StateOf
<1>2. RunMatchesJob'
  BY <1>1 DEF IInv, RunMatchesJob
<1>3. AttentionIsEarned'
  BY DEF IInv, AttentionIsEarned, dbVars
<1> QED BY <1>2, <1>3

\* A process that leaves its job, whatever rows the step writes.
LEMMA LeavesInvariant ==
  ASSUME TypeOK, ClaimsAreReal, NEW w \in Workers, NEW next \in {"idle", "down"},
         Leaves(w, next), UNCHANGED <<enqueued, effects, leases>>
  PROVE  /\ ClaimsAreReal'
         /\ phase' \in [Workers -> Phases]
         /\ claim' \in [Workers -> Claims \cup {NoClaim}]
<1>1. /\ phase' = [phase EXCEPT ![w] = next]
      /\ claim' = [claim EXCEPT ![w] = NoClaim]
  BY DEF Leaves
<1>2. next \in Phases /\ next \notin Busy /\ next # "ok"
  BY DEF Phases, Busy, Outcomes
<1>3. phase'[w] = next /\ claim'[w] = NoClaim
  BY <1>1 DEF TypeOK
<1>4. \A v \in Workers \ {w} : phase'[v] = phase[v] /\ claim'[v] = claim[v]
  BY <1>1 DEF TypeOK
<1>5. ClaimsAreReal'
  BY <1>2, <1>3, <1>4 DEF ClaimsAreReal
<1> QED BY <1>1, <1>2, <1>5 DEF TypeOK

LEMMA HandleInvariant ==
  ASSUME IInv, NEW w \in Workers, Handle(w)
  PROVE  IInv'
<1> USE DEF IInv
<1>1. phase[w] = "running" /\ UNCHANGED <<dbVars, claim>> /\ effects \subseteq effects'
  BY DEF Handle, HandlerCommits, HandlerReturns, HandlerRaises
<1>2. claim[w] \in Claims /\ claim[w].run \in Runs /\ claim[w].run \in enqueued
  BY <1>1, BusyClaims DEF Busy
<1>3. RunMatchesJob' /\ AttentionIsEarned'
  BY <1>1, RowsUntouched
<1>4. CASE HandlerCommits(w)
  <2>1. effects' = effects \cup {claim[w].run} /\ phase' = phase
    BY <1>4 DEF HandlerCommits
  <2>2. TypeOK'
    BY <1>1, <1>2, <2>1 DEF TypeOK, dbVars
  <2>3. ClaimsAreReal'
    BY <1>1, <2>1 DEF ClaimsAreReal, dbVars
  <2>4. UnsubmittedIsBlank'
    BY <1>1, <1>2, <2>1 DEF UnsubmittedIsBlank, dbVars
  <2> QED BY <1>3, <2>2, <2>3, <2>4
<1>5. CASE HandlerReturns(w) \/ HandlerRaises(w)
  <2>1. PICK outcome \in Outcomes :
          /\ phase' = [phase EXCEPT ![w] = outcome]
          /\ outcome = "ok" => claim[w].run \in effects
    BY <1>5 DEF HandlerReturns, HandlerRaises, Outcomes
  <2>2. effects' = effects
    BY <1>5 DEF HandlerReturns, HandlerRaises
  <2>3. TypeOK'
    BY <1>1, <2>1, <2>2 DEF TypeOK, dbVars, Phases
  <2>4. phase'[w] = outcome /\ \A v \in Workers \ {w} : phase'[v] = phase[v]
    BY <2>1 DEF TypeOK
  <2>5. ClaimsAreReal'
    BY <1>1, <2>1, <2>2, <2>4 DEF ClaimsAreReal, dbVars, Busy
  <2>6. UnsubmittedIsBlank'
    BY <1>1, <2>2 DEF UnsubmittedIsBlank, dbVars
  <2> QED BY <1>3, <2>3, <2>5, <2>6
<1> QED BY <1>4, <1>5 DEF Handle

\* LoseLease, Crash and Restart.
LEMMA ProcessInvariant ==
  ASSUME IInv, NEW w \in Workers, LoseLease(w) \/ Crash(w) \/ Restart(w)
  PROVE  IInv'
<1> USE DEF IInv
<1>1. PICK next \in {"idle", "down"} : Leaves(w, next)
  BY DEF LoseLease, Crash, Restart
<1>2. UNCHANGED <<enqueued, run, job, retried, leases, effects>>
  BY DEF LoseLease, Crash, Restart, dbVars
<1>3. ClaimsAreReal' /\ phase' \in [Workers -> Phases]
                    /\ claim' \in [Workers -> Claims \cup {NoClaim}]
  BY <1>1, <1>2, LeavesInvariant
<1>4. TypeOK'
  BY <1>2, <1>3 DEF TypeOK
<1>5. UnsubmittedIsBlank'
  BY <1>2 DEF UnsubmittedIsBlank
<1>6. RunMatchesJob' /\ AttentionIsEarned'
  BY <1>2, RowsUntouched DEF dbVars
<1> QED BY <1>3, <1>4, <1>5, <1>6

LEMMA ElapseInvariant ==
  ASSUME IInv, NEW r \in Runs, Elapse(r)
  PROVE  IInv'
<1> USE DEF IInv
<1>1. UNCHANGED <<enqueued, run, effects, retried, leases, phase, claim>>
  BY DEF Elapse
<1>2. job' = [job EXCEPT ![r].due = TRUE] /\ ~ job[r].due
  BY DEF Elapse
<1>3. \A s \in Runs :
        /\ job'[s] \in JobRecord
        /\ job'[s].status = job[s].status
        /\ job'[s].attempts = job[s].attempts
        /\ job'[s].owner = job[s].owner
        /\ job'[s].error = job[s].error
        /\ s # r => job'[s] = job[s]
  BY <1>2 DEF TypeOK, JobRecord
<1>4. TypeOK'
  <2>1. job' \in [Runs -> JobRecord]
    BY <1>2, <1>3 DEF TypeOK
  <2> QED BY <1>1, <2>1 DEF TypeOK
<1>5. ClaimsAreReal'
  BY <1>1 DEF ClaimsAreReal
<1>6. UnsubmittedIsBlank'
  <2> SUFFICES ASSUME NEW s \in Runs, s \notin enqueued'
               PROVE  run'[s] = NewRun /\ job'[s] = NewJob /\ s \notin effects'
    BY DEF UnsubmittedIsBlank
  <2>1. run[s] = NewRun /\ job[s] = NewJob /\ s \notin effects
    BY <1>1 DEF UnsubmittedIsBlank
  <2>2. s # r
    BY <1>2, <2>1 DEF NewJob
  <2> QED BY <1>1, <1>3, <2>1, <2>2
<1>7. RunMatchesJob'
  BY <1>1, <1>3 DEF RunMatchesJob, RowsAgree, StateOf
<1>8. AttentionIsEarned'
  BY <1>1, <1>3 DEF AttentionIsEarned
<1> QED BY <1>4, <1>5, <1>6, <1>7, <1>8

-------------------------------------------------------------------------------
(* Settling a lease: complete, fail, and the expiry of the last attempt.   *)

\* What a settlement writes to the two rows, and the conditions under which
\* the three of them write it.
Settlements ==
  {<<"completed", "succeeded">>, <<"queued", "retry_wait">>,
   <<"failed", "needs_attention">>}

LEMMA SettledRows ==
  ASSUME IInv, NEW r \in Runs, job[r].status = "leased",
         NEW s, NEW t, <<s, t>> \in Settlements,
         NEW jobError \in Errors, NEW runError \in Errors,
         job' = [job EXCEPT ![r] = ReleasedJob(r, s, jobError)],
         run' = [run EXCEPT ![r] = Transition(@, t, runError)],
         UNCHANGED <<enqueued, effects, retried, leases>>,
         s = "completed" => r \in effects /\ runError = NoError,
         s # "completed" => runError = jobError /\ runError # NoError,
         s = "queued" => job[r].attempts < MaxAttempts,
         s = "failed" => runError = "terminal" \/ job[r].attempts = MaxAttempts
  PROVE  /\ run' \in [Runs -> RunRecord]
         /\ job' \in [Runs -> JobRecord]
         /\ UnsubmittedIsBlank'
         /\ RunMatchesJob'
         /\ AttentionIsEarned'
<1> USE DEF IInv
<1>1. /\ run[r].status = "running"
      /\ run[r].finished = FALSE
      /\ job[r].attempts # 0
      /\ job[r].attempts \in 0 .. MaxAttempts
  <2>1. RowsAgree(r)
    BY DEF RunMatchesJob
  <2>2. job[r].attempts \in 0 .. MaxAttempts
    BY DEF TypeOK, JobRecord
  <2> QED BY <2>1, <2>2 DEF RowsAgree, StateOf, ConsistentStates
<1> DEFINE newRun == Transition(run[r], t, runError)
           newJob == ReleasedJob(r, s, jobError)
<1>2. /\ newJob = [status |-> s, attempts |-> job[r].attempts, owner |-> NoOwner,
                   due |-> FALSE, error |-> jobError]
      /\ newRun = [status |-> t, error |-> runError, finished |-> t = "succeeded"]
  BY <1>1 DEF Transition, ReleasedJob, Settlements
<1>3. /\ run' = [run EXCEPT ![r] = newRun]
      /\ job' = [job EXCEPT ![r] = newJob]
      /\ run'[r] = newRun
      /\ job'[r] = newJob
  BY DEF TypeOK
<1>4. newRun \in RunRecord /\ newJob \in JobRecord
  BY <1>1, <1>2 DEF RunRecord, JobRecord, RunStatus, JobStatus, Settlements
<1>5. UnsubmittedIsBlank'
  <2> SUFFICES ASSUME NEW q \in Runs, q \notin enqueued'
               PROVE  run'[q] = NewRun /\ job'[q] = NewJob /\ q \notin effects'
    BY DEF UnsubmittedIsBlank
  <2>1. run[q] = NewRun /\ job[q] = NewJob /\ q \notin effects
    BY DEF UnsubmittedIsBlank
  <2>2. q # r
    BY <2>1 DEF NewJob
  <2> QED BY <2>1, <2>2, <1>3 DEF TypeOK
<1>6. RowsAgree(r)'
  <2>1. /\ run'[r].status = t
        /\ run'[r].error = runError
        /\ run'[r].finished = (t = "succeeded")
        /\ job'[r].status = s
        /\ job'[r].attempts = job[r].attempts
        /\ job'[r].owner = NoOwner
        /\ job'[r].error = jobError
    BY <1>2, <1>3
  <2> HIDE DEF newRun, newJob
  <2>2. \/ s = "completed" /\ t = "succeeded"
        \/ s = "queued" /\ t = "retry_wait"
        \/ s = "failed" /\ t = "needs_attention"
    BY DEF Settlements
  <2> QED BY <1>1, <2>1, <2>2 DEF RowsAgree, StateOf, ConsistentStates
<1>7. newRun.status = "needs_attention" /\ newRun.error # "terminal"
        => newJob.attempts = MaxAttempts
  BY <1>2 DEF Settlements
<1>8. RunMatchesJob' /\ AttentionIsEarned'
  BY <1>3, <1>6, <1>7, OneRunChanges
<1>9. run' \in [Runs -> RunRecord] /\ job' \in [Runs -> JobRecord]
  BY <1>3, <1>4 DEF TypeOK
<1> QED BY <1>5, <1>8, <1>9

LEMMA FailExpiredInvariant ==
  ASSUME IInv, NEW w \in Workers, NEW r \in Runs, FailExpired(w, r)
  PROVE  IInv'
<1> USE DEF IInv
<1>1. job[r].status = "leased" /\ job[r].attempts >= MaxAttempts
  BY DEF FailExpired, FinalLeaseExpired
<1>2. job[r].attempts = MaxAttempts
  BY <1>1, RowTypes
<1>3. "lease_expired" \in Errors /\ "lease_expired" # NoError
  BY DEF Errors, Failures, NoError
<1>4. /\ run' \in [Runs -> RunRecord]
      /\ job' \in [Runs -> JobRecord]
      /\ UnsubmittedIsBlank'
      /\ RunMatchesJob'
      /\ AttentionIsEarned'
  <2>1. <<"failed", "needs_attention">> \in Settlements
    BY DEF Settlements
  <2>2. /\ job' = [job EXCEPT ![r] = ReleasedJob(r, "failed", "lease_expired")]
        /\ run' = [run EXCEPT ![r] = Transition(@, "needs_attention", "lease_expired")]
        /\ UNCHANGED <<enqueued, effects, retried, leases>>
    BY DEF FailExpired
  <2> QED BY <1>1, <1>2, <1>3, <2>1, <2>2, SettledRows
<1>5. TypeOK'
  BY <1>4 DEF FailExpired, TypeOK
<1>6. ClaimsAreReal'
  BY DEF FailExpired, ClaimsAreReal
<1> QED BY <1>4, <1>5, <1>6

LEMMA CompleteInvariant ==
  ASSUME IInv, NEW w \in Workers, Complete(w)
  PROVE  IInv'
<1> USE DEF IInv
<1> DEFINE r == claim[w].run
<1>1. phase[w] = "ok" /\ phase[w] \in Busy
  BY DEF Complete, Busy, Outcomes
<1>2. r \in Runs /\ r \in effects
  BY <1>1, BusyClaims DEF ClaimsAreReal
<1>3. job[r].status = "leased"
  BY DEF Complete, Owns
<1>4. job[r].error \in Errors /\ NoError \in Errors
  BY <1>2, RowTypes DEF Errors
<1>5. /\ job' = [job EXCEPT ![r] = ReleasedJob(r, "completed", job[r].error)]
      /\ run' = [run EXCEPT ![r] = Transition(@, "succeeded", NoError)]
      /\ Leaves(w, "idle")
      /\ UNCHANGED <<enqueued, effects, retried, leases>>
  BY DEF Complete
<1> HIDE DEF r
<1>6. /\ run' \in [Runs -> RunRecord]
      /\ job' \in [Runs -> JobRecord]
      /\ UnsubmittedIsBlank'
      /\ RunMatchesJob'
      /\ AttentionIsEarned'
  <2>1. <<"completed", "succeeded">> \in Settlements
    BY DEF Settlements
  <2> QED BY <1>2, <1>3, <1>4, <1>5, <2>1, SettledRows
<1>7. ClaimsAreReal' /\ phase' \in [Workers -> Phases]
                    /\ claim' \in [Workers -> Claims \cup {NoClaim}]
  BY <1>5, LeavesInvariant
<1>8. TypeOK'
  BY <1>5, <1>6, <1>7 DEF TypeOK
<1> QED BY <1>6, <1>7, <1>8

LEMMA FailInvariant ==
  ASSUME IInv, NEW w \in Workers, Fail(w)
  PROVE  IInv'
<1> USE DEF IInv
<1> DEFINE r == claim[w].run
           failure == phase[w]
           retry == ShouldRetry(r, failure)
           s == IF retry THEN "queued" ELSE "failed"
           t == IF retry THEN "retry_wait" ELSE "needs_attention"
<1>1. failure \in {"retryable", "terminal"} /\ phase[w] \in Busy
  BY DEF Fail, Busy, Outcomes
<1>2. r \in Runs
  BY <1>1, BusyClaims
<1>3. job[r].status = "leased"
  BY DEF Fail, Owns
<1>4. failure \in Errors /\ failure # NoError
  BY <1>1 DEF Errors, Failures, NoError
<1>5. <<s, t>> \in Settlements /\ s # "completed"
  BY DEF Settlements
<1>6. /\ s = "queued" => job[r].attempts < MaxAttempts
      /\ s = "failed" => failure = "terminal" \/ job[r].attempts = MaxAttempts
  <2>1. job[r].attempts \in Nat /\ job[r].attempts <= MaxAttempts /\ MaxAttempts \in Nat
    BY <1>2, RowTypes
  <2> QED BY <1>1, <2>1 DEF ShouldRetry
<1>7. /\ job' = [job EXCEPT ![r] = ReleasedJob(r, s, failure)]
      /\ run' = [run EXCEPT ![r] = Transition(@, t, failure)]
      /\ Leaves(w, "idle")
      /\ UNCHANGED <<enqueued, effects, retried, leases>>
  BY DEF Fail
<1> HIDE DEF r, failure, s, t
<1>8. /\ run' \in [Runs -> RunRecord]
      /\ job' \in [Runs -> JobRecord]
      /\ UnsubmittedIsBlank'
      /\ RunMatchesJob'
      /\ AttentionIsEarned'
  BY <1>2, <1>3, <1>4, <1>5, <1>6, <1>7, SettledRows
<1>9. ClaimsAreReal' /\ phase' \in [Workers -> Phases]
                    /\ claim' \in [Workers -> Claims \cup {NoClaim}]
  BY <1>7, LeavesInvariant
<1>10. TypeOK'
  BY <1>7, <1>8, <1>9 DEF TypeOK
<1> QED BY <1>8, <1>9, <1>10

-------------------------------------------------------------------------------
(* The invariants.                                                         *)

LEMMA NextInvariant == IInv /\ [Next]_vars => IInv'
<1> SUFFICES ASSUME IInv, [Next]_vars PROVE IInv'
  OBVIOUS
<1>1. ASSUME NEW r \in Runs, Enqueue(r) PROVE IInv'
  BY <1>1, EnqueueInvariant
<1>2. ASSUME NEW r \in Runs, NEW key \in RetryKeys, RetryRun(r, key) PROVE IInv'
  BY <1>2, RetryRunInvariant
<1>3. ASSUME NEW r \in Runs, Take(r) PROVE IInv'
  BY <1>3, ClaimLeaseInvariant, FailExpiredInvariant DEF Take
<1>4. ASSUME NEW r \in Runs, Elapse(r) PROVE IInv'
  BY <1>4, ElapseInvariant
<1>5. ASSUME NEW w \in Workers, Handle(w) PROVE IInv'
  BY <1>5, HandleInvariant
<1>6. ASSUME NEW w \in Workers, Settle(w) PROVE IInv'
  BY <1>6, CompleteInvariant, FailInvariant, ProcessInvariant DEF Settle
<1>7. ASSUME NEW w \in Workers, Crash(w) \/ Restart(w) PROVE IInv'
  BY <1>7, ProcessInvariant
<1>8. CASE UNCHANGED vars
  <2> USE <1>8 DEF vars, IInv
  <2>1. TypeOK'
    BY DEF TypeOK
  <2>2. ClaimsAreReal' /\ UnsubmittedIsBlank'
    BY DEF ClaimsAreReal, UnsubmittedIsBlank
  <2>3. RunMatchesJob' /\ AttentionIsEarned'
    BY DEF RunMatchesJob, RowsAgree, StateOf, AttentionIsEarned
  <2> QED BY <2>1, <2>2, <2>3
<1> QED BY <1>1, <1>2, <1>3, <1>4, <1>5, <1>6, <1>7, <1>8 DEF Next

THEOREM QueueInvariant == Spec => []IInv
BY InitInvariant, NextInvariant, PTL DEF Spec

\* Every row and every process stays within its type; in particular attempts
\* never passes max_attempts, which no constraint of the table enforces.
THEOREM TypeCorrect == Spec => []TypeOK
<1>1. IInv => TypeOK
  BY DEF IInv
<1> QED BY <1>1, QueueInvariant, PTL

\* The run row and the job row agree in every committed state
\* (claim_next, complete, fail and retry_run write them together).
THEOREM RowsAlwaysAgree == Spec => []RunMatchesJob
<1>1. IInv => RunMatchesJob
  BY DEF IInv
<1> QED BY <1>1, QueueInvariant, PTL

\* A transient failure or an expired lease reaches a human only after the last
\* allowed attempt (fail, and the first branch of claim_next).
THEOREM AttentionAlwaysEarned == Spec => []AttentionIsEarned
<1>1. IInv => AttentionIsEarned
  BY DEF IInv
<1> QED BY <1>1, QueueInvariant, PTL

\* Whenever a process settles a lease it owns, the run is in a status from
\* which the table allows the transition: RunTransitionError is never raised
\* out of complete(), fail() or claim_next().
THEOREM TransitionsNeverRefused ==
  Spec => [](\A r \in Runs : job[r].status = "leased" =>
               \A target \in {"succeeded", "retry_wait", "needs_attention"} :
                 CanTransition(run[r], target))
<1>1. ASSUME IInv, NEW r \in Runs, job[r].status = "leased",
             NEW target \in {"succeeded", "retry_wait", "needs_attention"}
      PROVE  CanTransition(run[r], target)
  <2>1. run[r].status = "running"
    BY <1>1 DEF IInv, RunMatchesJob, RowsAgree, StateOf, ConsistentStates
  <2> QED BY <2>1 DEF CanTransition, AllowedRunTransitions
<1>2. IInv => \A r \in Runs : job[r].status = "leased" =>
                \A target \in {"succeeded", "retry_wait", "needs_attention"} :
                  CanTransition(run[r], target)
  BY <1>1
<1> QED BY <1>2, QueueInvariant, PTL

-------------------------------------------------------------------------------
(* Fencing: the only place where worker_ids must be distinct.              *)

LEMMA FencingStep ==
  ASSUME DistinctWorkerIds, IInv, LeaseFencing, [Next]_vars
  PROVE  LeaseFencing'
<1> USE DEF IInv
<1> SUFFICES ASSUME NEW v \in Workers, claim'[v] # NoClaim, Owns(v, claim[v].run)'
             PROVE  claim'[v].lease = leases'[claim'[v].run]
  BY DEF LeaseFencing
<1> DEFINE q == claim'[v].run
<1>1. ASSUME NEW w \in Workers, NEW r \in Runs, ClaimLease(w, r)
      PROVE  claim'[v].lease = leases'[q]
  <2>1. /\ claim' = [claim EXCEPT ![w] = [run |-> r, lease |-> leases[r] + 1]]
        /\ leases' = [leases EXCEPT ![r] = leases[r] + 1]
        /\ job' = [job EXCEPT ![r] = LeasedTo(w, r)]
    BY <1>1 DEF ClaimLease
  <2>2. CASE v = w
    BY <2>1, <2>2 DEF TypeOK
  <2>3. CASE v # w
    <3>1. claim'[v] = claim[v]
      BY <2>1, <2>3 DEF TypeOK
    <3>2. q \in Runs
      BY <3>1 DEF TypeOK, Claims
    <3>3. q # r
      <4>1. IdOf[v] # IdOf[w]
        BY <2>3 DEF DistinctWorkerIds
      <4>2. job'[r].owner = IdOf[w]
        BY <2>1 DEF TypeOK, LeasedTo
      <4> QED BY <4>1, <4>2 DEF Owns
    <3>4. job'[q] = job[q] /\ leases'[q] = leases[q]
      BY <2>1, <3>2, <3>3 DEF TypeOK
    <3> QED BY <3>1, <3>4 DEF LeaseFencing, Owns
  <2> QED BY <2>2, <2>3
<1>2. ASSUME leases' = leases,
             claim'[v] = claim[v],
             \A r \in Runs : job'[r].status = "leased" =>
                              job[r].status = "leased" /\ job[r].owner = job'[r].owner
      PROVE  claim'[v].lease = leases'[q]
  <2>1. q \in Runs
    BY <1>2 DEF TypeOK, Claims
  <2>2. Owns(v, q)
    BY <1>2, <2>1 DEF Owns
  <2> QED BY <1>2, <2>2 DEF LeaseFencing
<1>3. ASSUME NEW r \in Runs, NEW newJob,
             job' = [job EXCEPT ![r] = newJob],
             newJob.status = "leased" => /\ job[r].status = "leased"
                                         /\ job[r].owner = newJob.owner,
             leases' = leases,
             claim' = claim
      PROVE  claim'[v].lease = leases'[q]
  <2>1. \A s \in Runs : job'[s].status = "leased" =>
                          job[s].status = "leased" /\ job[s].owner = job'[s].owner
    BY <1>3 DEF TypeOK
  <2> QED BY <1>2, <1>3, <2>1
<1>4. ASSUME NEW r \in Runs, Enqueue(r)
      PROVE  claim'[v].lease = leases'[q]
  BY <1>3, <1>4 DEF Enqueue, NewJob
<1>5. ASSUME NEW r \in Runs, NEW key \in RetryKeys, RetryRun(r, key)
       PROVE  claim'[v].lease = leases'[q]
  BY <1>3, <1>5 DEF RetryRun, NewJob
<1>6. ASSUME NEW r \in Runs, NEW w \in Workers, FailExpired(w, r)
       PROVE  claim'[v].lease = leases'[q]
  <2>1. ReleasedJob(r, "failed", "lease_expired").status # "leased"
    BY DEF ReleasedJob
  <2> QED BY <1>3, <1>6, <2>1 DEF FailExpired
<1>7. ASSUME NEW r \in Runs, Elapse(r)
       PROVE  claim'[v].lease = leases'[q]
  <2>1. /\ job' = [job EXCEPT ![r] = [job[r] EXCEPT !.due = TRUE]]
        /\ leases' = leases
        /\ claim' = claim
    BY <1>7 DEF Elapse
  <2>2. job[r] \in JobRecord
    BY RowTypes
  <2>3. /\ [job[r] EXCEPT !.due = TRUE].status = job[r].status
        /\ [job[r] EXCEPT !.due = TRUE].owner = job[r].owner
    BY <2>2 DEF JobRecord
  <2> QED BY <1>3, <2>1, <2>3
<1>8. ASSUME NEW w \in Workers, Handle(w)
      PROVE  claim'[v].lease = leases'[q]
  BY <1>2, <1>8 DEF Handle, HandlerCommits, HandlerReturns, HandlerRaises, dbVars
<1>9. ASSUME NEW w \in Workers, Settle(w) \/ Crash(w) \/ Restart(w)
      PROVE  claim'[v].lease = leases'[q]
  <2>1. leases' = leases /\ claim' = [claim EXCEPT ![w] = NoClaim]
    BY <1>9 DEF Settle, Complete, Fail, LoseLease, Crash, Restart, Leaves, dbVars
  <2>2. claim'[v] = claim[v]
    BY <2>1 DEF TypeOK
  <2>3. CASE Complete(w) \/ Fail(w)
    <3>1. PICK r, s, e : /\ s # "leased"
                         /\ job' = [job EXCEPT ![r] = ReleasedJob(r, s, e)]
      <4>1. CASE Complete(w)
        BY <4>1 DEF Complete
      <4>2. CASE Fail(w)
        <5> DEFINE s == IF ShouldRetry(claim[w].run, phase[w]) THEN "queued" ELSE "failed"
        <5>1. job' = [job EXCEPT ![claim[w].run] = ReleasedJob(claim[w].run, s, phase[w])]
          BY <4>2 DEF Fail
        <5>2. s # "leased"
          OBVIOUS
        <5> QED BY <5>1, <5>2
      <4> QED BY <2>3, <4>1, <4>2
    <3>2. \A x \in Runs : job'[x].status = "leased" => job'[x] = job[x]
      BY <3>1 DEF TypeOK, ReleasedJob
    <3> QED BY <1>2, <2>1, <2>2, <3>2
  <2>4. CASE LoseLease(w) \/ Crash(w) \/ Restart(w)
    BY <1>2, <2>1, <2>2, <2>4 DEF LoseLease, Crash, Restart, dbVars
  <2> QED BY <1>9, <2>3, <2>4 DEF Settle
<1>10. CASE UNCHANGED vars
  BY <1>2, <1>10 DEF vars
<1>11. ASSUME NEW r \in Runs, Take(r)
      PROVE  claim'[v].lease = leases'[q]
  BY <1>1, <1>11, <1>6 DEF Take
<1> QED BY <1>8, <1>9, <1>10, <1>11, <1>4, <1>5, <1>7 DEF Next

\* With one worker_id per process, a process that outlived its lease is never
\* taken for its holder by _locked_job_and_run: JobLeaseError is raised.
THEOREM OnlyHolderSettles == DistinctWorkerIds /\ Spec => []LeaseFencing
<1> SUFFICES ASSUME DistinctWorkerIds PROVE Spec => []LeaseFencing
  OBVIOUS
<1>1. Init => LeaseFencing
  BY DEF Init, LeaseFencing
<1>2. IInv /\ LeaseFencing /\ [Next]_vars => LeaseFencing'
  BY FencingStep
<1> QED BY <1>1, <1>2, QueueInvariant, PTL DEF Spec

-------------------------------------------------------------------------------
(* Bounded work.                                                           *)

LEMMA RetriedFinite ==
  ASSUME TypeOK, NEW r \in Runs
  PROVE  IsFiniteSet(retried[r]) /\ Cardinality(retried[r]) \in Nat
<1>1. retried[r] \in SUBSET RetryKeys
  BY DEF TypeOK
<1> QED BY <1>1, QueueAssumption, FS_Subset, FS_CardinalityType

LEMMA RoundsStep ==
  ASSUME IInv, RoundsAreCounted, [Next]_vars
  PROVE  RoundsAreCounted'
<1> USE DEF IInv
<1> SUFFICES ASSUME NEW r \in Runs
             PROVE  leases'[r] <= MaxAttempts * Cardinality(retried'[r]) + job'[r].attempts
  BY DEF RoundsAreCounted
<1> DEFINE Rounds == Cardinality(retried[r])
<1>1. /\ leases[r] \in Nat
      /\ MaxAttempts \in Nat
      /\ Rounds \in Nat
      /\ job[r].attempts \in Nat
      /\ job[r].attempts <= MaxAttempts
      /\ leases[r] <= MaxAttempts * Rounds + job[r].attempts
  BY RowTypes, RetriedFinite DEF TypeOK, RoundsAreCounted
<1>2. ASSUME leases'[r] = leases[r], retried'[r] = retried[r],
             job'[r].attempts = job[r].attempts
      PROVE  leases'[r] <= MaxAttempts * Cardinality(retried'[r]) + job'[r].attempts
  BY <1>1, <1>2
<1>3. ASSUME NEW s \in Runs, Enqueue(s)
      PROVE  leases'[r] <= MaxAttempts * Cardinality(retried'[r]) + job'[r].attempts
  <2>1. leases' = leases /\ retried' = retried /\ job' = [job EXCEPT ![s] = NewJob]
    BY <1>3 DEF Enqueue
  <2>2. job[s] = NewJob
    BY <1>3 DEF Enqueue, UnsubmittedIsBlank
  <2> QED BY <1>2, <2>1, <2>2 DEF TypeOK
<1>4. ASSUME NEW s \in Runs, NEW key \in RetryKeys, RetryRun(s, key)
      PROVE  leases'[r] <= MaxAttempts * Cardinality(retried'[r]) + job'[r].attempts
  <2>1. /\ leases' = leases
        /\ retried' = [retried EXCEPT ![s] = @ \cup {key}]
        /\ job' = [job EXCEPT ![s] = NewJob]
        /\ key \notin retried[s]
    BY <1>4 DEF RetryRun, IsReplay
  <2>2. CASE s = r
    <3>1. retried'[r] = retried[r] \cup {key} /\ job'[r].attempts = 0
      BY <2>1, <2>2 DEF TypeOK, NewJob
    <3>2. Cardinality(retried'[r]) = Rounds + 1
      BY <2>1, <2>2, <3>1, RetriedFinite, FS_AddElement
    <3>3. MaxAttempts * (Rounds + 1) = MaxAttempts * Rounds + MaxAttempts
      BY <1>1
    <3> HIDE DEF Rounds
    <3>4. MaxAttempts * Rounds \in Nat
      BY <1>1
    <3>5. leases[r] <= MaxAttempts * (Rounds + 1)
      BY <1>1, <3>3, <3>4
    <3> QED BY <1>1, <2>1, <3>1, <3>2, <3>5
  <2>3. CASE s # r
    BY <1>2, <2>1, <2>3 DEF TypeOK
  <2> QED BY <2>2, <2>3
<1>5. ASSUME NEW s \in Runs, NEW w \in Workers, ClaimLease(w, s)
      PROVE  leases'[r] <= MaxAttempts * Cardinality(retried'[r]) + job'[r].attempts
  <2>1. /\ leases' = [leases EXCEPT ![s] = @ + 1]
        /\ retried' = retried
        /\ job' = [job EXCEPT ![s] = LeasedTo(w, s)]
    BY <1>5 DEF ClaimLease
  <2>2. CASE s = r
    <3>1. leases'[r] = leases[r] + 1 /\ job'[r].attempts = job[r].attempts + 1
      BY <2>1, <2>2 DEF TypeOK, LeasedTo
    <3> HIDE DEF Rounds
    <3>2. MaxAttempts * Rounds \in Nat
      BY <1>1
    <3>3. leases'[r] <= MaxAttempts * Rounds + job'[r].attempts
      BY <1>1, <3>1, <3>2
    <3> QED BY <2>1, <3>3 DEF Rounds
  <2>3. CASE s # r
    BY <1>2, <2>1, <2>3 DEF TypeOK
  <2> QED BY <2>2, <2>3
<1>6. ASSUME NEW s \in Runs, NEW status, NEW error,
             job' = [job EXCEPT ![s] = ReleasedJob(s, status, error)],
             leases' = leases, retried' = retried
      PROVE  leases'[r] <= MaxAttempts * Cardinality(retried'[r]) + job'[r].attempts
  <2>1. job'[r].attempts = job[r].attempts
    BY <1>6 DEF TypeOK, ReleasedJob
  <2> QED BY <1>2, <1>6, <2>1
<1>7. ASSUME NEW s \in Runs, NEW w \in Workers, FailExpired(w, s)
      PROVE  leases'[r] <= MaxAttempts * Cardinality(retried'[r]) + job'[r].attempts
  BY <1>6, <1>7 DEF FailExpired
<1>8. ASSUME NEW s \in Runs, Elapse(s)
      PROVE  leases'[r] <= MaxAttempts * Cardinality(retried'[r]) + job'[r].attempts
  <2>1. leases' = leases /\ retried' = retried /\ job' = [job EXCEPT ![s].due = TRUE]
    BY <1>8 DEF Elapse
  <2>2. job'[r].attempts = job[r].attempts
    BY <2>1 DEF TypeOK, JobRecord
  <2> QED BY <1>2, <2>1, <2>2
<1>9. ASSUME NEW w \in Workers, Complete(w)
      PROVE  leases'[r] <= MaxAttempts * Cardinality(retried'[r]) + job'[r].attempts
  <2>1. claim[w].run \in Runs
    BY <1>9, BusyClaims DEF Complete, Busy, Outcomes
  <2> QED BY <1>6, <1>9, <2>1 DEF Complete
<1>10. ASSUME NEW w \in Workers, Fail(w)
       PROVE  leases'[r] <= MaxAttempts * Cardinality(retried'[r]) + job'[r].attempts
  <2>1. claim[w].run \in Runs
    BY <1>10, BusyClaims DEF Fail, Busy, Outcomes
  <2> QED BY <1>6, <1>10, <2>1 DEF Fail
<1>11. ASSUME NEW w \in Workers,
              Handle(w) \/ LoseLease(w) \/ Crash(w) \/ Restart(w)
       PROVE  leases'[r] <= MaxAttempts * Cardinality(retried'[r]) + job'[r].attempts
  BY <1>2, <1>11 DEF Handle, HandlerCommits, HandlerReturns, HandlerRaises,
                     LoseLease, Crash, Restart, dbVars
<1>12. CASE UNCHANGED vars
  BY <1>2, <1>12 DEF vars
<1> QED BY <1>3, <1>4, <1>5, <1>7, <1>8, <1>9, <1>10, <1>11, <1>12
        DEF Next, Take, Settle

\* However its workers crash and its leases expire, a run is handed out at
\* most max_attempts times per submission or distinct retry command.
THEOREM WorkIsBounded == Spec => []BoundedWork
<1>1. Init => RoundsAreCounted
  <2> SUFFICES ASSUME Init, NEW r \in Runs
               PROVE  leases[r] <= MaxAttempts * Cardinality(retried[r]) + job[r].attempts
    BY DEF RoundsAreCounted
  <2>1. leases[r] = 0 /\ retried[r] = {} /\ job[r].attempts = 0
    BY DEF Init, NewJob
  <2> QED BY <2>1, QueueAssumption, FS_EmptySet
<1>2. IInv /\ RoundsAreCounted /\ [Next]_vars => RoundsAreCounted'
  BY RoundsStep
<1>3. IInv /\ RoundsAreCounted => BoundedWork
  <2> SUFFICES ASSUME IInv, RoundsAreCounted, NEW r \in Runs
               PROVE  leases[r] <= MaxAttempts * (1 + Cardinality(retried[r]))
    BY DEF BoundedWork
  <2> DEFINE Rounds == Cardinality(retried[r])
  <2>1. /\ leases[r] \in Nat
        /\ MaxAttempts \in Nat
        /\ Rounds \in Nat
        /\ job[r].attempts \in Nat
        /\ job[r].attempts <= MaxAttempts
        /\ leases[r] <= MaxAttempts * Rounds + job[r].attempts
    BY RowTypes, RetriedFinite DEF IInv, TypeOK, RoundsAreCounted
  <2> HIDE DEF Rounds
  <2>2. /\ MaxAttempts * (1 + Rounds) = MaxAttempts * Rounds + MaxAttempts
        /\ MaxAttempts * Rounds \in Nat
    BY <2>1
  <2>3. leases[r] <= MaxAttempts * (1 + Rounds)
    BY <2>1, <2>2
  <2> QED BY <2>3 DEF Rounds
<1> QED BY <1>1, <1>2, <1>3, QueueInvariant, PTL DEF Spec

-------------------------------------------------------------------------------
(* Finality of success.                                                    *)

LEMMA FinalStep ==
  ASSUME IInv, [Next]_vars, NEW r \in Runs, run[r].status = "succeeded"
  PROVE  run'[r] = run[r] /\ job'[r] = job[r] /\ r \in effects'
<1> USE DEF IInv
<1>1. /\ r \in effects
      /\ job[r].status = "completed"
      /\ r \in enqueued
  <2>1. RowsAgree(r)
    BY DEF RunMatchesJob
  <2>2. r \in enqueued
    BY DEF UnsubmittedIsBlank, NewRun
  <2> QED BY <2>1, <2>2 DEF RowsAgree, StateOf, ConsistentStates
<1>2. ASSUME NEW s \in Runs, s # r, NEW newRun, NEW newJob,
             run' = [run EXCEPT ![s] = newRun], job' = [job EXCEPT ![s] = newJob],
             effects' = effects
      PROVE  run'[r] = run[r] /\ job'[r] = job[r] /\ r \in effects'
  BY <1>1, <1>2 DEF TypeOK
<1>3. ASSUME NEW s \in Runs, Enqueue(s) \/ \E key \in RetryKeys : RetryRun(s, key)
      PROVE  run'[r] = run[r] /\ job'[r] = job[r] /\ r \in effects'
  BY <1>1, <1>2, <1>3 DEF Enqueue, RetryRun
<1>4. ASSUME NEW s \in Runs, NEW w \in Workers, ClaimLease(w, s) \/ FailExpired(w, s)
      PROVE  run'[r] = run[r] /\ job'[r] = job[r] /\ r \in effects'
  BY <1>1, <1>2, <1>4 DEF ClaimLease, FailExpired, Claimable
<1>5. ASSUME NEW s \in Runs, Elapse(s)
      PROVE  run'[r] = run[r] /\ job'[r] = job[r] /\ r \in effects'
  BY <1>1, <1>5 DEF Elapse, TypeOK
<1>6. ASSUME NEW w \in Workers, Complete(w)
      PROVE  run'[r] = run[r] /\ job'[r] = job[r] /\ r \in effects'
  <2>1. claim[w].run \in Runs
    BY <1>6, BusyClaims DEF Complete, Busy, Outcomes
  <2> QED BY <1>1, <1>2, <1>6, <2>1 DEF Complete, Owns
<1>7. ASSUME NEW w \in Workers, Fail(w)
      PROVE  run'[r] = run[r] /\ job'[r] = job[r] /\ r \in effects'
  <2>1. claim[w].run \in Runs
    BY <1>7, BusyClaims DEF Fail, Busy, Outcomes
  <2> QED BY <1>1, <1>2, <1>7, <2>1 DEF Fail, Owns
<1>8. ASSUME NEW w \in Workers,
             Handle(w) \/ LoseLease(w) \/ Crash(w) \/ Restart(w)
      PROVE  run'[r] = run[r] /\ job'[r] = job[r] /\ r \in effects'
  BY <1>1, <1>8 DEF Handle, HandlerCommits, HandlerReturns, HandlerRaises,
                    LoseLease, Crash, Restart, dbVars
<1>9. CASE UNCHANGED vars
  BY <1>1, <1>9 DEF vars
<1> QED BY <1>3, <1>4, <1>5, <1>6, <1>7, <1>8, <1>9 DEF Next, Take, Settle

\* A succeeded run and its job never change again, and its result stays.
THEOREM SuccessIsFinal == Spec => SucceededIsFinal
<1>1. IInv /\ [Next]_vars =>
        [\A r \in Runs :
           run[r].status = "succeeded" =>
             run'[r] = run[r] /\ job'[r] = job[r] /\ r \in effects']_vars
  BY FinalStep
<1> QED BY <1>1, QueueInvariant, PTL DEF Spec, SucceededIsFinal

-------------------------------------------------------------------------------
(* The queue implements its contract (the safety part; TLC checks the      *)
(* liveness part).                                                         *)

Shown == [r \in Runs |-> ContractState(r)]

\* One run's row changes: only what its clients are shown of it may change.
LEMMA ShownStep ==
  ASSUME TypeOK, NEW r \in Runs, NEW newRun, NEW status,
         run' = [run EXCEPT ![r] = newRun],
         newRun.status = status,
         r \in enqueued', enqueued' \ {r} = enqueued \ {r}
  PROVE  Shown' = [Shown EXCEPT ![r] = IF status \in Settled THEN status ELSE "pending"]
<1>1. run'[r] = newRun /\ \A s \in Runs \ {r} : run'[s] = run[s]
  BY DEF TypeOK
<1>2. \A s \in Runs \ {r} : ContractState(s)' = ContractState(s)
  BY <1>1 DEF ContractState
<1>3. ContractState(r)' = IF status \in Settled THEN status ELSE "pending"
  BY <1>1 DEF ContractState
<1> QED BY <1>2, <1>3 DEF Shown

LEMMA ContractStep == IInv /\ [Next]_vars => [Contract!Next]_(Contract!vars)
<1> SUFFICES ASSUME IInv, [Next]_vars PROVE [Contract!Next]_(Contract!vars)
  OBVIOUS
<1> USE DEF IInv
<1> DEFINE Goal == [Contract!Next]_(Contract!vars)
<1>1. ASSUME Shown' = Shown, effects' = effects, retried' = retried
      PROVE  Goal
  BY <1>1 DEF Contract!vars, Shown
<1>2. ASSUME NEW r \in Runs, Contract!Step(r)
      PROVE  Goal
  BY <1>2 DEF Contract!Next
<1>3. ASSUME NEW r \in Runs, Enqueue(r)
      PROVE  Goal
  <2>1. Shown[r] = "absent"
    BY <1>3 DEF Enqueue, Shown, ContractState
  <2>2. Shown' = [Shown EXCEPT ![r] = "pending"]
    <3>1. /\ run' = [run EXCEPT ![r] = NewRun]
          /\ r \in enqueued' /\ enqueued' \ {r} = enqueued \ {r}
      BY <1>3 DEF Enqueue
    <3>2. NewRun.status = "queued" /\ "queued" \notin Settled
      BY DEF NewRun, Settled
    <3> QED BY <3>1, <3>2, ShownStep
  <2>3. Contract!Submit(r)
    BY <1>3, <2>1, <2>2 DEF Enqueue, Contract!Submit, Contract!Move, Shown
  <2> QED BY <1>2, <2>3 DEF Contract!Step
<1>4. ASSUME NEW r \in Runs, NEW key \in RetryKeys, RetryRun(r, key)
      PROVE  Goal
  <2>1. Shown[r] = "needs_attention"
    BY <1>4 DEF RetryRun, Shown, ContractState, Settled
  <2>2. Shown' = [Shown EXCEPT ![r] = "pending"]
    <3>1. /\ run' = [run EXCEPT ![r] = NewRun]
          /\ r \in enqueued' /\ enqueued' \ {r} = enqueued \ {r}
      BY <1>4 DEF RetryRun
    <3>2. NewRun.status = "queued" /\ "queued" \notin Settled
      BY DEF NewRun, Settled
    <3> QED BY <3>1, <3>2, ShownStep
  <2>3. Contract!Reopen(r, key)
    BY <1>4, <2>1, <2>2 DEF RetryRun, IsReplay, Contract!Reopen, Contract!Move, Shown
  <2> QED BY <1>2, <2>3 DEF Contract!Step
<1>5. ASSUME NEW w \in Workers, NEW r \in Runs, ClaimLease(w, r)
      PROVE  Goal
  <2>1. /\ r \in enqueued
        /\ run[r].status \notin Settled
        /\ RunOfClaim(run[r]).status = "running"
    <3>1. RowsAgree(r)
      BY DEF RunMatchesJob
    <3>2. job[r].status \in {"queued", "leased"}
      BY <1>5 DEF ClaimLease, Claimable
    <3>3. run[r].status \notin Settled
      BY <3>1, <3>2 DEF RowsAgree, StateOf, ConsistentStates, Settled
    <3> QED BY <1>5, <3>3, ClaimableRun DEF ClaimLease
  <2>2. Shown[r] = "pending" /\ Shown \in [Runs -> {Shown[s] : s \in Runs}]
    BY <2>1 DEF Shown, ContractState
  <2>3. Shown' = [Shown EXCEPT ![r] = "pending"]
    <3>1. /\ run' = [run EXCEPT ![r] = RunOfClaim(run[r])]
          /\ r \in enqueued' /\ enqueued' \ {r} = enqueued \ {r}
      BY <1>5, <2>1 DEF ClaimLease
    <3>2. "running" \notin Settled
      BY DEF Settled
    <3> QED BY <2>1, <3>1, <3>2, ShownStep
  <2>4. Shown' = Shown
    BY <2>2, <2>3
  <2> QED BY <1>1, <1>5, <2>4 DEF ClaimLease
<1>6. ASSUME NEW r \in Runs, job[r].status = "leased",
             NEW t \in {"succeeded", "retry_wait", "needs_attention"}, NEW error,
             run' = [run EXCEPT ![r] = Transition(@, t, error)],
             t = "succeeded" => r \in effects,
             UNCHANGED <<enqueued, effects, retried>>
      PROVE  Goal
  <2>1. r \in enqueued /\ run[r].status = "running"
    <3>1. RowsAgree(r)
      BY DEF RunMatchesJob
    <3> QED BY <1>6, <3>1 DEF UnsubmittedIsBlank, NewJob, RowsAgree, StateOf, ConsistentStates
  <2>2. Shown[r] = "pending" /\ Shown \in [Runs -> {Shown[s] : s \in Runs}]
    BY <2>1 DEF Shown, ContractState, Settled
  <2>3. Transition(run[r], t, error).status = t
    BY DEF Transition
  <2>4. Shown' = [Shown EXCEPT ![r] = IF t \in Settled THEN t ELSE "pending"]
    <3>1. run' = [run EXCEPT ![r] = Transition(run[r], t, error)]
      BY <1>6
    <3>2. r \in enqueued' /\ enqueued' \ {r} = enqueued \ {r}
      BY <1>6, <2>1
    <3> QED BY <2>3, <3>1, <3>2, ShownStep
  <2>5. CASE t = "retry_wait"
    <3>1. Shown' = Shown
      BY <2>2, <2>4, <2>5 DEF Settled
    <3> QED BY <1>1, <1>6, <3>1
  <2>6. CASE t = "succeeded"
    <3>1. Contract!Succeed(r)
      BY <1>6, <2>2, <2>4, <2>6 DEF Contract!Succeed, Contract!Move, Shown, Settled
    <3> QED BY <1>2, <3>1 DEF Contract!Step
  <2>7. CASE t = "needs_attention"
    <3>1. Contract!GiveUp(r)
      BY <1>6, <2>2, <2>4, <2>7 DEF Contract!GiveUp, Contract!Move, Shown, Settled
    <3> QED BY <1>2, <3>1 DEF Contract!Step
  <2> QED BY <2>5, <2>6, <2>7
<1>7. ASSUME NEW w \in Workers, NEW r \in Runs, FailExpired(w, r)
      PROVE  Goal
  BY <1>6, <1>7 DEF FailExpired, FinalLeaseExpired
<1>8. ASSUME NEW w \in Workers, Complete(w)
      PROVE  Goal
  <2>1. claim[w].run \in Runs /\ claim[w].run \in effects
    BY <1>8, BusyClaims DEF Complete, Busy, Outcomes, ClaimsAreReal
  <2> QED BY <1>6, <1>8, <2>1 DEF Complete, Owns
<1>9. ASSUME NEW w \in Workers, Fail(w)
      PROVE  Goal
  <2> DEFINE t == IF ShouldRetry(claim[w].run, phase[w]) THEN "retry_wait"
                                                        ELSE "needs_attention"
  <2>1. claim[w].run \in Runs
    BY <1>9, BusyClaims DEF Fail, Busy, Outcomes
  <2>2. /\ job[claim[w].run].status = "leased"
        /\ run' = [run EXCEPT ![claim[w].run] = Transition(@, t, phase[w])]
        /\ UNCHANGED <<enqueued, effects, retried>>
    BY <1>9 DEF Fail, Owns
  <2>3. t \in {"succeeded", "retry_wait", "needs_attention"} /\ t # "succeeded"
    OBVIOUS
  <2> HIDE DEF t
  <2> QED BY <1>6, <2>1, <2>2, <2>3
<1>10. ASSUME NEW w \in Workers, HandlerCommits(w)
       PROVE  Goal
  <2>1. claim[w].run \in Runs /\ claim[w].run \in enqueued
    BY <1>10, BusyClaims DEF HandlerCommits, Busy
  <2>2. Shown' = Shown /\ Shown[claim[w].run] # "absent"
    BY <1>10, <2>1 DEF HandlerCommits, dbVars, Shown, ContractState, Settled
  <2>3. Contract!Produce(claim[w].run)
    BY <1>10, <2>2 DEF HandlerCommits, dbVars, Contract!Produce, Shown
  <2> QED BY <1>2, <2>1, <2>3 DEF Contract!Step
<1>11. ASSUME enqueued' = enqueued, run' = run, effects' = effects, retried' = retried
       PROVE  Goal
  <2>1. Shown' = Shown
    BY <1>11 DEF Shown, ContractState
  <2> QED BY <1>1, <1>11, <2>1
<1>12. ASSUME NEW w \in Workers, \/ HandlerReturns(w) \/ HandlerRaises(w)
                                \/ LoseLease(w) \/ Crash(w) \/ Restart(w)
       PROVE  Goal
  BY <1>11, <1>12 DEF HandlerReturns, HandlerRaises, LoseLease, Crash, Restart, dbVars
<1>13. ASSUME NEW r \in Runs, Elapse(r)
       PROVE  Goal
  BY <1>11, <1>13 DEF Elapse
<1>14. CASE UNCHANGED vars
  BY <1>11, <1>14 DEF vars
<1> QED BY <1>3, <1>4, <1>5, <1>7, <1>8, <1>9, <1>10, <1>12, <1>13, <1>14
        DEF Next, Take, Settle, Handle

\* Attempts, leases, worker_ids, crashes and clocks are invisible to clients:
\* every behaviour of the queue is one that RunContract allows.
THEOREM QueueImplementsContract == Spec => Contract!Safety
<1>1. Init => Contract!Init
  BY DEF Init, Contract!Init, ContractState
<1> QED BY <1>1, ContractStep, QueueInvariant, PTL DEF Spec, Contract!Safety

===============================================================================
