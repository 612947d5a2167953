------------------------------- MODULE RunState -------------------------------
(***************************************************************************)
(* The pure rules of a workflow run (domain/runs/state.py): its statuses,  *)
(* the table of the transitions a command may make, and what `transition`  *)
(* returns.  The module has no variables; the queue is built from it.      *)
(*                                                                         *)
(* A run is the record [status, error, finished].  `error` abstracts       *)
(* last_error_code and last_error_detail to the kind of the failure, and   *)
(* `finished` abstracts finished_at to whether it is set.  The fields that *)
(* no code of the repository ever tests (checkpoint, version, started_at)  *)
(* are left out.                                                           *)
(***************************************************************************)

RunStatus == {"queued", "running", "retry_wait", "needs_attention",
              "succeeded", "cancelled"}

JobStatus == {"queued", "leased", "completed", "failed", "cancelled"}

\* NoError is a NULL last_error_code; the others are the ways a job fails.
NoError == "none"
Failures == {"retryable", "terminal", "lease_expired"}
Errors == Failures \cup {NoError}

RunRecord == [status : RunStatus, error : Errors, finished : BOOLEAN]

AllowedRunTransitions ==
  ({"queued"} \X {"running", "cancelled"})
    \cup ({"running"} \X {"retry_wait", "needs_attention", "succeeded", "cancelled"})
    \cup ({"retry_wait"} \X {"queued", "needs_attention", "cancelled"})
    \cup ({"needs_attention"} \X {"queued", "cancelled"})

\* transition() raises RunTransitionError unless this holds.
CanTransition(run, target) == <<run.status, target>> \in AllowedRunTransitions

\* What transition() returns: the error is the one given, none when none is
\* given, so every transition clears the previous one; finished_at is set on
\* the two closing statuses and otherwise kept.
Transition(run, target, error) ==
  [status   |-> target,
   error    |-> error,
   finished |-> run.finished \/ target \in {"succeeded", "cancelled"}]

\* The statuses in which nothing is left for a worker to do: the ones that
\* end the run-event stream.
Settled == {"succeeded", "needs_attention", "cancelled"}

===============================================================================
