------------------------------ MODULE RunContract ------------------------------
(***************************************************************************)
(* What the clients of the queue (the API, the run list, a handler's       *)
(* author) rely on, with no attempts, leases, clocks or processes: a       *)
(* submitted run is pending until it succeeds, which it does only with its *)
(* durable result, or needs attention, from where a human may reopen it at *)
(* most once per retry key.  WorkflowQueue implements it.                  *)
(***************************************************************************)
CONSTANTS Runs, RetryKeys

VARIABLES
  state,    \* state[r]: what the run list shows of run r
  effects,  \* the runs whose durable result is in the database
  retried   \* retried[r]: the retry keys that have reopened r

vars == <<state, effects, retried>>

States == {"absent", "pending", "succeeded", "needs_attention"}

TypeOK ==
  /\ state \in [Runs -> States]
  /\ effects \in SUBSET Runs
  /\ retried \in [Runs -> SUBSET RetryKeys]

Init ==
  /\ state = [r \in Runs |-> "absent"]
  /\ effects = {}
  /\ retried = [r \in Runs |-> {}]

Move(r, from, to) == state[r] = from /\ state' = [state EXCEPT ![r] = to]

Submit(r) ==
  /\ Move(r, "absent", "pending")
  /\ UNCHANGED <<effects, retried>>

\* A handler may still commit after its run was given up: nothing withdraws
\* a lease from the process that holds it.
Produce(r) ==
  /\ state[r] # "absent"
  /\ effects' = effects \cup {r}
  /\ UNCHANGED <<state, retried>>

Succeed(r) ==
  /\ r \in effects
  /\ Move(r, "pending", "succeeded")
  /\ UNCHANGED <<effects, retried>>

GiveUp(r) ==
  /\ Move(r, "pending", "needs_attention")
  /\ UNCHANGED <<effects, retried>>

Reopen(r, key) ==
  /\ key \notin retried[r]
  /\ Move(r, "needs_attention", "pending")
  /\ retried' = [retried EXCEPT ![r] = @ \cup {key}]
  /\ UNCHANGED effects

Step(r) == \/ Submit(r) \/ Produce(r) \/ Succeed(r) \/ GiveUp(r)
           \/ \E key \in RetryKeys : Reopen(r, key)

Next == \E r \in Runs : Step(r)

Safety == Init /\ [][Next]_vars

\* A pending run does not stay pending.
Spec == Safety /\ \A r \in Runs : WF_vars(Succeed(r) \/ GiveUp(r))

===============================================================================
