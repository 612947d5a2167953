----------------------------- MODULE MarketingTopics -----------------------------
(***************************************************************************)
(* From a published snapshot to one approved topic:                        *)
(*   infrastructure/database/marketing_service.py                          *)
(*                                                                         *)
(* Every command holds the project's row FOR UPDATE from its start to its  *)
(* commit, and a row takes its created_at under that lock: a command is    *)
(* one action and the order of the rows is the order of the commands.      *)
(* Fit scores rank the candidates for the reader and decide nothing.       *)
(***************************************************************************)
EXTENDS Naturals, Sequences

CONSTANTS
  Tasks,       \* marketing tasks
  Signals,     \* trend signals a user may record
  Snapshots,   \* published knowledge snapshots
  FactsOf,     \* FactsOf[s]: the members of snapshot s, by id
  Members,     \* snapshot members
  NoSnapshot,  \* the snapshot of a task that was not created yet
  MaxReviews   \* bound: topic reviews of a task

ASSUME TopicAssumption ==
  /\ FactsOf \in [Snapshots -> Seq(Members)]
  /\ NoSnapshot \notin Snapshots
  /\ MaxReviews \in Nat

VARIABLES
  snapshotOf,   \* snapshotOf[t]: the snapshot task t froze
  signals,      \* the signals recorded so far
  candidates,   \* candidates[t]: the signals analysed for task t
  topicReviews  \* topicReviews[t]: the human decisions about its topics, by created_at

topicVars == <<snapshotOf, signals, candidates, topicReviews>>

TopicReviews == [signal : Signals, decision : {"approve", "reject", "defer"}]

TopicTypeOK ==
  /\ snapshotOf \in [Tasks -> Snapshots \cup {NoSnapshot}]
  /\ signals \in SUBSET Signals
  /\ candidates \in [Tasks -> SUBSET Signals]
  /\ topicReviews \in [Tasks -> Seq(TopicReviews)]

TopicInit ==
  /\ snapshotOf = [t \in Tasks |-> NoSnapshot]
  /\ signals = {}
  /\ candidates = [t \in Tasks |-> {}]
  /\ topicReviews = [t \in Tasks |-> <<>>]

Created(t) == snapshotOf[t] # NoSnapshot

\* Decision i of task t is the latest one about its topic, and approves it.
StandingApproval(t, i) ==
  /\ i \in 1 .. Len(topicReviews[t])
  /\ topicReviews[t][i].decision = "approve"
  /\ \A j \in i + 1 .. Len(topicReviews[t]) :
       topicReviews[t][j].signal # topicReviews[t][i].signal

-------------------------------------------------------------------------------

CreateTask(t, s) ==
  /\ ~Created(t)
  /\ snapshotOf' = [snapshotOf EXCEPT ![t] = s]
  /\ UNCHANGED <<signals, candidates, topicReviews>>

AddSignal(x) ==
  /\ x \notin signals
  /\ signals' = signals \cup {x}
  /\ UNCHANGED <<snapshotOf, candidates, topicReviews>>

\* One candidate for each signal of the project; those there are stay as they are.
Analyze(t) ==
  /\ Created(t)
  /\ FactsOf[snapshotOf[t]] # <<>>
  /\ signals # {}
  /\ candidates' = [candidates EXCEPT ![t] = @ \cup signals]
  /\ UNCHANGED <<snapshotOf, signals, topicReviews>>

\* FAULT: only the last decision of the task is looked at, not each topic's.
AnotherApprovedLastOnly(t, x) ==
  /\ topicReviews[t] # <<>>
  /\ LET last == topicReviews[t][Len(topicReviews[t])]
     IN last.decision = "approve" /\ last.signal # x

AnotherApproved(t, x) ==
  \E i \in 1 .. Len(topicReviews[t]) :
    StandingApproval(t, i) /\ topicReviews[t][i].signal # x

ReviewTopic(t, x, decision) ==
  /\ x \in candidates[t]
  /\ decision = "approve" => ~AnotherApproved(t, x)
  /\ Len(topicReviews[t]) < MaxReviews
  /\ topicReviews' = [topicReviews EXCEPT
                        ![t] = Append(@, [signal |-> x, decision |-> decision])]
  /\ UNCHANGED <<snapshotOf, signals, candidates>>

TopicNext ==
  \/ \E t \in Tasks, s \in Snapshots : CreateTask(t, s)
  \/ \E x \in Signals : AddSignal(x)
  \/ \E t \in Tasks : Analyze(t)
  \/ \E t \in Tasks, x \in Signals, decision \in {"approve", "reject", "defer"} :
       ReviewTopic(t, x, decision)

-------------------------------------------------------------------------------

\* Over any history of decisions, deferrals and changes of mind about several
\* topics, a task has at most one approved topic (review_topic).  Only create_run
\* reads it, and refuses a task with two: no new script run could be created.
OneApprovedTopic ==
  \A t \in Tasks :
    \A i, j \in 1 .. Len(topicReviews[t]) :
      StandingApproval(t, i) /\ StandingApproval(t, j) => i = j

\* What docs/migration/m2-trend-topic.md:25-26 says: "changing the selection
\* requires an explicit later rejection followed by a new approval".  Between
\* the approvals of two topics the first one was rejected; in the code a
\* deferral is enough.
SelectionChangesByRejection ==
  \A t \in Tasks :
    \A i, j \in 1 .. Len(topicReviews[t]) :
      LET x == topicReviews[t][i] IN
      /\ i < j /\ x.decision = "approve"
      /\ topicReviews[t][j].decision = "approve" /\ topicReviews[t][j].signal # x.signal
      => \E k \in i + 1 .. j - 1 :
           topicReviews[t][k] = [signal |-> x.signal, decision |-> "reject"]

===============================================================================
