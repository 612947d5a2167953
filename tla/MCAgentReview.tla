----------------------------- MODULE MCAgentReview -----------------------------
(* Instances of AgentReview for TLC. *)
EXTENDS AgentReview

\* Three claims; the first and the last state the same fact.
MCCandidates == <<2, 1, 3>>
MCFactOf == <<"skill", "name", "name">>

Approve(priority) ==
  [decision |-> "agent_approved", priority |-> priority, risky |-> FALSE,
   corrected |-> FALSE, inferred |-> FALSE]

\* The second copy may be better than the rest; the other claim may be
\* approved with another predicate.
MCOpinions ==
  <<{Approve(1), [Approve(2) EXCEPT !.corrected = TRUE]},
    {Approve(1)}, {Approve(1), Approve(2)}>>

===============================================================================
