------------------------------ MODULE AgentReview ------------------------------
(***************************************************************************)
(* The review of an extraction's claims by the Reviewer model:             *)
(*   application/agent_review_jobs.py            review                    *)
(*   infrastructure/models/reviewer.py           the check of an answer    *)
(*   infrastructure/database/agent_review_service.py                       *)
(*                       completed_run, candidates, persist                *)
(*                                                                         *)
(* The runs of this module are review runs of one extraction and one       *)
(* version of the Reviewer.  As in SourceEvidence the queue is kept to     *)
(* what the handler sees of it: a run that is not settled may be executed  *)
(* again at any time, by two processes at once.                            *)
(*                                                                         *)
(* An opinion is what the model says of one claim.  Of its risk codes, its *)
(* rationale and its suggested predicate only what the governance asks is  *)
(* kept: whether there are any, and whether the rationale infers.          *)
(***************************************************************************)
EXTENDS Naturals, Sequences, FiniteSets

CONSTANTS
  Candidates,  \* the claims of the extraction, oldest first; a claim is its id
  FactOf,      \* FactOf[c] is the predicate and the normalised value of claim c
  Opinions,    \* Opinions[c]: what the model may say of claim c
  BatchSize,   \* the claims of one request (8 in the code)
  PackLimit,   \* the approvals of one review (15 in the code)
  Runs,        \* the review runs of the extraction
  Workers,     \* worker processes
  NoReview,    \* a run without a row in agent_review_results
  NoTask       \* a process that executes no review

Verdicts == {"agent_approved", "agent_rejected", "needs_human"}

Claims == {Candidates[i] : i \in DOMAIN Candidates}

\* What a decision of the model says, as far as the governance reads it.
Opinion == [decision : Verdicts, priority : 0 .. 100,
            risky : BOOLEAN, corrected : BOOLEAN, inferred : BOOLEAN]

ASSUME ReviewAssumption ==
  /\ Candidates \in Seq(Nat) \ {<<>>}
  /\ \A i, j \in DOMAIN Candidates : Candidates[i] = Candidates[j] => i = j
  /\ Opinions \in [Claims -> SUBSET Opinion]
  /\ BatchSize \in Nat \ {0}
  /\ PackLimit \in Nat

VARIABLES
  status,  \* status[k]: whether run k is settled, and how
  review,  \* review[k]: the rows of the review run k has persisted
  task     \* task[w]: the execution in process w

vars == <<status, review, task>>

\* One decision of an answer, and one row of claim_agent_reviews.
Decisions == [claim : Claims, opinion : Opinion]
Reasons == {"model", "unsupported_inference", "reviewer_risk", "predicate_correction",
            "exact_duplicate", "low_priority"}
Rows == [claim : Claims, opinion : Opinion, decision : Verdicts, reason : Reasons]

\* A batch: an answer holds at least one decision and at most BatchSize.
Batch == {batch \in Seq(Claims) : Len(batch) \in 1 .. BatchSize}

Steps == {"looking", "reviewing", "persisting", "returning"}
Tasks == [run : Runs, step : Steps, pending : Seq(Batch), decided : Seq(Decisions)]

ASSUME NullAssumption == NoReview \notin Seq(Rows) /\ NoTask \notin Tasks

\* The types; above all, no batch is empty or larger than an answer may be.
TypeOK ==
  /\ status \in [Runs -> {"pending", "succeeded", "failed"}]
  /\ review \in [Runs -> Seq(Rows) \cup {NoReview}]
  /\ task \in [Workers -> Tasks \cup {NoTask}]

Init ==
  /\ status = [k \in Runs |-> "pending"]
  /\ review = [k \in Runs |-> NoReview]
  /\ task = [w \in Workers |-> NoTask]

-------------------------------------------------------------------------------
(* The governance of the decisions, in persist.                            *)

Verdict(decision, reason) == [decision |-> decision, reason |-> reason]

\* FAULT: a corrected predicate does not keep a claim from being approved.
ScreenedForRisk(o) ==
  IF o.decision # "agent_approved" THEN Verdict(o.decision, "model")
  ELSE IF o.inferred THEN Verdict("agent_rejected", "unsupported_inference")
  ELSE IF o.risky THEN Verdict("needs_human", "reviewer_risk")
  ELSE Verdict(o.decision, "model")

\* An approval does not survive an inference, a risk or a corrected predicate.
Screened(o) ==
  IF o.decision # "agent_approved" THEN Verdict(o.decision, "model")
  ELSE IF o.inferred THEN Verdict("agent_rejected", "unsupported_inference")
  ELSE IF o.risky THEN Verdict("needs_human", "reviewer_risk")
  ELSE IF o.corrected THEN Verdict("needs_human", "predicate_correction")
  ELSE Verdict(o.decision, "model")

\* FAULT: only the neighbour is compared.
DuplicateOfNeighbour(decided, i) ==
  i > 1 /\ FactOf[decided[i - 1].claim] = FactOf[decided[i].claim]

\* An earlier decision is about the same fact, whatever it decided.
Duplicate(decided, i) ==
  \E j \in 1 .. i - 1 : FactOf[decided[j].claim] = FactOf[decided[i].claim]

Unique(decided, i) ==
  IF Duplicate(decided, i) THEN Verdict("agent_rejected", "exact_duplicate")
  ELSE Screened(decided[i].opinion)

Approvals(decided) ==
  {i \in DOMAIN decided : Unique(decided, i).decision = "agent_approved"}

\* The order of the pack: priority, then the id of the claim.
Before(decided, i, j) ==
  LET p == decided[i].opinion.priority
      q == decided[j].opinion.priority
  IN  p > q \/ (p = q /\ decided[i].claim < decided[j].claim)

\* FAULT: the pack is cut before duplicates and risks are dropped.
ExcessOfModel(decided, i) ==
  /\ i \in Approvals(decided)
  /\ Cardinality({j \in DOMAIN decided :
                    decided[j].opinion.decision = "agent_approved" /\ Before(decided, j, i)})
       >= PackLimit

\* An approval beyond the limit of the pack.
Excess(decided, i) ==
  /\ i \in Approvals(decided)
  /\ Cardinality({j \in Approvals(decided) : Before(decided, j, i)}) >= PackLimit

Row(decided, i) ==
  LET verdict == IF Excess(decided, i) THEN Verdict("agent_rejected", "low_priority")
                 ELSE Unique(decided, i)
  IN  [claim |-> decided[i].claim, opinion |-> decided[i].opinion,
       decision |-> verdict.decision, reason |-> verdict.reason]

Governed(decided) == [i \in DOMAIN decided |-> Row(decided, i)]

-------------------------------------------------------------------------------
(* The commands of the API, and an execution of the handler in process w.  *)

At(w, step) == task[w] # NoTask /\ task[w].step = step

Works(w, step, pending, decided) ==
  task' = [task EXCEPT ![w] =
    [run |-> task[w].run, step |-> step, pending |-> pending, decided |-> decided]]

Moves(w, step) == Works(w, step, task[w].pending, task[w].decided)

\* The handler is about to return; what it collected is not read again.
Returns(w) == Works(w, "returning", <<>>, <<>>)

Start(w, k) ==
  /\ task[w] = NoTask
  /\ status[k] = "pending"
  /\ task' = [task EXCEPT ![w] =
       [run |-> k, step |-> "looking", pending |-> <<>>, decided |-> <<>>]]
  /\ UNCHANGED <<status, review>>

\* FAULT: a result counts before its run has succeeded.
CompletedEarly(k) == review[k] # NoReview

\* completed_run: another run's review counts when that run has succeeded.
Completed(k) == review[k] # NoReview /\ status[k] = "succeeded"

FindCompleted(w) ==
  /\ At(w, "looking")
  /\ \E k \in Runs : Completed(k)
  /\ Returns(w)
  /\ UNCHANGED <<status, review>>

\* The number of batches, and the claims of each.
BatchCount == (Len(Candidates) + BatchSize - 1) \div BatchSize

\* FAULT: a batch runs to the end of the claims.
LastOfAll(b) == Len(Candidates)

LastOf(b) == IF b = BatchCount THEN Len(Candidates) ELSE b * BatchSize
Batches == [b \in 1 .. BatchCount |-> SubSeq(Candidates, (b - 1) * BatchSize + 1, LastOf(b))]

LoadCandidates(w) ==
  /\ At(w, "looking")
  /\ ~ \E k \in Runs : Completed(k)
  /\ Works(w, "reviewing", Batches, <<>>)
  /\ UNCHANGED <<status, review>>

\* The orders in which an answer may list the claims of a batch.
Orders(batch) ==
  {order \in [DOMAIN batch -> {batch[i] : i \in DOMAIN batch}] :
     \A i, j \in DOMAIN batch : order[i] = order[j] => i = j}

\* The gateway accepts an answer that decides each claim of the batch once.
BatchAnswered(w) ==
  /\ At(w, "reviewing")
  /\ task[w].pending # <<>>
  /\ \E order \in Orders(Head(task[w].pending)) :
     \E said \in {o \in [DOMAIN order -> UNION {Opinions[c] : c \in Claims}] :
                    \A i \in DOMAIN order : o[i] \in Opinions[order[i]]} :
       Works(w, "reviewing", Tail(task[w].pending), task[w].decided \o
         [i \in DOMAIN order |-> [claim |-> order[i], opinion |-> said[i]]])
  /\ UNCHANGED <<status, review>>

Midpoint(batch) == Len(batch) \div 2

\* FAULT: the whole batch is asked about again, in another order.
HalvesAgain(batch) == <<Append(Tail(batch), Head(batch))>>

\* FAULT: the halves share a claim.
HalvesOverlapping(batch) ==
  <<SubSeq(batch, 1, Midpoint(batch) + 1), SubSeq(batch, Midpoint(batch) + 1, Len(batch))>>

Halves(batch) ==
  <<SubSeq(batch, 1, Midpoint(batch)), SubSeq(batch, Midpoint(batch) + 1, Len(batch))>>

\* The call fails or its answer is refused: the batch is split in two, which
\* are asked about next.
BatchFails(w) ==
  /\ At(w, "reviewing")
  /\ task[w].pending # <<>>
  /\ Len(Head(task[w].pending)) # 1
  /\ LET pending == task[w].pending
     IN  Works(w, "reviewing", Halves(Head(pending)) \o Tail(pending), task[w].decided)
  /\ UNCHANGED <<status, review>>

\* The handler raises: at once for good, or after the last attempt.  The run
\* stays pending for another attempt, or fails.
Raises(w, outcome) ==
  /\ task' = [task EXCEPT ![w] = NoTask]
  /\ status' = [status EXCEPT ![task[w].run] = IF @ = "pending" THEN outcome ELSE @]
  /\ UNCHANGED review

\* A claim the model cannot be asked about ends the review.
ClaimFails(w) ==
  /\ At(w, "reviewing")
  /\ task[w].pending # <<>>
  /\ Len(Head(task[w].pending)) = 1
  /\ Raises(w, "failed")

\* persist looks for the run's own review before it locks the run.
FindOwn(w) ==
  /\ At(w, "reviewing")
  /\ task[w].pending = <<>>
  /\ IF review[task[w].run] # NoReview THEN Returns(w) ELSE Moves(w, "persisting")
  /\ UNCHANGED <<status, review>>

\* FAULT: a second version of the review is inserted.
InsertableForRun(k) == review[k] = NoReview

\* The primary key and uq_agent_review_results_target_version.
Insertable(k) == \A j \in Runs : review[j] = NoReview

\* uq_claim_agent_reviews_run_claim.
OneRowPerClaim(decided) ==
  \A i, j \in DOMAIN decided : decided[i].claim = decided[j].claim => i = j

Covered(decided) == {decided[i].claim : i \in DOMAIN decided} = Claims

Accepted(w) ==
  LET decided == task[w].decided
  IN  Covered(decided) /\ OneRowPerClaim(decided) /\ Insertable(task[w].run)

Persist(w) ==
  /\ At(w, "persisting")
  /\ Accepted(w)
  /\ review' = [review EXCEPT ![task[w].run] = Governed(task[w].decided)]
  /\ Returns(w)
  /\ UNCHANGED status

\* Decisions that do not cover the claims fail the run for good; rows that the
\* database refuses, only after the last attempt.
PersistRefused(w) ==
  /\ At(w, "persisting")
  /\ ~ Accepted(w)
  /\ \E outcome \in {"pending", "failed"} :
       /\ outcome = "pending" => Covered(task[w].decided)
       /\ Raises(w, outcome)

\* The handler returns, and the queue completes the run.
Finish(w) == At(w, "returning") /\ Raises(w, "succeeded")

\* Any step may meet an error of the database; the process may die, with the
\* review persisted and the run not completed; a lease may be lost.
Interrupted(w) ==
  /\ task[w] # NoTask
  /\ \E outcome \in {"pending", "failed"} : Raises(w, outcome)

\* A human retries a failed run.
RetryRun(k) ==
  /\ status[k] = "failed"
  /\ status' = [status EXCEPT ![k] = "pending"]
  /\ UNCHANGED <<review, task>>

Execute(w) ==
  \/ FindCompleted(w) \/ LoadCandidates(w) \/ BatchAnswered(w) \/ BatchFails(w)
  \/ ClaimFails(w) \/ FindOwn(w) \/ Persist(w) \/ PersistRefused(w) \/ Finish(w)

Next ==
  \/ \E k \in Runs : RetryRun(k) \/ \E w \in Workers : Start(w, k)
  \/ \E w \in Workers : Execute(w) \/ Interrupted(w)

Spec == Init /\ [][Next]_vars

\* A call of the model ends, since the gateway has a timeout.
FairSpec == Spec /\ \A w \in Workers : WF_vars(Execute(w))

-------------------------------------------------------------------------------
(* Properties.                                                             *)

\* Splitting refused batches and answers in any order lose no claim and ask
\* about none twice: each one is waiting in one batch or decided (pending and
\* decisions in review; persist would notice a lost claim, not a second one).
EachClaimOnce ==
  \A w \in Workers :
    task[w] # NoTask /\ task[w].step \in {"reviewing", "persisting"} =>
      LET pending == task[w].pending
          decided == task[w].decided
      IN  \A c \in Claims :
            Cardinality({b \in DOMAIN pending : \E i \in DOMAIN pending[b] : pending[b][i] = c})
              + Cardinality({i \in DOMAIN decided : decided[i].claim = c}) = 1

Approved(rows) == {i \in DOMAIN rows : rows[i].decision = "agent_approved"}

\* The claims that compete for the pack: the approved, and those it has no room for.
Contenders(rows) == Approved(rows) \cup {i \in DOMAIN rows : rows[i].reason = "low_priority"}

\* What a human is asked to confirm as a pack is sound by itself: the model
\* approved it without inference, risk or another predicate.  And no two claims
\* of one fact compete for its places, in whatever order the answers came.
ApprovalsAreSound ==
  \A k \in Runs : review[k] # NoReview =>
    LET rows == review[k] IN
    /\ \A i \in Contenders(rows) :
         LET o == rows[i].opinion IN
         o.decision = "agent_approved" /\ ~ o.risky /\ ~ o.corrected /\ ~ o.inferred
    /\ \A i, j \in Contenders(rows) : FactOf[rows[i].claim] = FactOf[rows[j].claim] => i = j

\* The bound of the pack costs nothing: at most PackLimit claims are approved,
\* a claim loses its place only to a full pack of better ones, and a sound
\* approval of a fact nobody else states is lost to nothing else.
PackKeepsTheBest ==
  \A k \in Runs : review[k] # NoReview =>
    LET rows == review[k]
        better(j, i) == \/ rows[j].opinion.priority > rows[i].opinion.priority
                        \/ /\ rows[j].opinion.priority = rows[i].opinion.priority
                           /\ rows[j].claim < rows[i].claim
        alone(i) == \A j \in DOMAIN rows \ {i} : FactOf[rows[j].claim] # FactOf[rows[i].claim]
        sound(o) == o.decision = "agent_approved" /\ ~ (o.risky \/ o.corrected \/ o.inferred)
    IN  /\ Cardinality(Approved(rows)) <= PackLimit
        /\ \A i \in DOMAIN rows :
             /\ rows[i].reason = "low_priority" =>
                  /\ Cardinality(Approved(rows)) = PackLimit
                  /\ \A j \in Approved(rows) : better(j, i)
             /\ sound(rows[i].opinion) /\ alone(i) =>
                  i \in Contenders(rows)

\* A succeeded run rests on a review of a succeeded run, its own or another's:
\* runs do not lean on a review whose run was given up (completed_run).
SuccessHasReview ==
  \A k \in Runs : status[k] = "succeeded" =>
    \E j \in Runs : status[j] = "succeeded" /\ review[j] # NoReview

\* The first review of the extraction is the only one, for ever: a repeated
\* execution, after a crash between persist and complete or beside another
\* run's, adds and changes nothing, whatever the model says the second time.
FirstReviewStands ==
  [][(\E k \in Runs : review[k] # NoReview) => review' = review]_vars

\* However often the model refuses a batch, an execution ends: batches shrink.
ExecutionsEnd == \A w \in Workers : task[w] # NoTask ~> task[w] = NoTask

===============================================================================
