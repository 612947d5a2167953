---------------------------- MODULE AgentReviewProofs ----------------------------
(***************************************************************************)
(* Proofs about AgentReview, for any claims, any opinions of the model and *)
(* any number of runs and processes.                                       *)
(***************************************************************************)
EXTENDS AgentReview, TLAPS, SequenceTheorems, FiniteSetTheorems, FunctionTheorems

-------------------------------------------------------------------------------
(* Batches.                                                                *)

LEMMA CandidateFacts ==
  /\ Candidates \in Seq(Claims)
  /\ Len(Candidates) \in Nat \ {0}
<1>1. Candidates \in Seq(Nat) /\ Candidates # <<>>
  BY ReviewAssumption
<1>2. Len(Candidates) \in Nat \ {0}
  BY <1>1, EmptySeq
<1>3. DOMAIN Candidates = 1 .. Len(Candidates) /\ Candidates \in [1 .. Len(Candidates) -> Nat]
  BY <1>1, LenProperties
<1>4. Candidates \in [1 .. Len(Candidates) -> Claims]
  BY <1>3 DEF Claims
<1> QED
  BY <1>2, <1>4, SeqDef

\* Splitting off batches leaves the claims of the last one within BatchSize.
LEMMA BatchArithmetic ==
  ASSUME NEW n \in Nat \ {0}, NEW size \in Nat \ {0}, NEW q, q = (n + size - 1) \div size
  PROVE  /\ q \in Nat \ {0}
         /\ (q - 1) * size + 1 <= n
         /\ n <= q * size
         /\ \A b \in 1 .. q - 1 : b * size <= n
<1>1. q \in Int /\ q * size <= n + size - 1 /\ n + size - 1 < q * size + size
  BY Z3
<1>2. q \in Nat \ {0}
  <2>1. CASE q <= 0
    <3>1. q * size <= 0
      BY <1>1, <2>1
    <3> QED
      BY <1>1, <3>1
  <2> QED
    BY <1>1, <2>1
<1>3. q * size \in Int /\ (q - 1) * size = q * size - size
  BY <1>2
<1>4. ASSUME NEW b \in 1 .. q - 1
      PROVE  b * size <= n
  <2>1. b * size <= (q - 1) * size
    BY <1>2
  <2> QED
    BY <1>1, <1>3, <2>1
<1> QED
  BY <1>1, <1>2, <1>3, <1>4

\* Where a batch begins and ends, and where its claims are among all.
LEMMA BatchPlaces ==
  ASSUME NEW b \in 1 .. BatchCount
  PROVE  /\ (b - 1) * BatchSize \in Nat
         /\ LastOf(b) = IF b = BatchCount THEN Len(Candidates)
                        ELSE (b - 1) * BatchSize + BatchSize
         /\ LastOf(b) \in (b - 1) * BatchSize + 1 .. Len(Candidates)
         /\ LastOf(b) - (b - 1) * BatchSize \in 1 .. BatchSize
<1> DEFINE n == Len(Candidates)
           q == BatchCount
<1>1. n \in Nat \ {0} /\ BatchSize \in Nat \ {0}
  BY CandidateFacts, ReviewAssumption
<1>2. q = (n + BatchSize - 1) \div BatchSize
  BY DEF BatchCount
<1>3. b \in 1 .. q /\ LastOf(b) = IF b = q THEN n ELSE b * BatchSize
  BY DEF LastOf
<1> HIDE DEF n, q
<1>4. /\ q \in Nat \ {0}
      /\ (q - 1) * BatchSize + 1 <= n
      /\ n <= q * BatchSize
      /\ \A d \in 1 .. q - 1 : d * BatchSize <= n
  BY <1>1, <1>2, BatchArithmetic
<1>5. (b - 1) * BatchSize \in Nat /\ (b - 1) * BatchSize = b * BatchSize - BatchSize
  BY <1>1, <1>3, <1>4
<1>6. CASE b = q
  BY <1>1, <1>3, <1>4, <1>5, <1>6 DEF n, q
<1>7. CASE b # q
  <2>1. b * BatchSize <= n /\ b * BatchSize = (b - 1) * BatchSize + BatchSize
    BY <1>1, <1>3, <1>4, <1>5, <1>7
  <2>2. LastOf(b) = (b - 1) * BatchSize + BatchSize
    BY <1>3, <1>7, <2>1
  <2> QED
    BY <1>1, <1>5, <1>7, <2>1, <2>2 DEF n, q
<1> QED
  BY <1>6, <1>7

LEMMA BatchContents ==
  ASSUME NEW b \in 1 .. BatchCount
  PROVE  /\ Batches[b] \in Batch
         /\ Len(Batches[b]) = LastOf(b) - (b - 1) * BatchSize
         /\ DOMAIN Batches[b] = 1 .. LastOf(b) - (b - 1) * BatchSize
         /\ \A i \in DOMAIN Batches[b] : Batches[b][i] = Candidates[(b - 1) * BatchSize + i]
<1> DEFINE before == (b - 1) * BatchSize
           last == LastOf(b)
           batch == SubSeq(Candidates, before + 1, last)
<1>1. Batches[b] = batch
  BY DEF Batches
<1>2. Candidates \in Seq(Claims) /\ Len(Candidates) \in Nat /\ BatchSize \in Nat
  BY CandidateFacts, ReviewAssumption
<1>3. before \in Nat /\ last \in before + 1 .. Len(Candidates) /\ last - before \in 1 .. BatchSize
  BY <1>2, BatchPlaces
<1> HIDE DEF before, last
<1>4. \A i \in before + 1 .. last : Candidates[i] \in Claims
  <2>1. \A i \in 1 .. Len(Candidates) : Candidates[i] \in Claims
    BY <1>2, ElementOfSeq
  <2> QED
    BY <1>2, <1>3, <2>1
<1>5. /\ batch \in Seq(Claims)
      /\ Len(batch) = last - before
      /\ \A i \in 1 .. last - before : batch[i] = Candidates[before + i]
  <2> DEFINE first == before + 1
  <2>1. /\ first \in Int /\ last \in Int /\ first <= last
        /\ last - first + 1 = last - before
        /\ \A i \in Int : first + i - 1 = before + i
    BY <1>2, <1>3
  <2> HIDE DEF first
  <2>2. /\ SubSeq(Candidates, first, last) \in Seq(Claims)
        /\ Len(SubSeq(Candidates, first, last)) = last - first + 1
        /\ \A i \in 1 .. last - first + 1 :
             SubSeq(Candidates, first, last)[i] = Candidates[first + i - 1]
    BY <1>4, <2>1, SubSeqProperties DEF first
  <2> QED
    BY <2>1, <2>2 DEF first
<1> HIDE DEF batch
<1>6. DOMAIN batch = 1 .. last - before /\ batch \in Batch
  BY <1>3, <1>5, LenProperties DEF Batch
<1>7. \A i \in DOMAIN batch : batch[i] = Candidates[before + i]
  BY <1>5, <1>6
<1> QED
  BY <1>1, <1>5, <1>6, <1>7 DEF before, last

LEMMA BatchesTyped == Batches \in Seq(Batch) /\ DOMAIN Batches = 1 .. BatchCount
<1>1. BatchCount \in Nat \ {0}
  BY CandidateFacts, ReviewAssumption, BatchArithmetic DEF BatchCount
<1>2. DOMAIN Batches = 1 .. BatchCount
  BY DEF Batches
<1>3. \A b \in 1 .. BatchCount : Batches[b] \in Batch
  BY BatchContents
<1> QED
  BY <1>1, <1>2, <1>3 DEF Batches

\* The halves of a batch that is split are batches.
LEMMA HalvesTyped ==
  ASSUME NEW batch \in Batch, Len(batch) # 1
  PROVE  Halves(batch) \in Seq(Batch)
<1> DEFINE n == Len(batch)
           mid == Midpoint(batch)
<1>1. batch \in Seq(Claims) /\ n \in 2 .. BatchSize /\ BatchSize \in Nat
  <2>1. batch \in Seq(Claims) /\ Len(batch) \in 1 .. BatchSize
    BY DEF Batch
  <2>2. BatchSize \in Nat
    BY ReviewAssumption
  <2>3. n \in 2 .. BatchSize
    <3>1. n \in Int /\ 1 <= n /\ n <= BatchSize /\ n # 1
      BY <2>1, <2>2
    <3> HIDE DEF n
    <3> QED
      BY <2>2, <3>1
  <2> QED
    BY <2>1, <2>2, <2>3
<1>2. mid \in 1 .. n - 1
  BY <1>1 DEF Midpoint
<1>3. \A i \in 1 .. n : batch[i] \in Claims
  BY <1>1, ElementOfSeq
<1> HIDE DEF n, mid
<1>4. SubSeq(batch, 1, mid) \in Batch
  <2>1. \A i \in 1 .. mid : batch[i] \in Claims
    BY <1>1, <1>2, <1>3
  <2>2. SubSeq(batch, 1, mid) \in Seq(Claims) /\ Len(SubSeq(batch, 1, mid)) = mid
    BY <1>1, <1>2, <2>1, SubSeqProperties
  <2> QED
    BY <1>1, <1>2, <2>2 DEF Batch
<1>5. SubSeq(batch, mid + 1, n) \in Batch
  <2>1. \A i \in mid + 1 .. n : batch[i] \in Claims
    BY <1>1, <1>2, <1>3
  <2>2. SubSeq(batch, mid + 1, n) \in Seq(Claims) /\ Len(SubSeq(batch, mid + 1, n)) = n - mid
    BY <1>1, <1>2, <2>1, SubSeqProperties
  <2> QED
    BY <1>1, <1>2, <2>2 DEF Batch
<1> QED
  BY <1>4, <1>5 DEF Halves, n, mid

-------------------------------------------------------------------------------
(* The governance.                                                         *)

LEMMA VerdictTyped ==
  ASSUME NEW o \in Opinion
  PROVE  Screened(o).decision \in Verdicts /\ Screened(o).reason \in Reasons
BY DEF Screened, Verdict, Verdicts, Reasons, Opinion

LEMMA RowTyped ==
  ASSUME NEW decided \in Seq(Decisions), NEW i \in DOMAIN decided
  PROVE  Row(decided, i) \in Rows
<1>1. decided[i] \in Decisions
  BY ElementOfSeq, LenProperties
<1>2. decided[i].claim \in Claims /\ decided[i].opinion \in Opinion
  BY <1>1 DEF Decisions
<1>3. /\ Unique(decided, i).decision \in Verdicts
      /\ Unique(decided, i).reason \in Reasons
  BY <1>2, VerdictTyped DEF Unique, Verdict, Verdicts, Reasons
<1> QED
  BY <1>2, <1>3 DEF Row, Rows, Verdict, Verdicts, Reasons

LEMMA GovernedTyped ==
  ASSUME NEW decided \in Seq(Decisions)
  PROVE  Governed(decided) \in Seq(Rows)
BY RowTyped, LenProperties DEF Governed

\* Whatever an answer says, in whatever order: only sound claims compete for
\* the pack, and one per fact.
LEMMA GovernanceIsSound ==
  ASSUME NEW decided \in Seq(Decisions), NEW rows, rows = Governed(decided)
  PROVE  /\ \A i \in Contenders(rows) :
              LET o == rows[i].opinion IN
              o.decision = "agent_approved" /\ ~ o.risky /\ ~ o.corrected /\ ~ o.inferred
         /\ \A i, j \in Contenders(rows) :
              FactOf[rows[i].claim] = FactOf[rows[j].claim] => i = j
<1>1. DOMAIN rows = DOMAIN decided /\ DOMAIN decided = 1 .. Len(decided) /\ Len(decided) \in Nat
  BY LenProperties DEF Governed
<1>2. \A i \in DOMAIN rows : rows[i] = Row(decided, i)
  BY <1>1 DEF Governed
<1>3. ASSUME NEW i \in Contenders(rows)
      PROVE  i \in Approvals(decided)
  <2>1. i \in DOMAIN decided /\ rows[i] = Row(decided, i)
    BY <1>1, <1>2 DEF Contenders, Approved
  <2>2. rows[i].decision = "agent_approved" \/ rows[i].reason = "low_priority"
    BY DEF Contenders, Approved
  <2>3. CASE Excess(decided, i)
    BY <2>3 DEF Excess
  <2>4. CASE ~ Excess(decided, i)
    <3>1. rows[i].decision = Unique(decided, i).decision /\ rows[i].reason = Unique(decided, i).reason
      BY <2>1, <2>4 DEF Row
    <3>2. Unique(decided, i).reason # "low_priority"
      BY DEF Unique, Screened, Verdict
    <3> QED
      BY <2>1, <2>2, <3>1, <3>2 DEF Approvals
  <2> QED
    BY <2>3, <2>4
<1>4. ASSUME NEW i \in Approvals(decided)
      PROVE  /\ i \in DOMAIN decided
             /\ ~ Duplicate(decided, i)
             /\ Screened(decided[i].opinion).decision = "agent_approved"
  BY DEF Approvals, Unique, Verdict
<1>5. ASSUME NEW o, Screened(o).decision = "agent_approved"
      PROVE  o.decision = "agent_approved" /\ ~ o.risky /\ ~ o.corrected /\ ~ o.inferred
  BY <1>5 DEF Screened, Verdict
<1>6. \A i \in DOMAIN decided :
        rows[i].opinion = decided[i].opinion /\ rows[i].claim = decided[i].claim
  BY <1>1, <1>2 DEF Row
<1>7. ASSUME NEW i \in Contenders(rows), NEW j \in Contenders(rows),
             FactOf[rows[i].claim] = FactOf[rows[j].claim]
      PROVE  i = j
  <2>1. /\ i \in DOMAIN decided /\ ~ Duplicate(decided, i)
        /\ j \in DOMAIN decided /\ ~ Duplicate(decided, j)
    BY <1>3, <1>4
  <2>2. FactOf[decided[i].claim] = FactOf[decided[j].claim]
    BY <1>6, <1>7, <2>1
  <2>3. CASE i < j
    BY <1>1, <2>1, <2>2, <2>3 DEF Duplicate
  <2>4. CASE j < i
    BY <1>1, <2>1, <2>2, <2>4 DEF Duplicate
  <2> QED
    BY <1>1, <2>1, <2>3, <2>4
<1> QED
  BY <1>3, <1>4, <1>5, <1>6, <1>7

-------------------------------------------------------------------------------
(* Types.                                                                  *)

LEMMA TaskTyped ==
  ASSUME TypeOK, NEW w \in Workers, task[w] # NoTask
  PROVE  /\ task[w] \in Tasks
         /\ task[w].run \in Runs
         /\ task[w].step \in Steps
         /\ task[w].pending \in Seq(Batch)
         /\ task[w].decided \in Seq(Decisions)
BY DEF TypeOK, Tasks

\* What an accepted answer adds are decisions about the claims of its batch.
LEMMA AnswerTyped ==
  ASSUME NEW batch \in Batch, NEW order \in Orders(batch),
         NEW said \in {o \in [DOMAIN order -> UNION {Opinions[c] : c \in Claims}] :
                         \A i \in DOMAIN order : o[i] \in Opinions[order[i]]}
  PROVE  [i \in DOMAIN order |-> [claim |-> order[i], opinion |-> said[i]]] \in Seq(Decisions)
<1>1. batch \in Seq(Claims) /\ Len(batch) \in Nat /\ DOMAIN batch = 1 .. Len(batch)
  BY LenProperties DEF Batch
<1>2. DOMAIN order = DOMAIN batch /\ \A i \in DOMAIN order : order[i] \in Claims
  <2>1. \A i \in DOMAIN batch : batch[i] \in Claims
    BY <1>1, ElementOfSeq
  <2> QED
    BY <2>1 DEF Orders
<1>3. \A i \in DOMAIN order : said[i] \in Opinion
  BY <1>2, ReviewAssumption
<1>4. \A i \in DOMAIN order : [claim |-> order[i], opinion |-> said[i]] \in Decisions
  BY <1>2, <1>3 DEF Decisions
<1> QED
  BY <1>1, <1>2, <1>4

LEMMA WorksTyped ==
  ASSUME TypeOK, NEW w \in Workers, task[w] # NoTask, NEW step \in Steps,
         NEW pending \in Seq(Batch), NEW decided \in Seq(Decisions),
         Works(w, step, pending, decided)
  PROVE  task' \in [Workers -> Tasks \cup {NoTask}]
BY TaskTyped DEF Works, TypeOK, Tasks

LEMMA MovesTyped ==
  ASSUME TypeOK, NEW w \in Workers, task[w] # NoTask, NEW step \in Steps, Moves(w, step)
  PROVE  task' \in [Workers -> Tasks \cup {NoTask}]
BY TaskTyped, WorksTyped DEF Moves

LEMMA ReturnsTyped ==
  ASSUME TypeOK, NEW w \in Workers, task[w] # NoTask, Returns(w)
  PROVE  task' \in [Workers -> Tasks \cup {NoTask}]
<1>1. <<>> \in Seq(Decisions) /\ <<>> \in Seq(Batch) /\ "returning" \in Steps
  BY DEF Steps
<1> QED
  BY <1>1, WorksTyped DEF Returns

LEMMA RaisesTyped ==
  ASSUME TypeOK, NEW w \in Workers, task[w] # NoTask,
         NEW outcome \in {"pending", "succeeded", "failed"}, Raises(w, outcome)
  PROVE  TypeOK'
<1>1. task[w].run \in Runs
  BY TaskTyped
<1> QED
  BY <1>1 DEF TypeOK, Raises

LEMMA TypeInvariant == TypeOK /\ [Next]_vars => TypeOK'
<1> SUFFICES ASSUME TypeOK, [Next]_vars PROVE TypeOK'
  OBVIOUS
<1>1. ASSUME NEW k \in Runs, RetryRun(k) PROVE TypeOK'
  BY <1>1 DEF RetryRun, TypeOK
<1>2. ASSUME NEW k \in Runs, NEW w \in Workers, Start(w, k) PROVE TypeOK'
  <2>1. [run |-> k, step |-> "looking", pending |-> <<>>, decided |-> <<>>] \in Tasks
    BY DEF Tasks, Steps
  <2> QED
    BY <1>2, <2>1 DEF Start, TypeOK
<1>3. ASSUME NEW w \in Workers, FindCompleted(w) PROVE TypeOK'
  <2>1. task' \in [Workers -> Tasks \cup {NoTask}]
    BY <1>3, ReturnsTyped DEF FindCompleted, At
  <2> QED
    BY <1>3, <2>1 DEF FindCompleted, TypeOK
<1>4. ASSUME NEW w \in Workers, LoadCandidates(w) PROVE TypeOK'
  <2>1. task[w] # NoTask
    BY <1>4 DEF LoadCandidates, At
  <2>2. "reviewing" \in Steps /\ <<>> \in Seq(Decisions)
    BY DEF Steps
  <2>3. task' \in [Workers -> Tasks \cup {NoTask}]
    BY <1>4, <2>1, <2>2, BatchesTyped, WorksTyped DEF LoadCandidates
  <2> QED
    BY <1>4, <2>3 DEF LoadCandidates, TypeOK
<1>5. ASSUME NEW w \in Workers, BatchAnswered(w) PROVE TypeOK'
  <2> DEFINE batch == Head(task[w].pending)
  <2>1. task[w] # NoTask /\ task[w].step = "reviewing" /\ task[w].pending # <<>>
    BY <1>5 DEF BatchAnswered, At
  <2>2. task[w].pending \in Seq(Batch) /\ task[w].decided \in Seq(Decisions)
    BY <2>1, TaskTyped
  <2>3. batch \in Batch /\ Tail(task[w].pending) \in Seq(Batch)
    BY <2>1, <2>2, HeadTailProperties
  <2>4. PICK order \in Orders(batch) :
        \E said \in {o \in [DOMAIN order -> UNION {Opinions[c] : c \in Claims}] :
                       \A i \in DOMAIN order : o[i] \in Opinions[order[i]]} :
          Works(w, "reviewing", Tail(task[w].pending), task[w].decided \o
            [i \in DOMAIN order |-> [claim |-> order[i], opinion |-> said[i]]])
    BY <1>5 DEF BatchAnswered
  <2>5. PICK said \in {o \in [DOMAIN order -> UNION {Opinions[c] : c \in Claims}] :
                         \A i \in DOMAIN order : o[i] \in Opinions[order[i]]} :
          Works(w, "reviewing", Tail(task[w].pending), task[w].decided \o
            [i \in DOMAIN order |-> [claim |-> order[i], opinion |-> said[i]]])
    BY <2>4
  <2> DEFINE added == [i \in DOMAIN order |-> [claim |-> order[i], opinion |-> said[i]]]
  <2>6. added \in Seq(Decisions)
    BY <2>3, <2>5, AnswerTyped
  <2>7. task[w].decided \o added \in Seq(Decisions)
    BY <2>2, <2>6, ConcatProperties
  <2>8. Works(w, "reviewing", Tail(task[w].pending), task[w].decided \o added)
    BY <2>5
  <2>9. task' \in [Workers -> Tasks \cup {NoTask}]
    <3>1. "reviewing" \in Steps
      BY DEF Steps
    <3> HIDE DEF added, batch
    <3> QED
      BY <2>1, <2>3, <2>7, <2>8, <3>1, WorksTyped
  <2> QED
    BY <1>5, <2>9 DEF BatchAnswered, TypeOK
<1>6. ASSUME NEW w \in Workers, BatchFails(w) PROVE TypeOK'
  <2> DEFINE pending == Halves(Head(task[w].pending)) \o Tail(task[w].pending)
  <2>1. task[w] # NoTask /\ task[w].pending # <<>> /\ Len(Head(task[w].pending)) # 1
    BY <1>6 DEF BatchFails, At
  <2>2. Head(task[w].pending) \in Batch /\ Tail(task[w].pending) \in Seq(Batch)
    BY <2>1, TaskTyped, HeadTailProperties
  <2>3. pending \in Seq(Batch)
    BY <2>1, <2>2, HalvesTyped, ConcatProperties
  <2>4. Works(w, "reviewing", pending, task[w].decided)
    BY <1>6 DEF BatchFails
  <2>5. task' \in [Workers -> Tasks \cup {NoTask}]
    <3>1. "reviewing" \in Steps
      BY DEF Steps
    <3> HIDE DEF pending
    <3> QED
      BY <2>1, <2>3, <2>4, <3>1, TaskTyped, WorksTyped
  <2> QED
    BY <1>6, <2>5 DEF BatchFails, TypeOK
<1>7. ASSUME NEW w \in Workers, ClaimFails(w) PROVE TypeOK'
  BY <1>7, RaisesTyped DEF ClaimFails, At
<1>8. ASSUME NEW w \in Workers, FindOwn(w) PROVE TypeOK'
  <2>1. task[w] # NoTask /\ "persisting" \in Steps
    BY <1>8 DEF FindOwn, At, Steps
  <2>2. Returns(w) \/ Moves(w, "persisting")
    BY <1>8 DEF FindOwn
  <2>3. task' \in [Workers -> Tasks \cup {NoTask}]
    BY <2>1, <2>2, ReturnsTyped, MovesTyped
  <2> QED
    BY <1>8, <2>3 DEF FindOwn, TypeOK
<1>9. ASSUME NEW w \in Workers, Persist(w) PROVE TypeOK'
  <2>1. task[w] # NoTask
    BY <1>9 DEF Persist, At
  <2>2. task' \in [Workers -> Tasks \cup {NoTask}]
    BY <1>9, <2>1, ReturnsTyped DEF Persist
  <2>3. Governed(task[w].decided) \in Seq(Rows) /\ task[w].run \in Runs
    BY <2>1, TaskTyped, GovernedTyped
  <2>4. review' = [review EXCEPT ![task[w].run] = Governed(task[w].decided)] /\ status' = status
    BY <1>9 DEF Persist
  <2> QED
    BY <2>2, <2>3, <2>4 DEF TypeOK
<1>10. ASSUME NEW w \in Workers, PersistRefused(w) PROVE TypeOK'
  BY <1>10, RaisesTyped DEF PersistRefused, At
<1>11. ASSUME NEW w \in Workers, Finish(w) PROVE TypeOK'
  BY <1>11, RaisesTyped DEF Finish, At
<1>12. ASSUME NEW w \in Workers, Interrupted(w) PROVE TypeOK'
  BY <1>12, RaisesTyped DEF Interrupted
<1>13. CASE UNCHANGED vars
  BY <1>13 DEF vars, TypeOK
<1> QED
  BY <1>1, <1>2, <1>3, <1>4, <1>5, <1>6, <1>7, <1>8, <1>9, <1>10, <1>11, <1>12, <1>13
  DEF Next, Execute

\* However many claims there are and however requests are split and answered,
\* no request is empty or larger than an answer may be, and every row has its type.
THEOREM ReviewTypeCorrect == Spec => []TypeOK
<1>1. Init => TypeOK
  BY DEF Init, TypeOK
<1> QED
  BY <1>1, TypeInvariant, PTL DEF Spec

-------------------------------------------------------------------------------
(* The reviews.                                                            *)

\* Only persist writes a review, and it writes the only one.
LEMMA ReviewSteps ==
  ASSUME [Next]_vars
  PROVE  \/ review' = review
         \/ \E w \in Workers : Persist(w)
BY DEF Next, Execute, RetryRun, Start, FindCompleted, LoadCandidates, BatchAnswered,
       BatchFails, ClaimFails, FindOwn, PersistRefused, Finish, Interrupted, Raises, vars

\* Whatever runs and processes do, and whatever the model says the second
\* time, the first review of an extraction is never joined, replaced or changed.
THEOREM FirstReviewAlwaysStands == Spec => FirstReviewStands
<1>1. [Next]_vars => [(\E k \in Runs : review[k] # NoReview) => review' = review]_vars
  BY ReviewSteps DEF Persist, Accepted, Insertable
<1> QED
  BY <1>1, PTL DEF Spec, FirstReviewStands

ReviewsGoverned ==
  \A k \in Runs : review[k] # NoReview =>
    \E decided \in Seq(Decisions) : review[k] = Governed(decided)

LEMMA GovernedInvariant ==
  TypeOK /\ ReviewsGoverned /\ [Next]_vars => ReviewsGoverned'
<1> SUFFICES ASSUME TypeOK, ReviewsGoverned, [Next]_vars PROVE ReviewsGoverned'
  OBVIOUS
<1>1. CASE review' = review
  BY <1>1 DEF ReviewsGoverned
<1>2. ASSUME NEW w \in Workers, Persist(w) PROVE ReviewsGoverned'
  <2>1. task[w].decided \in Seq(Decisions) /\ task[w].run \in Runs
    BY <1>2, TaskTyped DEF Persist, At
  <2>2. review' = [review EXCEPT ![task[w].run] = Governed(task[w].decided)]
    BY <1>2 DEF Persist
  <2> QED
    BY <2>1, <2>2 DEF ReviewsGoverned, TypeOK
<1> QED
  BY <1>1, <1>2, ReviewSteps

\* For any claims, answers and orders: what a pack offers a human is sound,
\* and no two claims of one fact compete for its places.
THEOREM ApprovalsAlwaysSound == Spec => []ApprovalsAreSound
<1>1. Init => TypeOK /\ ReviewsGoverned
  BY DEF Init, TypeOK, ReviewsGoverned
<1>2. ReviewsGoverned => ApprovalsAreSound
  BY GovernanceIsSound DEF ReviewsGoverned, ApprovalsAreSound
<1> QED
  BY <1>1, <1>2, TypeInvariant, GovernedInvariant, PTL DEF Spec

-------------------------------------------------------------------------------
(* What a success rests on.                                                *)

SomeSuccess == \E j \in Runs : status[j] = "succeeded" /\ review[j] # NoReview

\* A handler returns with its own review, or because a run succeeded with one.
ReturnsRest ==
  \A w \in Workers : task[w] # NoTask /\ task[w].step = "returning" =>
    SomeSuccess \/ review[task[w].run] # NoReview

SuccessInv == TypeOK /\ ReturnsRest /\ SuccessHasReview

\* A success and a review are for ever.
LEMMA SuccessStays ==
  ASSUME SuccessInv, [Next]_vars
  PROVE  /\ \A k \in Runs : status[k] = "succeeded" => status'[k] = "succeeded"
         /\ \A k \in Runs : review[k] # NoReview => review'[k] = review[k]
         /\ SomeSuccess => SomeSuccess'
<1>1. \A k \in Runs : review[k] # NoReview => review'[k] = review[k]
  BY ReviewSteps DEF Persist, Accepted, Insertable
<1>2. \A k \in Runs : status[k] = "succeeded" => status'[k] = "succeeded"
  <2>1. ASSUME NEW w \in Workers, NEW outcome \in {"pending", "succeeded", "failed"},
               task[w] # NoTask, Raises(w, outcome)
        PROVE  \A k \in Runs : status[k] = "succeeded" => status'[k] = "succeeded"
    BY <2>1 DEF Raises, SuccessInv, TypeOK
  <2>2. ASSUME NEW k \in Runs, RetryRun(k)
        PROVE  \A j \in Runs : status[j] = "succeeded" => status'[j] = "succeeded"
    BY <2>2 DEF RetryRun, SuccessInv, TypeOK
  <2> QED
    BY <2>1, <2>2
    DEF Next, Execute, Start, FindCompleted, LoadCandidates, BatchAnswered, BatchFails,
        ClaimFails, FindOwn, Persist, PersistRefused, Finish, Interrupted, At, vars
<1> QED
  BY <1>1, <1>2 DEF SomeSuccess

\* A step at which no handler comes to return and no run succeeds.
LEMMA QuietStep ==
  ASSUME SuccessInv, [Next]_vars,
         \A w \in Workers : task'[w] # NoTask /\ task'[w].step = "returning" =>
           task[w] # NoTask /\ task[w].step = "returning" /\ task'[w].run = task[w].run,
         \A k \in Runs : status'[k] = "succeeded" => status[k] = "succeeded"
  PROVE  ReturnsRest' /\ SuccessHasReview'
<1>1. ReturnsRest'
  <2> SUFFICES ASSUME NEW w \in Workers, task'[w] # NoTask, task'[w].step = "returning"
               PROVE  SomeSuccess' \/ review'[task'[w].run] # NoReview
    BY DEF ReturnsRest
  <2>1. task[w] # NoTask /\ task[w].step = "returning" /\ task'[w].run = task[w].run
    OBVIOUS
  <2>2. task[w].run \in Runs
    BY <2>1, TaskTyped DEF SuccessInv
  <2> QED
    BY <2>1, <2>2, SuccessStays DEF SuccessInv, ReturnsRest
<1>2. SuccessHasReview'
  BY SuccessStays DEF SuccessInv, SuccessHasReview, SomeSuccess
<1> QED
  BY <1>1, <1>2

LEMMA SuccessInvariant == SuccessInv /\ [Next]_vars => SuccessInv'
<1> SUFFICES ASSUME SuccessInv, [Next]_vars PROVE SuccessInv'
  OBVIOUS
<1>1. TypeOK'
  BY TypeInvariant DEF SuccessInv
<1>2. ASSUME NEW w \in Workers, NEW outcome \in {"pending", "failed"},
             task[w] # NoTask, Raises(w, outcome)
      PROVE  ReturnsRest' /\ SuccessHasReview'
  <2>1. \A k \in Runs : status'[k] = "succeeded" => status[k] = "succeeded"
    BY <1>2 DEF Raises, SuccessInv, TypeOK
  <2>2. \A v \in Workers : task'[v] # NoTask => task'[v] = task[v]
    BY <1>2 DEF Raises, SuccessInv, TypeOK
  <2> QED
    BY <2>1, <2>2, QuietStep
<1>3. ASSUME NEW w \in Workers, task[w] # NoTask, status' = status,
             NEW step \in Steps \ {"returning"}, NEW pending, NEW decided,
             Works(w, step, pending, decided)
      PROVE  ReturnsRest' /\ SuccessHasReview'
  <2>1. \A v \in Workers : task'[v] # NoTask /\ task'[v].step = "returning" =>
          v # w /\ task'[v] = task[v]
    BY <1>3 DEF Works, SuccessInv, TypeOK
  <2> QED
    BY <1>3, <2>1, QuietStep
<1>4. ASSUME NEW w \in Workers, task[w] # NoTask, status' = status, Returns(w),
             SomeSuccess \/ review'[task[w].run] # NoReview
      PROVE  ReturnsRest' /\ SuccessHasReview'
  <2>1. task'[w].run = task[w].run
    BY <1>4 DEF Returns, Works, SuccessInv, TypeOK
  <2>2. \A v \in Workers \ {w} : task'[v] = task[v]
    BY <1>4 DEF Returns, Works, SuccessInv, TypeOK
  <2>3. ReturnsRest'
    <3> SUFFICES ASSUME NEW v \in Workers, task'[v] # NoTask, task'[v].step = "returning"
                 PROVE  SomeSuccess' \/ review'[task'[v].run] # NoReview
      BY DEF ReturnsRest
    <3>1. CASE v = w
      BY <1>4, <2>1, <3>1, SuccessStays
    <3>2. CASE v # w
      <4>1. task'[v] = task[v] /\ task[v].run \in Runs
        BY <2>2, <3>2, TaskTyped DEF SuccessInv
      <4> QED
        BY <4>1, SuccessStays DEF SuccessInv, ReturnsRest
    <3> QED
      BY <3>1, <3>2
  <2>4. SuccessHasReview'
    BY <1>4, SuccessStays DEF SuccessInv, SuccessHasReview, SomeSuccess
  <2> QED
    BY <2>3, <2>4
<1>5. ASSUME NEW w \in Workers, Finish(w)
      PROVE  ReturnsRest' /\ SuccessHasReview'
  <2>1. task[w] # NoTask /\ task[w].step = "returning" /\ task[w].run \in Runs
    BY <1>5, TaskTyped DEF Finish, At, SuccessInv
  <2>2. \A v \in Workers : task'[v] # NoTask => task'[v] = task[v]
    BY <1>5 DEF Finish, Raises, SuccessInv, TypeOK
  <2>3. CASE status[task[w].run] # "pending"
    <3>1. status' = status
      BY <1>5, <2>1, <2>3 DEF Finish, Raises, SuccessInv, TypeOK
    <3> QED
      BY <2>2, <3>1, QuietStep
  <2>4. CASE status[task[w].run] = "pending"
    <3>1. status'[task[w].run] = "succeeded" /\ review' = review
      BY <1>5, <2>1, <2>4 DEF Finish, Raises, SuccessInv, TypeOK
    <3>2. SomeSuccess'
      <4>1. SomeSuccess \/ review[task[w].run] # NoReview
        BY <2>1 DEF SuccessInv, ReturnsRest
      <4> QED
        BY <2>1, <3>1, <4>1, SuccessStays DEF SomeSuccess
    <3> QED
      BY <3>2 DEF ReturnsRest, SuccessHasReview, SomeSuccess
  <2> QED
    BY <2>3, <2>4
<1>6. ASSUME NEW k \in Runs, RetryRun(k)
      PROVE  ReturnsRest' /\ SuccessHasReview'
  <2>1. \A j \in Runs : status'[j] = "succeeded" => status[j] = "succeeded"
    BY <1>6 DEF RetryRun, SuccessInv, TypeOK
  <2> QED
    BY <1>6, <2>1, QuietStep DEF RetryRun
<1>7. ASSUME NEW k \in Runs, NEW w \in Workers, Start(w, k)
      PROVE  ReturnsRest' /\ SuccessHasReview'
  <2>1. \A v \in Workers : task'[v] # NoTask /\ task'[v].step = "returning" => task'[v] = task[v]
    BY <1>7 DEF Start, SuccessInv, TypeOK
  <2> QED
    BY <1>7, <2>1, QuietStep DEF Start
<1>8. ASSUME NEW w \in Workers, Execute(w)
      PROVE  ReturnsRest' /\ SuccessHasReview'
  <2>1. CASE FindCompleted(w)
    BY <1>4, <2>1 DEF FindCompleted, At, Completed, SomeSuccess
  <2>2. CASE LoadCandidates(w)
    BY <1>3, <2>2 DEF LoadCandidates, At, Steps
  <2>3. CASE BatchAnswered(w)
    BY <1>3, <2>3 DEF BatchAnswered, At, Steps
  <2>4. CASE BatchFails(w)
    BY <1>3, <2>4 DEF BatchFails, At, Steps
  <2>5. CASE ClaimFails(w)
    BY <1>2, <2>5 DEF ClaimFails, At
  <2>6. CASE FindOwn(w)
    BY <1>3, <1>4, <2>6 DEF FindOwn, At, Moves, Steps
  <2>7. CASE Persist(w)
    <3>1. task[w] # NoTask /\ task[w].run \in Runs /\ task[w].decided \in Seq(Decisions)
      BY <2>7, TaskTyped DEF Persist, At, SuccessInv
    <3>2. Governed(task[w].decided) # NoReview
      BY <3>1, GovernedTyped, NullAssumption
    <3>3. review'[task[w].run] # NoReview
      BY <2>7, <3>1, <3>2 DEF Persist, SuccessInv, TypeOK
    <3> QED
      BY <1>4, <2>7, <3>1, <3>3 DEF Persist
  <2>8. CASE PersistRefused(w)
    BY <1>2, <2>8 DEF PersistRefused, At
  <2>9. CASE Finish(w)
    BY <1>5, <2>9
  <2> QED
    BY <1>8, <2>1, <2>2, <2>3, <2>4, <2>5, <2>6, <2>7, <2>8, <2>9 DEF Execute
<1>9. ASSUME NEW w \in Workers, Interrupted(w)
      PROVE  ReturnsRest' /\ SuccessHasReview'
  BY <1>2, <1>9 DEF Interrupted
<1>10. ASSUME UNCHANGED vars PROVE ReturnsRest' /\ SuccessHasReview'
  <2>1. status' = status /\ task' = task
    BY <1>10 DEF vars
  <2>2. \A v \in Workers : task'[v] # NoTask /\ task'[v].step = "returning" =>
          task[v] # NoTask /\ task[v].step = "returning" /\ task'[v].run = task[v].run
    BY <2>1
  <2>3. \A k \in Runs : status'[k] = "succeeded" => status[k] = "succeeded"
    BY <2>1
  <2> QED
    BY <2>2, <2>3, QuietStep
<1>11. ReturnsRest' /\ SuccessHasReview'
  <2>1. CASE \E k \in Runs : RetryRun(k)
    BY <1>6, <2>1
  <2>2. CASE \E k \in Runs, w \in Workers : Start(w, k)
    BY <1>7, <2>2
  <2>3. CASE \E w \in Workers : Execute(w) \/ Interrupted(w)
    BY <1>8, <1>9, <2>3
  <2> QED
    BY <1>10, <2>1, <2>2, <2>3 DEF Next
<1> QED
  BY <1>1, <1>11 DEF SuccessInv

\* A run that succeeds without a review of its own leans on one whose run
\* succeeded, through any crashes, retries and races.
THEOREM SuccessAlwaysHasReview == Spec => []SuccessHasReview
<1>1. Init => SuccessInv
  <2>1. Init => TypeOK
    BY DEF Init, TypeOK
  <2>2. Init => ReturnsRest
    BY DEF Init, ReturnsRest
  <2>3. Init => SuccessHasReview
    BY DEF Init, SuccessHasReview
  <2> QED
    BY <2>1, <2>2, <2>3 DEF SuccessInv
<1>2. SuccessInv => SuccessHasReview
  BY DEF SuccessInv
<1> QED
  BY <1>1, <1>2, SuccessInvariant, PTL DEF Spec


-------------------------------------------------------------------------------
(* Each claim once.                                                        *)

Waits(pending, c) == \E b \in DOMAIN pending : \E i \in DOMAIN pending[b] : pending[b][i] = c
IsDecided(decided, c) == \E j \in DOMAIN decided : decided[j].claim = c

\* No claim has two places in the batches.
Placed(pending) ==
  \A b, d \in DOMAIN pending : \A i \in DOMAIN pending[b], j \in DOMAIN pending[d] :
    pending[b][i] = pending[d][j] => b = d /\ i = j

\* Every claim waits at one place of one batch, or one decision is about it.
Partition(pending, decided) ==
  /\ Placed(pending)
  /\ OneRowPerClaim(decided)
  /\ \A c \in Claims : ~ (Waits(pending, c) /\ IsDecided(decided, c))
  /\ \A c \in Claims : Waits(pending, c) \/ IsDecided(decided, c)

\* A batch ends before the next begins.
LEMMA BatchesApart ==
  ASSUME NEW b \in Nat, NEW d \in Nat, b < d, NEW size \in Nat
  PROVE  (b - 1) * size + size <= (d - 1) * size
<1>1. d - 1 - b \in Nat
  OBVIOUS
<1>2. (d - 1 - b) * size \in Nat
  BY <1>1
<1>3. (d - 1) * size = (d - 1 - b) * size + ((b - 1) * size + size)
  OBVIOUS
<1> QED
  BY <1>2, <1>3

\* The batch of a position among all claims.
LEMMA BatchOfPosition ==
  ASSUME NEW p \in 1 .. Len(Candidates)
  PROVE  \E b \in 1 .. BatchCount : p - (b - 1) * BatchSize \in 1 .. LastOf(b) - (b - 1) * BatchSize
<1> DEFINE n == Len(Candidates)
           before == (p - 1) \div BatchSize
           q == BatchCount
<1>1. n \in Nat \ {0} /\ BatchSize \in Nat \ {0} /\ p \in 1 .. n
  BY CandidateFacts, ReviewAssumption
<1>2. q \in Nat \ {0} /\ n <= q * BatchSize
  BY <1>1, BatchArithmetic DEF BatchCount
<1>3. before \in Nat /\ before * BatchSize <= p - 1 /\ p - 1 < before * BatchSize + BatchSize
  <2>1. before \in Int /\ before * BatchSize <= p - 1 /\ p - 1 < before * BatchSize + BatchSize
    BY <1>1, Z3
  <2>2. before >= 0
    BY <1>1
  <2> QED
    BY <2>1, <2>2
<1> HIDE DEF n, before, q
<1>4. before < q
  <2> SUFFICES ASSUME before >= q PROVE FALSE
    BY <1>2, <1>3
  <2>1. (before - q) * BatchSize \in Nat
    BY <1>1, <1>2, <1>3
  <2>2. before * BatchSize = (before - q) * BatchSize + q * BatchSize
    BY <1>1, <1>2, <1>3
  <2> QED
    BY <1>1, <1>2, <1>3, <2>1, <2>2
<1>5. before + 1 \in 1 .. q /\ (before + 1) - 1 = before
  BY <1>2, <1>3, <1>4
<1>6. before * BatchSize \in Nat
  BY <1>1, <1>3
<1>7. LastOf(before + 1) \in {n, before * BatchSize + BatchSize} /\ LastOf(before + 1) \in Nat
  BY <1>1, <1>5, <1>6, BatchPlaces DEF n, q
<1>8. p - before * BatchSize \in 1 .. LastOf(before + 1) - before * BatchSize
  BY <1>1, <1>3, <1>6, <1>7
<1> QED
  BY <1>5, <1>8 DEF q

LEMMA LoadedPartition == Partition(Batches, <<>>)
<1>1. DOMAIN Batches = 1 .. BatchCount
  BY BatchesTyped
<1>2. /\ DOMAIN Candidates = 1 .. Len(Candidates) /\ Len(Candidates) \in Nat
      /\ BatchSize \in Nat \ {0} /\ BatchCount \in Nat
      /\ \A i, j \in DOMAIN Candidates : Candidates[i] = Candidates[j] => i = j
  BY CandidateFacts, ReviewAssumption, BatchArithmetic, LenProperties DEF BatchCount
<1>3. ASSUME NEW b \in DOMAIN Batches, NEW i \in DOMAIN Batches[b]
      PROVE  /\ i \in 1 .. BatchSize /\ (b - 1) * BatchSize \in Nat
             /\ (b - 1) * BatchSize + i \in 1 .. Len(Candidates)
             /\ Batches[b][i] = Candidates[(b - 1) * BatchSize + i]
  <2> DEFINE before == (b - 1) * BatchSize
  <2>1. /\ before \in Nat /\ LastOf(b) \in before + 1 .. Len(Candidates)
        /\ LastOf(b) - before \in 1 .. BatchSize
    BY <1>1, BatchPlaces
  <2>2. i \in 1 .. LastOf(b) - before /\ Batches[b][i] = Candidates[before + i]
    BY <1>1, BatchContents
  <2> HIDE DEF before
  <2>3. i \in 1 .. BatchSize /\ before + i \in 1 .. Len(Candidates)
    BY <1>2, <2>1, <2>2
  <2> QED
    BY <2>1, <2>2, <2>3 DEF before
<1>4. Placed(Batches)
  <2> SUFFICES ASSUME NEW b \in DOMAIN Batches, NEW d \in DOMAIN Batches,
                      NEW i \in DOMAIN Batches[b], NEW j \in DOMAIN Batches[d],
                      Batches[b][i] = Batches[d][j]
               PROVE  b = d /\ i = j
    BY DEF Placed
  <2>1. (b - 1) * BatchSize + i = (d - 1) * BatchSize + j
    BY <1>2, <1>3
  <2>2. i \in 1 .. BatchSize /\ j \in 1 .. BatchSize /\ b \in Nat /\ d \in Nat
        /\ (b - 1) * BatchSize \in Nat /\ (d - 1) * BatchSize \in Nat
    BY <1>1, <1>2, <1>3
  <2>3. CASE b < d
    <3>1. (b - 1) * BatchSize + BatchSize <= (d - 1) * BatchSize
      BY <1>2, <2>2, <2>3, BatchesApart
    <3> QED
      BY <1>2, <2>1, <2>2, <3>1
  <2>4. CASE d < b
    <3>1. (d - 1) * BatchSize + BatchSize <= (b - 1) * BatchSize
      BY <1>2, <2>2, <2>4, BatchesApart
    <3> QED
      BY <1>2, <2>1, <2>2, <3>1
  <2>5. CASE b = d
    BY <2>1, <2>2, <2>5
  <2> QED
    BY <2>2, <2>3, <2>4, <2>5
<1>5. ASSUME NEW c \in Claims PROVE Waits(Batches, c)
  <2>1. PICK p \in 1 .. Len(Candidates) : Candidates[p] = c
    BY <1>2 DEF Claims
  <2>2. PICK b \in 1 .. BatchCount :
          p - (b - 1) * BatchSize \in 1 .. LastOf(b) - (b - 1) * BatchSize
    BY BatchOfPosition
  <2> DEFINE before == (b - 1) * BatchSize
             i == p - before
  <2>3. i \in DOMAIN Batches[b] /\ Batches[b][i] = Candidates[before + i]
    BY <2>2, BatchContents
  <2>4. before + i = p
    BY BatchPlaces
  <2> QED
    BY <1>1, <2>1, <2>3, <2>4 DEF Waits
<1>6. DOMAIN <<>> = {}
  OBVIOUS
<1>7. OneRowPerClaim(<<>>) /\ \A c \in Claims : ~ IsDecided(<<>>, c)
  BY <1>6 DEF OneRowPerClaim, IsDecided
<1> QED
  BY <1>4, <1>5, <1>7 DEF Partition


\* The places of the claims after the first batch was split: the halves take
\* its place, and the others move up by one.
LEMMA SplitPlaces ==
  ASSUME NEW pending \in Seq(Batch), pending # <<>>, Len(Head(pending)) # 1,
         NEW new, new = Halves(Head(pending)) \o Tail(pending)
  PROVE  LET mid == Midpoint(Head(pending)) IN
         /\ mid \in Nat /\ mid < Len(pending[1]) /\ Len(pending[1]) \in Nat
         /\ Len(pending) \in Nat
         /\ DOMAIN pending = 1 .. Len(pending) /\ DOMAIN new = 1 .. Len(pending) + 1
         /\ DOMAIN pending[1] = 1 .. Len(pending[1])
         /\ DOMAIN new[1] = 1 .. mid /\ \A i \in DOMAIN new[1] : new[1][i] = pending[1][i]
         /\ DOMAIN new[2] = 1 .. Len(pending[1]) - mid
         /\ \A i \in DOMAIN new[2] : new[2][i] = pending[1][mid + i]
         /\ \A b \in 3 .. Len(pending) + 1 : new[b] = pending[b - 1]
<1> DEFINE head == Head(pending)
           mid == Midpoint(head)
           tail == Tail(pending)
           n == Len(head)
<1>1. Len(pending) \in Nat \ {0} /\ DOMAIN pending = 1 .. Len(pending)
  BY EmptySeq, LenProperties
<1>2. head = pending[1]
  OBVIOUS
<1>3. /\ head \in Batch /\ tail \in Seq(Batch) /\ Len(tail) = Len(pending) - 1
      /\ \A i \in 1 .. Len(tail) : tail[i] = pending[i + 1]
  BY HeadTailProperties
<1>4. head \in Seq(Claims) /\ n \in 1 .. BatchSize /\ BatchSize \in Nat /\ n # 1
  BY <1>3, ReviewAssumption DEF Batch
<1>5. mid = n \div 2
  BY DEF Midpoint
<1>6. Halves(head) = <<SubSeq(head, 1, mid), SubSeq(head, mid + 1, n)>>
  BY DEF Halves
<1>7. Halves(head) \in Seq(Batch) /\ Len(Halves(head)) = 2
  BY <1>3, <1>4, <1>6, HalvesTyped
<1>8. DOMAIN head = 1 .. n /\ \A i \in 1 .. n : head[i] \in Claims
  BY <1>4, LenProperties, ElementOfSeq
<1> HIDE DEF head, mid, tail, n
<1>9. mid \in Nat /\ 1 <= mid /\ mid < n /\ n \in Nat
  BY <1>4, <1>5
<1>10. /\ DOMAIN SubSeq(head, 1, mid) = 1 .. mid
       /\ \A i \in 1 .. mid : SubSeq(head, 1, mid)[i] = head[i]
  <2>1. \A i \in 1 .. mid : head[i] \in Claims
    BY <1>8, <1>9
  <2>2. /\ SubSeq(head, 1, mid) \in Seq(Claims) /\ Len(SubSeq(head, 1, mid)) = mid
        /\ \A i \in 1 .. mid : SubSeq(head, 1, mid)[i] = head[1 + i - 1]
    BY <1>9, <2>1, SubSeqProperties
  <2> QED
    BY <1>9, <2>2, LenProperties
<1>11. /\ DOMAIN SubSeq(head, mid + 1, n) = 1 .. n - mid
       /\ \A i \in 1 .. n - mid : SubSeq(head, mid + 1, n)[i] = head[mid + i]
  <2>1. \A i \in mid + 1 .. n : head[i] \in Claims
    BY <1>8, <1>9
  <2>2. /\ SubSeq(head, mid + 1, n) \in Seq(Claims) /\ Len(SubSeq(head, mid + 1, n)) = n - mid
        /\ \A i \in 1 .. n - mid : SubSeq(head, mid + 1, n)[i] = head[mid + 1 + i - 1]
    BY <1>9, <2>1, SubSeqProperties
  <2> QED
    BY <1>9, <2>2, LenProperties
<1>12. /\ Len(new) = Len(pending) + 1 /\ new \in Seq(Batch)
       /\ \A b \in 1 .. Len(pending) + 1 :
            new[b] = IF b <= 2 THEN Halves(head)[b] ELSE tail[b - 2]
  <2>1. new = Halves(head) \o tail
    BY DEF head, tail
  <2>2. Len(Halves(head)) + Len(tail) = Len(pending) + 1
    BY <1>1, <1>3, <1>7
  <2>3. /\ Halves(head) \o tail \in Seq(Batch)
        /\ Len(Halves(head) \o tail) = Len(Halves(head)) + Len(tail)
        /\ \A b \in 1 .. Len(Halves(head)) + Len(tail) :
             (Halves(head) \o tail)[b] = IF b <= Len(Halves(head)) THEN Halves(head)[b]
                                        ELSE tail[b - Len(Halves(head))]
    <3> DEFINE halves == Halves(head)
    <3>1. halves \in Seq(Batch) /\ tail \in Seq(Batch)
      BY <1>3, <1>7
    <3> HIDE DEF halves
    <3>2. /\ halves \o tail \in Seq(Batch)
          /\ Len(halves \o tail) = Len(halves) + Len(tail)
          /\ \A b \in 1 .. Len(halves) + Len(tail) :
               (halves \o tail)[b] = IF b <= Len(halves) THEN halves[b] ELSE tail[b - Len(halves)]
      BY <3>1, ConcatProperties, Zenon
    <3> QED
      BY <3>2 DEF halves
  <2> QED
    BY <1>7, <2>1, <2>2, <2>3
<1>13. new[1] = SubSeq(head, 1, mid) /\ new[2] = SubSeq(head, mid + 1, n)
  BY <1>1, <1>6, <1>12
<1>14. \A b \in 3 .. Len(pending) + 1 : new[b] = pending[b - 1]
  <2> SUFFICES ASSUME NEW b \in 3 .. Len(pending) + 1 PROVE new[b] = pending[b - 1]
    OBVIOUS
  <2>1. b - 2 \in 1 .. Len(tail) /\ (b - 2) + 1 = b - 1
    BY <1>1, <1>3
  <2> QED
    BY <1>1, <1>3, <1>12, <2>1
<1>15. DOMAIN new = 1 .. Len(pending) + 1
  BY <1>12, LenProperties
<1> QED
  BY <1>1, <1>2, <1>8, <1>9, <1>10, <1>11, <1>13, <1>14, <1>15 DEF mid, n, head

\* A refused batch that is split loses no claim and gives none a second place.
LEMMA SplitPartition ==
  ASSUME NEW pending \in Seq(Batch), pending # <<>>, Len(Head(pending)) # 1,
         NEW decided, Partition(pending, decided)
  PROVE  Partition(Halves(Head(pending)) \o Tail(pending), decided)
<1> DEFINE new == Halves(Head(pending)) \o Tail(pending)
           mid == Midpoint(Head(pending))
           n == Len(pending[1])
           batchOf(b) == IF b <= 2 THEN 1 ELSE b - 1
           placeOf(b, i) == IF b = 2 THEN mid + i ELSE i
<1>1. /\ mid \in Nat /\ mid < n /\ n \in Nat /\ Len(pending) \in Nat
      /\ DOMAIN pending = 1 .. Len(pending) /\ DOMAIN new = 1 .. Len(pending) + 1
      /\ DOMAIN pending[1] = 1 .. n
      /\ DOMAIN new[1] = 1 .. mid /\ \A i \in DOMAIN new[1] : new[1][i] = pending[1][i]
      /\ DOMAIN new[2] = 1 .. n - mid
      /\ \A i \in DOMAIN new[2] : new[2][i] = pending[1][mid + i]
      /\ \A b \in 3 .. Len(pending) + 1 : new[b] = pending[b - 1]
  BY SplitPlaces
<1>2. Len(pending) >= 1
  BY <1>1, EmptySeq
<1> HIDE DEF new, mid, n
<1>3. ASSUME NEW b \in DOMAIN new, NEW i \in DOMAIN new[b]
      PROVE  /\ batchOf(b) \in DOMAIN pending /\ placeOf(b, i) \in DOMAIN pending[batchOf(b)]
             /\ new[b][i] = pending[batchOf(b)][placeOf(b, i)]
  <2>1. CASE b = 1
    <3>1. batchOf(b) = 1 /\ placeOf(b, i) = i
      BY <2>1
    <3>2. i \in 1 .. mid /\ i \in 1 .. n /\ new[b][i] = pending[1][i]
      BY <1>1, <2>1
    <3> QED
      BY <1>1, <1>2, <3>1, <3>2
  <2>2. CASE b = 2
    <3>1. batchOf(b) = 1 /\ placeOf(b, i) = mid + i
      BY <2>2
    <3>2. i \in 1 .. n - mid /\ mid + i \in 1 .. n /\ new[b][i] = pending[1][mid + i]
      BY <1>1, <2>2
    <3> QED
      BY <1>1, <1>2, <3>1, <3>2
  <2>3. CASE b \in 3 .. Len(pending) + 1
    BY <1>1, <2>3
  <2> QED
    BY <1>1, <2>1, <2>2, <2>3
<1>4. Placed(new)
  <2> SUFFICES ASSUME NEW b \in DOMAIN new, NEW d \in DOMAIN new,
                      NEW i \in DOMAIN new[b], NEW j \in DOMAIN new[d], new[b][i] = new[d][j]
               PROVE  b = d /\ i = j
    BY DEF Placed
  <2>1. batchOf(b) = batchOf(d) /\ placeOf(b, i) = placeOf(d, j)
    <3>1. pending[batchOf(b)][placeOf(b, i)] = pending[batchOf(d)][placeOf(d, j)]
      BY <1>3
    <3> HIDE DEF batchOf, placeOf
    <3> QED
      BY <1>3, <3>1 DEF Partition, Placed
  <2>2. b \in Int /\ d \in Int /\ b >= 1 /\ d >= 1
    BY <1>1
  <2>3. CASE b = 1 /\ d = 2
    BY <1>1, <2>1, <2>3
  <2>4. CASE b = 2 /\ d = 1
    BY <1>1, <2>1, <2>4
  <2>5. CASE b = d
    BY <1>1, <2>1, <2>5
  <2>6. CASE b > 2 \/ d > 2
    <3>1. b = d
      BY <2>1, <2>2, <2>6
    <3> QED
      BY <2>1, <2>2, <2>6, <3>1
  <2> QED
    BY <2>2, <2>3, <2>4, <2>5, <2>6
<1>5. ASSUME NEW c \in Claims PROVE Waits(new, c) <=> Waits(pending, c)
  <2>1. ASSUME Waits(new, c) PROVE Waits(pending, c)
    <3>1. PICK b \in DOMAIN new : \E i \in DOMAIN new[b] : new[b][i] = c
      BY <2>1 DEF Waits
    <3>2. PICK i \in DOMAIN new[b] : new[b][i] = c
      BY <3>1
    <3> HIDE DEF batchOf, placeOf
    <3> QED
      BY <1>3, <3>2 DEF Waits
  <2>2. ASSUME Waits(pending, c) PROVE Waits(new, c)
    <3>1. PICK b \in DOMAIN pending : \E i \in DOMAIN pending[b] : pending[b][i] = c
      BY <2>2 DEF Waits
    <3>2. PICK i \in DOMAIN pending[b] : pending[b][i] = c
      BY <3>1
    <3>3. CASE b > 1
      <4>1. b + 1 \in DOMAIN new /\ new[b + 1] = pending[b]
        BY <1>1, <3>3
      <4> QED
        BY <3>2, <4>1 DEF Waits
    <3>4. CASE b = 1 /\ i <= mid
      <4>1. 1 \in DOMAIN new /\ i \in DOMAIN new[1] /\ new[1][i] = c
        BY <1>1, <1>2, <3>2, <3>4
      <4> QED
        BY <4>1 DEF Waits
    <3>5. CASE b = 1 /\ i > mid
      <4>1. 2 \in DOMAIN new /\ i - mid \in DOMAIN new[2] /\ new[2][i - mid] = c
        BY <1>1, <1>2, <3>2, <3>5
      <4> QED
        BY <4>1 DEF Waits
    <3>6. b \in Int /\ b >= 1 /\ mid \in Nat
      BY <1>1
    <3>7. b = 1 => i \in Int
      BY <1>1, <3>2
    <3> QED
      BY <3>3, <3>4, <3>5, <3>6, <3>7
  <2> QED
    BY <2>1, <2>2
<1> QED
  BY <1>4, <1>5 DEF Partition, new

\* An answer that lists no claim twice lists every claim of its batch.
LEMMA OrderIsComplete ==
  ASSUME NEW batch \in Seq(Claims), NEW order \in Orders(batch),
         \A i, j \in DOMAIN batch : batch[i] = batch[j] => i = j
  PROVE  \A i \in DOMAIN batch : \E j \in DOMAIN order : order[j] = batch[i]
<1> DEFINE D == DOMAIN batch
           T == {batch[i] : i \in D}
<1>1. IsFiniteSet(D)
  <2>1. D = 1 .. Len(batch) /\ Len(batch) \in Nat
    BY LenProperties
  <2> QED
    BY <2>1, FS_Interval
<1>2. batch \in [D -> T]
  <2>1. batch = [i \in D |-> batch[i]]
    BY LenProperties, SeqDef
  <2> QED
    BY <2>1
<1> HIDE DEF D
<1>3. batch \in Bijection(D, T)
  <2>1. \A t \in T : \E i \in D : batch[i] = t
    OBVIOUS
  <2>2. \A i, j \in D : batch[i] = batch[j] => i = j
    BY DEF D
  <2> HIDE DEF T
  <2> QED
    BY <1>2, <2>1, <2>2, Fun_IsBij
<1>4. order \in [D -> T] /\ \A i, j \in D : order[i] = order[j] => i = j
  BY DEF Orders, D
<1> HIDE DEF T
<1>5. ExistsBijection(D, T)
  BY <1>3, Fun_ExistsBij
<1>6. IsFiniteSet(T) /\ Cardinality(T) = Cardinality(D)
  BY <1>1, <1>5, FS_Bijection
<1>7. order \in Injection(D, T)
  BY <1>4, Fun_IsInj
<1>8. order \in Surjection(D, T)
  BY <1>6, <1>7, FS_Injection
<1>9. \A t \in T : \E j \in D : order[j] = t
  BY <1>8, Fun_SurjectionProperties
<1>10. DOMAIN order = D
  BY <1>4
<1> QED
  BY <1>9, <1>10 DEF T, D


\* An accepted answer turns the claims of its batch into decisions.
LEMMA AnswerPartition ==
  ASSUME NEW pending \in Seq(Batch), pending # <<>>, NEW decided \in Seq(Decisions),
         NEW order \in Orders(Head(pending)), NEW added \in Seq(Decisions),
         DOMAIN added = DOMAIN order, \A i \in DOMAIN order : added[i].claim = order[i],
         Partition(pending, decided)
  PROVE  Partition(Tail(pending), decided \o added)
<1> DEFINE head == pending[1]
           tail == Tail(pending)
           all == decided \o added
           m == Len(decided)
           n == Len(added)
<1>1. /\ Len(pending) \in Nat \ {0} /\ DOMAIN pending = 1 .. Len(pending)
      /\ Head(pending) = head /\ head \in Batch
      /\ tail \in Seq(Batch) /\ Len(tail) = Len(pending) - 1
      /\ \A b \in 1 .. Len(tail) : tail[b] = pending[b + 1]
  BY EmptySeq, LenProperties, HeadTailProperties
<1>2. DOMAIN tail = 1 .. Len(pending) - 1
  BY <1>1, LenProperties
<1>3. /\ m \in Nat /\ DOMAIN decided = 1 .. m
      /\ n \in Nat /\ DOMAIN added = 1 .. n /\ DOMAIN order = 1 .. n
  BY LenProperties
<1>4. /\ DOMAIN all = 1 .. m + n
      /\ \A i \in 1 .. m + n : all[i] = IF i <= m THEN decided[i] ELSE added[i - m]
  <2>1. all \in Seq(Decisions) /\ Len(all) = m + n
        /\ \A i \in 1 .. m + n : all[i] = IF i <= m THEN decided[i] ELSE added[i - m]
    BY ConcatProperties
  <2> QED
    BY <2>1, LenProperties
<1> HIDE DEF head, tail, all, m, n
<1>5. head \in Seq(Claims)
  BY <1>1 DEF Batch
<1>6. \A i, j \in DOMAIN head : head[i] = head[j] => i = j
  BY <1>1 DEF Partition, Placed, head
<1> DEFINE batch == {head[i] : i \in DOMAIN head}
<1>7. /\ order \in Orders(head) /\ order \in [DOMAIN head -> batch]
      /\ \A j, k \in DOMAIN head : order[j] = order[k] => j = k
  BY <1>1 DEF Orders
<1>8. \A i \in DOMAIN head : \E j \in 1 .. n : order[j] = head[i]
  <2>1. \A i \in DOMAIN head : \E j \in DOMAIN order : order[j] = head[i]
    BY <1>5, <1>6, <1>7, OrderIsComplete
  <2> QED
    BY <1>3, <2>1
<1>9. /\ \A j \in 1 .. n : \E i \in DOMAIN head : head[i] = order[j]
      /\ \A j, k \in 1 .. n : order[j] = order[k] => j = k
  <2>1. DOMAIN head = 1 .. n
    BY <1>3, <1>7
  <2>2. \A j \in DOMAIN head : order[j] \in batch
    BY <1>7
  <2> QED
    BY <1>7, <2>1, <2>2
<1>10. \A c : IsDecided(all, c) <=>
         IsDecided(decided, c) \/ \E i \in DOMAIN head : head[i] = c
  <2> TAKE c
  <2>1. ASSUME NEW i \in DOMAIN all, all[i].claim = c
        PROVE  IsDecided(decided, c) \/ \E k \in DOMAIN head : head[k] = c
    <3>1. CASE i <= m
      BY <1>3, <1>4, <2>1, <3>1 DEF IsDecided
    <3>2. CASE ~ (i <= m)
      <4>1. i - m \in 1 .. n /\ order[i - m] = c
        BY <1>3, <1>4, <2>1, <3>2
      <4> QED
        BY <1>9, <4>1
    <3> QED
      BY <3>1, <3>2
  <2>2. ASSUME NEW i \in DOMAIN decided, decided[i].claim = c
        PROVE  IsDecided(all, c)
    <3>1. i \in DOMAIN all /\ all[i] = decided[i]
      BY <1>3, <1>4
    <3> QED
      BY <2>2, <3>1 DEF IsDecided
  <2>3. ASSUME NEW i \in DOMAIN head, head[i] = c
        PROVE  IsDecided(all, c)
    <3>1. PICK j \in 1 .. n : order[j] = c
      BY <1>8, <2>3
    <3>2. m + j \in DOMAIN all /\ all[m + j] = added[j]
      BY <1>3, <1>4
    <3> QED
      BY <1>3, <3>1, <3>2 DEF IsDecided
  <2> QED
    BY <2>1, <2>2, <2>3 DEF IsDecided
<1>11. \A c : Waits(pending, c) <=> Waits(tail, c) \/ \E i \in DOMAIN head : head[i] = c
  <2> TAKE c
  <2>1. ASSUME NEW b \in DOMAIN pending, NEW i \in DOMAIN pending[b], pending[b][i] = c
        PROVE  Waits(tail, c) \/ \E k \in DOMAIN head : head[k] = c
    <3>1. CASE b = 1
      BY <2>1, <3>1 DEF head
    <3>2. CASE b # 1
      <4>1. b - 1 \in DOMAIN tail /\ tail[b - 1] = pending[b]
        BY <1>1, <1>2, <3>2
      <4> QED
        BY <2>1, <4>1 DEF Waits
    <3> QED
      BY <3>1, <3>2
  <2>2. ASSUME NEW b \in DOMAIN tail, NEW i \in DOMAIN tail[b], tail[b][i] = c
        PROVE  Waits(pending, c)
    <3>1. b + 1 \in DOMAIN pending /\ tail[b] = pending[b + 1]
      BY <1>1, <1>2
    <3> QED
      BY <2>2, <3>1 DEF Waits
  <2>3. 1 \in DOMAIN pending /\ pending[1] = head
    BY <1>1 DEF head
  <2> QED
    BY <2>1, <2>2, <2>3 DEF Waits
<1>12. Placed(tail)
  <2> SUFFICES ASSUME NEW b \in DOMAIN tail, NEW d \in DOMAIN tail,
                      NEW i \in DOMAIN tail[b], NEW j \in DOMAIN tail[d], tail[b][i] = tail[d][j]
               PROVE  b = d /\ i = j
    BY DEF Placed
  <2>1. /\ b + 1 \in DOMAIN pending /\ tail[b] = pending[b + 1] /\ b \in Int
        /\ d + 1 \in DOMAIN pending /\ tail[d] = pending[d + 1] /\ d \in Int
    BY <1>1, <1>2
  <2>2. b + 1 = d + 1 /\ i = j
    BY <2>1 DEF Partition, Placed
  <2> QED
    BY <2>1, <2>2
<1>13. \A c : ~ (Waits(tail, c) /\ \E i \in DOMAIN head : head[i] = c)
  <2> SUFFICES ASSUME NEW b \in DOMAIN tail, NEW i \in DOMAIN tail[b],
                      NEW k \in DOMAIN head, tail[b][i] = head[k]
               PROVE  FALSE
    BY DEF Waits
  <2>1. b + 1 \in DOMAIN pending /\ tail[b] = pending[b + 1] /\ b + 1 # 1
        /\ 1 \in DOMAIN pending /\ head = pending[1]
    BY <1>1, <1>2 DEF head
  <2> QED
    BY <2>1 DEF Partition, Placed
<1>14. OneRowPerClaim(all)
  <2> SUFFICES ASSUME NEW i \in DOMAIN all, NEW j \in DOMAIN all, all[i].claim = all[j].claim
               PROVE  i = j
    BY DEF OneRowPerClaim
  <2>1. ASSUME NEW k \in 1 .. m, NEW l \in m + 1 .. m + n, all[k].claim = all[l].claim
        PROVE  FALSE
    <3>1. k \in DOMAIN decided /\ all[k] = decided[k]
      BY <1>3, <1>4
    <3>2. l - m \in 1 .. n /\ all[l].claim = order[l - m]
      BY <1>3, <1>4
    <3>3. PICK x \in DOMAIN head : head[x] = order[l - m]
      BY <1>9, <3>2
    <3>4. Waits(pending, order[l - m]) /\ order[l - m] \in Claims
      BY <1>5, <1>11, <3>3, ElementOfSeq, LenProperties
    <3>5. IsDecided(decided, order[l - m])
      BY <2>1, <3>1, <3>2 DEF IsDecided
    <3> QED
      BY <3>4, <3>5 DEF Partition
  <2>2. CASE i <= m /\ j <= m
    <3>1. i \in DOMAIN decided /\ j \in DOMAIN decided /\ all[i] = decided[i] /\ all[j] = decided[j]
      BY <1>3, <1>4, <2>2
    <3> QED
      BY <3>1 DEF Partition, OneRowPerClaim
  <2>3. CASE i > m /\ j > m
    <3>1. i - m \in 1 .. n /\ j - m \in 1 .. n /\ order[i - m] = order[j - m]
      BY <1>3, <1>4, <2>3
    <3>2. i - m = j - m
      BY <1>9, <3>1
    <3> QED
      BY <1>3, <1>4, <3>2
  <2> QED
    BY <1>3, <1>4, <2>1, <2>2, <2>3
<1> QED
  BY <1>10, <1>11, <1>12, <1>13, <1>14 DEF Partition, tail, all


\* An execution has its claims from when it loads them until it persists them.
HasClaims(w) == task[w] # NoTask /\ task[w].step \in {"reviewing", "persisting"}

ClaimsPartitioned ==
  \A w \in Workers : HasClaims(w) =>
    /\ Partition(task[w].pending, task[w].decided)
    /\ task[w].step = "persisting" => task[w].pending = <<>>

ClaimsInv == TypeOK /\ ClaimsPartitioned

\* A step after which no process has claims but as before keeps the partition.
LEMMA OthersKeepClaims ==
  ASSUME ClaimsPartitioned, NEW w \in Workers,
         \A v \in Workers \ {w} : HasClaims(v)' => task'[v] = task[v],
         HasClaims(w)' => /\ Partition(task'[w].pending, task'[w].decided)
                          /\ task'[w].step = "persisting" => task'[w].pending = <<>>
  PROVE  ClaimsPartitioned'
BY DEF ClaimsPartitioned, HasClaims

LEMMA WorksAlone ==
  ASSUME TypeOK, NEW w \in Workers, NEW step, NEW pending, NEW decided,
         Works(w, step, pending, decided)
  PROVE  /\ task'[w].step = step /\ task'[w].pending = pending /\ task'[w].decided = decided
         /\ \A v \in Workers \ {w} : task'[v] = task[v]
BY DEF Works, TypeOK

LEMMA ClaimsInvariant == ClaimsInv /\ [Next]_vars => ClaimsInv'
<1> SUFFICES ASSUME ClaimsInv, [Next]_vars PROVE ClaimsPartitioned'
  BY TypeInvariant DEF ClaimsInv
<1>1. TypeOK /\ ClaimsPartitioned
  BY DEF ClaimsInv
<1>2. ASSUME NEW w \in Workers, NEW outcome, Raises(w, outcome) PROVE ClaimsPartitioned'
  <2>1. task'[w] = NoTask /\ \A v \in Workers \ {w} : task'[v] = task[v]
    BY <1>1, <1>2 DEF Raises, TypeOK
  <2> QED
    BY <1>1, <2>1, OthersKeepClaims DEF HasClaims
<1>3. ASSUME NEW w \in Workers, Returns(w) PROVE ClaimsPartitioned'
  <2>1. task'[w].step = "returning" /\ \A v \in Workers \ {w} : task'[v] = task[v]
    BY <1>1, <1>3, WorksAlone DEF Returns
  <2> QED
    BY <1>1, <2>1, OthersKeepClaims DEF HasClaims
<1>4. ASSUME UNCHANGED task PROVE ClaimsPartitioned'
  BY <1>1, <1>4 DEF ClaimsPartitioned, HasClaims
<1>5. ASSUME NEW k \in Runs, NEW w \in Workers, Start(w, k) PROVE ClaimsPartitioned'
  <2>1. task'[w].step = "looking" /\ \A v \in Workers \ {w} : task'[v] = task[v]
    BY <1>1, <1>5 DEF Start, TypeOK
  <2> QED
    BY <1>1, <2>1, OthersKeepClaims DEF HasClaims
<1>6. ASSUME NEW w \in Workers, LoadCandidates(w) PROVE ClaimsPartitioned'
  <2>1. /\ task'[w].pending = Batches /\ task'[w].decided = <<>> /\ task'[w].step = "reviewing"
        /\ \A v \in Workers \ {w} : task'[v] = task[v]
    BY <1>1, <1>6, WorksAlone DEF LoadCandidates
  <2> QED
    BY <1>1, <2>1, LoadedPartition, OthersKeepClaims
<1>7. ASSUME NEW w \in Workers, BatchAnswered(w) PROVE ClaimsPartitioned'
  <2> DEFINE pending == task[w].pending
             decided == task[w].decided
  <2>1. At(w, "reviewing") /\ pending # <<>>
    BY <1>7 DEF BatchAnswered
  <2>2. pending \in Seq(Batch) /\ decided \in Seq(Decisions) /\ Partition(pending, decided)
    BY <1>1, <2>1, TaskTyped DEF At, ClaimsPartitioned, HasClaims
  <2>3. PICK order \in Orders(Head(pending)) :
        \E said \in {o \in [DOMAIN order -> UNION {Opinions[c] : c \in Claims}] :
                       \A i \in DOMAIN order : o[i] \in Opinions[order[i]]} :
          Works(w, "reviewing", Tail(pending), decided \o
            [i \in DOMAIN order |-> [claim |-> order[i], opinion |-> said[i]]])
    BY <1>7 DEF BatchAnswered
  <2>4. PICK said \in {o \in [DOMAIN order -> UNION {Opinions[c] : c \in Claims}] :
                         \A i \in DOMAIN order : o[i] \in Opinions[order[i]]} :
          Works(w, "reviewing", Tail(pending), decided \o
            [i \in DOMAIN order |-> [claim |-> order[i], opinion |-> said[i]]])
    BY <2>3
  <2> DEFINE added == [i \in DOMAIN order |-> [claim |-> order[i], opinion |-> said[i]]]
  <2>5. DOMAIN added = DOMAIN order /\ \A i \in DOMAIN order : added[i].claim = order[i]
    OBVIOUS
  <2>6. added \in Seq(Decisions)
    BY <2>1, <2>2, <2>4, AnswerTyped
  <2>7. Works(w, "reviewing", Tail(pending), decided \o added)
    BY <2>4
  <2> HIDE DEF added, pending, decided
  <2>8. /\ task'[w].pending = Tail(pending) /\ task'[w].decided = decided \o added
        /\ task'[w].step = "reviewing"
        /\ \A v \in Workers \ {w} : task'[v] = task[v]
    BY <1>1, <2>7, WorksAlone
  <2>9. Partition(Tail(pending), decided \o added)
    BY <2>1, <2>2, <2>5, <2>6, AnswerPartition
  <2> QED
    BY <1>1, <2>8, <2>9, OthersKeepClaims
<1>8. ASSUME NEW w \in Workers, BatchFails(w) PROVE ClaimsPartitioned'
  <2> DEFINE pending == task[w].pending
             new == Halves(Head(pending)) \o Tail(pending)
  <2>1. /\ At(w, "reviewing") /\ pending # <<>> /\ Len(Head(pending)) # 1
        /\ Works(w, "reviewing", new, task[w].decided)
    BY <1>8 DEF BatchFails
  <2>2. pending \in Seq(Batch) /\ Partition(pending, task[w].decided)
    BY <1>1, <2>1, TaskTyped DEF At, ClaimsPartitioned, HasClaims
  <2>3. Partition(new, task[w].decided)
    BY <2>1, <2>2, SplitPartition
  <2> HIDE DEF new
  <2>4. /\ task'[w].pending = new /\ task'[w].decided = task[w].decided
        /\ task'[w].step = "reviewing"
        /\ \A v \in Workers \ {w} : task'[v] = task[v]
    BY <1>1, <2>1, WorksAlone
  <2> QED
    BY <1>1, <2>3, <2>4, OthersKeepClaims
<1>9. ASSUME NEW w \in Workers, FindOwn(w) PROVE ClaimsPartitioned'
  <2>1. CASE Returns(w)
    BY <1>3, <2>1
  <2>2. CASE Moves(w, "persisting")
    <3>1. task[w] # NoTask /\ task[w].step = "reviewing" /\ task[w].pending = <<>>
      BY <1>9 DEF FindOwn, At
    <3>2. /\ task'[w].pending = task[w].pending /\ task'[w].decided = task[w].decided
          /\ \A v \in Workers \ {w} : task'[v] = task[v]
      BY <1>1, <2>2, WorksAlone DEF Moves
    <3>3. Partition(task[w].pending, task[w].decided)
      BY <1>1, <3>1 DEF ClaimsPartitioned, HasClaims
    <3> QED
      BY <1>1, <3>1, <3>2, <3>3, OthersKeepClaims
  <2> QED
    BY <1>9, <2>1, <2>2 DEF FindOwn
<1>10. ASSUME NEW w \in Workers, Execute(w) \/ Interrupted(w) PROVE ClaimsPartitioned'
  BY <1>2, <1>3, <1>6, <1>7, <1>8, <1>9, <1>10
  DEF Execute, FindCompleted, ClaimFails, Persist, PersistRefused, Finish, Interrupted
<1> QED
  BY <1>4, <1>5, <1>10 DEF Next, RetryRun, vars

\* Two disjoint alternatives of which one has a single witness count as one.
LEMMA PartitionCounts ==
  ASSUME NEW pending \in Seq(Batch), NEW decided, Partition(pending, decided), NEW c \in Claims
  PROVE  Cardinality({b \in DOMAIN pending : \E i \in DOMAIN pending[b] : pending[b][i] = c})
           + Cardinality({i \in DOMAIN decided : decided[i].claim = c}) = 1
<1> DEFINE batches == {b \in DOMAIN pending : \E i \in DOMAIN pending[b] : pending[b][i] = c}
           rows == {i \in DOMAIN decided : decided[i].claim = c}
<1>1. CASE Waits(pending, c)
  <2>1. PICK b \in DOMAIN pending : \E i \in DOMAIN pending[b] : pending[b][i] = c
    BY <1>1 DEF Waits
  <2>2. batches = {b}
    BY <2>1 DEF Partition, Placed
  <2>3. rows = {}
    BY <1>1 DEF Partition, IsDecided
  <2>4. Cardinality({b}) = 1 /\ Cardinality({}) = 0
    BY FS_Singleton, FS_EmptySet
  <2> HIDE DEF batches, rows
  <2>5. Cardinality(batches) = 1 /\ Cardinality(rows) = 0
    BY <2>2, <2>3, <2>4
  <2>6. Cardinality(batches) + Cardinality(rows) = 1
    BY <2>5
  <2> QED
    BY <2>6 DEF batches, rows
<1>2. CASE ~ Waits(pending, c)
  <2>1. PICK i \in DOMAIN decided : decided[i].claim = c
    BY <1>2 DEF Partition, IsDecided
  <2>2. rows = {i}
    BY <2>1 DEF Partition, OneRowPerClaim
  <2>3. batches = {}
    BY <1>2 DEF Waits
  <2>4. Cardinality({i}) = 1 /\ Cardinality({}) = 0
    BY FS_Singleton, FS_EmptySet
  <2> HIDE DEF batches, rows
  <2>5. Cardinality(batches) = 0 /\ Cardinality(rows) = 1
    BY <2>2, <2>3, <2>4
  <2>6. Cardinality(batches) + Cardinality(rows) = 1
    BY <2>5
  <2> QED
    BY <2>6 DEF batches, rows
<1> QED
  BY <1>1, <1>2

LEMMA ClaimsInitially == Init => ClaimsInv
BY DEF Init, ClaimsInv, TypeOK, ClaimsPartitioned, HasClaims

\* For any claims, batch size, splits and orders of the answers: every claim
\* waits in one batch or is decided once, so that none is lost or asked twice.
THEOREM EachClaimAlwaysOnce == Spec => []EachClaimOnce
<1>1. ASSUME ClaimsInv PROVE EachClaimOnce
  <2> SUFFICES ASSUME NEW w \in Workers, HasClaims(w), NEW c \in Claims
               PROVE  Cardinality({b \in DOMAIN task[w].pending :
                         \E i \in DOMAIN task[w].pending[b] : task[w].pending[b][i] = c})
                        + Cardinality({i \in DOMAIN task[w].decided :
                             task[w].decided[i].claim = c}) = 1
    BY DEF EachClaimOnce, HasClaims
  <2>1. task[w].pending \in Seq(Batch) /\ Partition(task[w].pending, task[w].decided)
    BY <1>1, TaskTyped DEF ClaimsInv, ClaimsPartitioned, HasClaims
  <2> QED
    BY <2>1, PartitionCounts
<1> QED
  BY <1>1, ClaimsInitially, ClaimsInvariant, PTL DEF Spec

\* So the checks of persist and of its table never refuse the decisions of an
\* execution that got that far: only another review of the extraction can.
OnlyAReviewRefuses ==
  \A w \in Workers : At(w, "persisting") /\ ~ Accepted(w) => \E k \in Runs : review[k] # NoReview

THEOREM OnlyAReviewEverRefuses == Spec => []OnlyAReviewRefuses
<1>1. ASSUME ClaimsInv PROVE OnlyAReviewRefuses
  <2> SUFFICES ASSUME NEW w \in Workers, At(w, "persisting")
               PROVE  Covered(task[w].decided) /\ OneRowPerClaim(task[w].decided)
    BY DEF OnlyAReviewRefuses, Accepted, Insertable
  <2> DEFINE decided == task[w].decided
  <2>1. decided \in Seq(Decisions) /\ task[w].pending = <<>> /\ Partition(<<>>, decided)
    BY <1>1, TaskTyped DEF ClaimsInv, ClaimsPartitioned, HasClaims, At
  <2> HIDE DEF decided
  <2>2. \A c : ~ Waits(<<>>, c)
    BY DEF Waits
  <2>3. \A c \in Claims : IsDecided(decided, c)
    BY <2>1, <2>2 DEF Partition
  <2>4. \A i \in DOMAIN decided : decided[i].claim \in Claims
    <3>1. \A i \in DOMAIN decided : decided[i] \in Decisions
      BY <2>1, ElementOfSeq, LenProperties
    <3> QED
      BY <3>1 DEF Decisions
  <2>5. Covered(decided) /\ OneRowPerClaim(decided)
    BY <2>1, <2>3, <2>4 DEF Covered, IsDecided, Partition
  <2> QED
    BY <2>5 DEF decided
<1> QED
  BY <1>1, ClaimsInitially, ClaimsInvariant, PTL DEF Spec


-------------------------------------------------------------------------------
(* How often the model is asked.                                           *)

\* Grows with every call of an execution, whether it is answered or refused.
Progress(w) == 2 * Len(task[w].decided) + Len(task[w].pending)

ProgressBounded ==
  \A w \in Workers : HasClaims(w) => Progress(w) <= 2 * Len(Candidates)

CallsProgress ==
  [][\A w \in Workers : BatchAnswered(w) \/ BatchFails(w) => Progress(w)' > Progress(w)]_vars

\* There are as many claims as candidates.
LEMMA ClaimsCounted == IsFiniteSet(Claims) /\ Cardinality(Claims) = Len(Candidates)
<1> DEFINE D == 1 .. Len(Candidates)
<1>1. Len(Candidates) \in Nat /\ DOMAIN Candidates = D /\ Candidates \in Seq(Claims)
  BY CandidateFacts, LenProperties
<1>2. IsFiniteSet(D) /\ Cardinality(D) = Len(Candidates)
  BY <1>1, FS_Interval
<1>3. Candidates \in [D -> Claims]
  BY <1>1, SeqDef, ElementOfSeq, LenProperties
<1>4. \A i, j \in D : Candidates[i] = Candidates[j] => i = j
  BY <1>1, ReviewAssumption
<1>5. \A c \in Claims : \E i \in D : Candidates[i] = c
  BY <1>1 DEF Claims
<1> HIDE DEF D
<1>6. Candidates \in Bijection(D, Claims)
  BY <1>3, <1>4, <1>5, Fun_IsBij
<1>7. ExistsBijection(D, Claims)
  BY <1>6, Fun_ExistsBij
<1> QED
  BY <1>2, <1>7, FS_Bijection

\* The waiting batches and the decisions are about different claims, and no
\* batch is empty.
LEMMA PartitionBounded ==
  ASSUME NEW pending \in Seq(Batch), NEW decided \in Seq(Decisions), Partition(pending, decided)
  PROVE  Len(decided) + Len(pending) <= Len(Candidates)
<1> DEFINE m == Len(decided)
           n == Len(pending)
           places == 1 .. m + n
           claimAt(x) == IF x <= m THEN decided[x].claim ELSE pending[x - m][1]
           claims == [x \in places |-> claimAt(x)]
<1>1. m \in Nat /\ DOMAIN decided = 1 .. m /\ n \in Nat /\ DOMAIN pending = 1 .. n
  BY LenProperties
<1>2. \A i \in 1 .. m : decided[i].claim \in Claims
  <2>1. \A i \in 1 .. m : decided[i] \in Decisions
    BY ElementOfSeq
  <2> QED
    BY <2>1 DEF Decisions
<1>3. ASSUME NEW b \in 1 .. n
      PROVE  1 \in DOMAIN pending[b] /\ pending[b][1] \in Claims
  <2>1. pending[b] \in Seq(Claims) /\ Len(pending[b]) \in 1 .. BatchSize
    BY ElementOfSeq DEF Batch
  <2>2. 1 \in 1 .. Len(pending[b]) /\ DOMAIN pending[b] = 1 .. Len(pending[b])
    BY <2>1, ReviewAssumption, LenProperties
  <2> QED
    BY <2>1, <2>2, ElementOfSeq
<1> HIDE DEF m, n
<1>4. ASSUME NEW x \in places
      PROVE  /\ x \in Nat /\ claimAt(x) \in Claims
             /\ ~ (x <= m) => x - m \in 1 .. n
  BY <1>1, <1>2, <1>3
<1>5. ASSUME NEW x \in places, NEW y \in places, x <= m, ~ (y <= m)
      PROVE  claimAt(x) # claimAt(y)
  <2>1. IsDecided(decided, claimAt(x)) /\ claimAt(x) \in Claims
    BY <1>1, <1>4, <1>5 DEF IsDecided
  <2>2. Waits(pending, claimAt(y))
    BY <1>1, <1>3, <1>4, <1>5 DEF Waits
  <2> HIDE DEF claimAt
  <2> QED
    BY <2>1, <2>2 DEF Partition
<1>6. ASSUME NEW x \in places, NEW y \in places, claimAt(x) = claimAt(y)
      PROVE  x = y
  <2>1. CASE x <= m /\ y <= m
    <3>1. x \in DOMAIN decided /\ y \in DOMAIN decided /\ decided[x].claim = decided[y].claim
      BY <1>1, <1>4, <1>6, <2>1
    <3> QED
      BY <3>1 DEF Partition, OneRowPerClaim
  <2>2. CASE ~ (x <= m) /\ ~ (y <= m)
    <3>1. /\ x - m \in DOMAIN pending /\ y - m \in DOMAIN pending
          /\ 1 \in DOMAIN pending[x - m] /\ 1 \in DOMAIN pending[y - m]
          /\ pending[x - m][1] = pending[y - m][1]
      BY <1>1, <1>3, <1>4, <1>6, <2>2
    <3>2. x - m = y - m
      BY <3>1 DEF Partition, Placed
    <3> QED
      BY <1>1, <1>4, <3>2
  <2> QED
    BY <1>5, <1>6, <2>1, <2>2
<1> HIDE DEF claimAt
<1>7. claims \in [places -> Claims] /\ \A x, y \in places : claims[x] = claims[y] => x = y
  BY <1>4, <1>6
<1>8. IsFiniteSet(places) /\ Cardinality(places) = m + n
  BY <1>1, FS_Interval
<1> HIDE DEF places, claims
<1>9. claims \in Injection(places, Claims)
  BY <1>7, Fun_IsInj
<1>10. Cardinality(places) <= Cardinality(Claims)
  BY <1>9, ClaimsCounted, FS_Injection
<1> QED
  BY <1>8, <1>10, ClaimsCounted DEF m, n

\* A call that is answered decides at least one claim; one that is refused
\* leaves one more batch.
LEMMA CallProgresses ==
  ASSUME TypeOK, NEW w \in Workers, BatchAnswered(w) \/ BatchFails(w)
  PROVE  Progress(w)' > Progress(w)
<1> DEFINE pending == task[w].pending
           decided == task[w].decided
<1>1. task[w] # NoTask /\ pending # <<>>
  BY DEF BatchAnswered, BatchFails, At
<1>2. pending \in Seq(Batch) /\ decided \in Seq(Decisions)
  BY <1>1, TaskTyped
<1>3. /\ Len(pending) \in Nat /\ Len(decided) \in Nat /\ Head(pending) \in Batch
      /\ Tail(pending) \in Seq(Batch) /\ Len(Tail(pending)) = Len(pending) - 1
  BY <1>1, <1>2, LenProperties, HeadTailProperties
<1>4. CASE BatchAnswered(w)
  <2>1. PICK order \in Orders(Head(pending)) :
        \E said \in {o \in [DOMAIN order -> UNION {Opinions[c] : c \in Claims}] :
                       \A i \in DOMAIN order : o[i] \in Opinions[order[i]]} :
          Works(w, "reviewing", Tail(pending), decided \o
            [i \in DOMAIN order |-> [claim |-> order[i], opinion |-> said[i]]])
    BY <1>4 DEF BatchAnswered
  <2>2. PICK said \in {o \in [DOMAIN order -> UNION {Opinions[c] : c \in Claims}] :
                         \A i \in DOMAIN order : o[i] \in Opinions[order[i]]} :
          Works(w, "reviewing", Tail(pending), decided \o
            [i \in DOMAIN order |-> [claim |-> order[i], opinion |-> said[i]]])
    BY <2>1
  <2> DEFINE added == [i \in DOMAIN order |-> [claim |-> order[i], opinion |-> said[i]]]
  <2>3. added \in Seq(Decisions)
    BY <1>3, <2>2, AnswerTyped
  <2>4. DOMAIN added = DOMAIN Head(pending)
    BY DEF Orders
  <2>5. Works(w, "reviewing", Tail(pending), decided \o added)
    BY <2>2
  <2> HIDE DEF added, pending, decided
  <2>6. Len(added) >= 1 /\ Len(added) \in Nat
    <3>1. Head(pending) \in Seq(Claims) /\ Len(Head(pending)) \in 1 .. BatchSize /\ BatchSize \in Nat
      BY <1>3, ReviewAssumption DEF Batch
    <3>2. DOMAIN Head(pending) = 1 .. Len(Head(pending))
      BY <3>1, LenProperties
    <3>3. DOMAIN added = 1 .. Len(added) /\ Len(added) \in Nat
      BY <2>3, LenProperties
    <3>4. 1 \in 1 .. Len(added)
      BY <2>4, <3>1, <3>2, <3>3
    <3> QED
      BY <3>3, <3>4
  <2>7. Len(decided \o added) = Len(decided) + Len(added)
    BY <1>2, <2>3, ConcatProperties
  <2>8. task'[w].pending = Tail(pending) /\ task'[w].decided = decided \o added
    BY <2>5, WorksAlone
  <2>9. 2 * Len(task'[w].decided) + Len(task'[w].pending) > 2 * Len(decided) + Len(pending)
    BY <1>3, <2>6, <2>7, <2>8
  <2> QED
    BY <2>9 DEF Progress, pending, decided
<1>5. CASE BatchFails(w)
  <2> DEFINE new == Halves(Head(pending)) \o Tail(pending)
  <2>1. Len(Head(pending)) # 1 /\ Works(w, "reviewing", new, decided)
    BY <1>5 DEF BatchFails
  <2>2. Len(new) = Len(pending) + 1
    <3> DEFINE halves == Halves(Head(pending))
    <3>1. halves \in Seq(Batch)
      BY <1>3, <2>1, HalvesTyped
    <3>2. Len(halves) = 2 /\ new = halves \o Tail(pending)
      BY DEF Halves
    <3> HIDE DEF halves, new, pending
    <3>3. Len(new) = Len(halves) + Len(Tail(pending))
      BY <1>3, <3>1, <3>2, ConcatProperties
    <3> QED
      BY <1>3, <3>2, <3>3
  <2> HIDE DEF new, pending, decided
  <2>3. task'[w].pending = new /\ task'[w].decided = decided
    BY <2>1, WorksAlone
  <2>4. 2 * Len(task'[w].decided) + Len(task'[w].pending) > 2 * Len(decided) + Len(pending)
    BY <1>3, <2>2, <2>3
  <2> QED
    BY <2>4 DEF Progress, pending, decided
<1> QED
  BY <1>4, <1>5

\* Whatever the model refuses, an execution calls it fewer than twice as often
\* as there are claims: every call makes progress, and the progress is bounded.
THEOREM CallsAreBounded == Spec => []ProgressBounded /\ CallsProgress
<1>1. ASSUME ClaimsInv PROVE ProgressBounded
  <2> SUFFICES ASSUME NEW w \in Workers, HasClaims(w) PROVE Progress(w) <= 2 * Len(Candidates)
    BY DEF ProgressBounded
  <2>1. /\ task[w].pending \in Seq(Batch) /\ task[w].decided \in Seq(Decisions)
        /\ Partition(task[w].pending, task[w].decided)
    BY <1>1, TaskTyped DEF ClaimsInv, ClaimsPartitioned, HasClaims
  <2>2. Len(task[w].decided) + Len(task[w].pending) <= Len(Candidates)
    BY <2>1, PartitionBounded
  <2>3. Len(task[w].decided) \in Nat /\ Len(task[w].pending) \in Nat /\ Len(Candidates) \in Nat
    BY <2>1, LenProperties, CandidateFacts
  <2>4. \A d, p, n \in Nat : d + p <= n => 2 * d + p <= 2 * n
    OBVIOUS
  <2> QED
    BY <2>2, <2>3, <2>4 DEF Progress
<1>2. ClaimsInv /\ [Next]_vars =>
        [\A w \in Workers : BatchAnswered(w) \/ BatchFails(w) => Progress(w)' > Progress(w)]_vars
  BY CallProgresses DEF ClaimsInv
<1> QED
  BY <1>1, <1>2, ClaimsInitially, ClaimsInvariant, PTL DEF Spec, CallsProgress

-------------------------------------------------------------------------------
(* The pack.                                                               *)

IsStrictTotalOrder(R, S) ==
  /\ \A x \in S : <<x, x>> \notin R
  /\ \A x, y, z \in S : <<x, y>> \in R /\ <<y, z>> \in R => <<x, z>> \in R
  /\ \A x, y \in S : x # y => <<x, y>> \in R \/ <<y, x>> \in R

Predecessors(R, S) == [x \in S |-> Cardinality({y \in S : <<y, x>> \in R})]

\* In a finite set with a strict total order, the numbers of predecessors are
\* the ranks 0, 1, 2 ... in that order.
LEMMA RanksOfTotalOrder ==
  ASSUME NEW S, IsFiniteSet(S), NEW R, IsStrictTotalOrder(R, S),
         NEW rank, rank = Predecessors(R, S)
  PROVE  /\ rank \in [S -> 0 .. Cardinality(S) - 1]
         /\ \A x, y \in S : <<x, y>> \in R <=> rank[x] < rank[y]
         /\ \A x, y \in S : rank[x] = rank[y] => x = y
         /\ \A r \in 0 .. Cardinality(S) - 1 : \E x \in S : rank[x] = r
<1> DEFINE ahead(x) == {y \in S : <<y, x>> \in R}
           n == Cardinality(S)
           ranks == 0 .. n - 1
<1> USE DEF IsStrictTotalOrder, Predecessors
<1>1. n \in Nat
  BY FS_CardinalityType
<1>2. ASSUME NEW x \in S
      PROVE  /\ rank[x] = Cardinality(ahead(x)) /\ rank[x] \in Nat
             /\ IsFiniteSet(ahead(x)) /\ rank[x] <= n - 1
  <2>1. ahead(x) \in SUBSET (S \ {x})
    OBVIOUS
  <2>2. IsFiniteSet(S \ {x}) /\ Cardinality(S \ {x}) = n - 1
    BY FS_RemoveElement
  <2> HIDE DEF ahead, n
  <2>3. IsFiniteSet(ahead(x)) /\ Cardinality(ahead(x)) <= n - 1
    BY <2>1, <2>2, FS_Subset
  <2>4. Cardinality(ahead(x)) \in Nat
    BY <2>3, FS_CardinalityType
  <2> QED
    BY <2>3, <2>4 DEF ahead
<1>3. ASSUME NEW x \in S, NEW y \in S, <<x, y>> \in R
      PROVE  rank[x] < rank[y]
  <2>1. ahead(x) \cup {x} \in SUBSET ahead(y) /\ x \notin ahead(x)
    BY <1>3
  <2> HIDE DEF ahead
  <2>2. IsFiniteSet(ahead(x) \cup {x}) /\ Cardinality(ahead(x) \cup {x}) = Cardinality(ahead(x)) + 1
    BY <1>2, <2>1, FS_AddElement
  <2>3. Cardinality(ahead(x) \cup {x}) <= Cardinality(ahead(y))
    BY <1>2, <2>1, FS_Subset
  <2> QED
    BY <1>2, <2>2, <2>3
<1> HIDE DEF ahead
<1>4. ASSUME NEW x \in S, NEW y \in S
      PROVE  (<<x, y>> \in R <=> rank[x] < rank[y]) /\ (rank[x] = rank[y] => x = y)
  <2>1. rank[x] \in Nat /\ rank[y] \in Nat
    BY <1>2
  <2>2. CASE x = y
    BY <2>1, <2>2
  <2>3. CASE <<x, y>> \in R
    BY <1>3, <2>1, <2>3
  <2>4. CASE x # y /\ <<x, y>> \notin R
    <3>1. <<y, x>> \in R
      BY <2>4
    <3>2. rank[y] < rank[x]
      BY <1>3, <3>1
    <3> QED
      BY <2>1, <2>4, <3>2
  <2> QED
    BY <2>2, <2>3, <2>4
<1>5. \A x, y \in S : rank[x] = rank[y] => x = y
  BY <1>4
<1>6. rank \in [S -> ranks]
  <2>1. ASSUME NEW x \in S PROVE rank[x] \in ranks
    <3>1. rank[x] \in Nat /\ rank[x] <= n - 1
      BY <1>2
    <3> HIDE DEF n
    <3> QED
      BY <1>1, <3>1
  <2> HIDE DEF ranks
  <2>2. rank = [x \in S |-> rank[x]]
    OBVIOUS
  <2> QED
    BY <2>1, <2>2
<1> HIDE DEF n
<1>7. IsFiniteSet(ranks) /\ Cardinality(ranks) = n
  BY <1>1, FS_Interval
<1> HIDE DEF ranks
<1>8. rank \in Injection(S, ranks)
  BY <1>5, <1>6, Fun_IsInj
<1>9. rank \in Surjection(S, ranks)
  BY <1>7, <1>8, FS_Injection DEF n
<1>10. \A r \in ranks : \E x \in S : rank[x] = r
  BY <1>9, Fun_SurjectionProperties
<1>11. \A x, y \in S : <<x, y>> \in R <=> rank[x] < rank[y]
  BY <1>4
<1> QED
  BY <1>5, <1>6, <1>10, <1>11 DEF ranks, n

\* The elements with fewer than limit predecessors are the first: at most
\* limit of them, and exactly limit if any other is left.
LEMMA FirstOfTotalOrder ==
  ASSUME NEW S, IsFiniteSet(S), NEW R, IsStrictTotalOrder(R, S),
         NEW limit \in Nat,
         NEW first, first = {x \in S : ~ Predecessors(R, S)[x] >= limit}
  PROVE  /\ Cardinality(first) <= limit
         /\ first # S => Cardinality(first) = limit
         /\ \A x \in first, y \in S \ first : <<x, y>> \in R
<1> DEFINE rank == Predecessors(R, S)
           n == Cardinality(S)
<1>1. first = {x \in S : ~ rank[x] >= limit} /\ rank = Predecessors(R, S)
  OBVIOUS
<1> HIDE DEF rank
<1>2. /\ rank \in [S -> 0 .. n - 1]
      /\ \A x, y \in S : <<x, y>> \in R <=> rank[x] < rank[y]
      /\ \A x, y \in S : rank[x] = rank[y] => x = y
      /\ \A r \in 0 .. n - 1 : \E x \in S : rank[x] = r
  BY <1>1, RanksOfTotalOrder
<1>3. n \in Nat
  BY FS_CardinalityType
<1> HIDE DEF n
<1>4. \A x \in S : rank[x] \in Nat /\ rank[x] <= n - 1
  BY <1>2, <1>3
<1>5. ASSUME NEW x \in first, NEW y \in S \ first PROVE <<x, y>> \in R
  <2>1. x \in S /\ ~ rank[x] >= limit /\ rank[y] >= limit
    BY <1>1
  <2>2. rank[x] < rank[y]
    BY <1>4, <2>1
  <2> QED
    BY <1>2, <2>1, <2>2
<1>6. CASE n <= limit
  <2>1. first = S
    BY <1>1, <1>3, <1>4, <1>6
  <2> QED
    BY <1>5, <1>6, <2>1 DEF n
<1>7. CASE limit < n
  <2> DEFINE places == 0 .. limit - 1
             place == [x \in first |-> rank[x]]
  <2>1. IsFiniteSet(places) /\ Cardinality(places) = limit
    BY FS_Interval
  <2>2. \A r \in places : \E x \in first : rank[x] = r
    <3> SUFFICES ASSUME NEW r \in places PROVE \E x \in first : rank[x] = r
      OBVIOUS
    <3>1. r \in 0 .. n - 1 /\ ~ r >= limit
      BY <1>3, <1>7
    <3>2. PICK x \in S : rank[x] = r
      BY <1>2, <3>1
    <3> QED
      BY <1>1, <3>1, <3>2
  <2>3. \A x \in first : rank[x] \in places
    BY <1>1, <1>4
  <2>4. place \in [first -> places]
    BY <2>3
  <2>5. \A x, y \in first : place[x] = place[y] => x = y
    BY <1>1, <1>2
  <2>6. \A r \in places : \E x \in first : place[x] = r
    BY <2>2
  <2> HIDE DEF places, place
  <2>7. place \in Injection(first, places) /\ place \in Surjection(first, places)
    BY <2>4, <2>5, <2>6, Fun_IsInj, Fun_IsSurj
  <2>8. Cardinality(first) = Cardinality(places)
    BY <2>1, <2>7, FS_Injection
  <2> QED
    BY <1>5, <2>1, <2>8
<1> QED
  BY <1>3, <1>6, <1>7


\* The order of the pack, as a relation between approvals.
PackOrder(decided) ==
  {p \in Approvals(decided) \X Approvals(decided) : Before(decided, p[1], p[2])}

\* No two approvals are about one fact, so that no two are about one claim and
\* the order of the pack is total.
LEMMA PackOrderIsTotal ==
  ASSUME NEW decided \in Seq(Decisions)
  PROVE  /\ IsFiniteSet(Approvals(decided))
         /\ IsStrictTotalOrder(PackOrder(decided), Approvals(decided))
<1> DEFINE A == Approvals(decided)
           R == PackOrder(decided)
<1>1. DOMAIN decided = 1 .. Len(decided) /\ Len(decided) \in Nat
  BY LenProperties
<1>2. IsFiniteSet(A)
  <2>1. A \in SUBSET (1 .. Len(decided))
    BY <1>1 DEF Approvals
  <2>2. IsFiniteSet(1 .. Len(decided))
    BY <1>1, FS_Interval
  <2> HIDE DEF A
  <2> QED
    BY <2>1, <2>2, FS_Subset
<1>3. ASSUME NEW i \in A
      PROVE  /\ i \in DOMAIN decided /\ i \in Nat
             /\ decided[i].claim \in Nat /\ decided[i].opinion.priority \in Nat
             /\ ~ Duplicate(decided, i)
  <2>1. i \in DOMAIN decided /\ ~ Duplicate(decided, i)
    BY DEF Approvals, Unique, Verdict
  <2>2. decided[i] \in Decisions
    BY <1>1, <2>1, ElementOfSeq
  <2>3. decided[i].claim \in Claims /\ decided[i].opinion \in Opinion
    BY <2>2 DEF Decisions
  <2>4. \A c \in Claims : c \in Nat
    BY ReviewAssumption, ElementOfSeq, LenProperties DEF Claims
  <2>5. decided[i].opinion.priority \in 0 .. 100
    BY <2>3 DEF Opinion
  <2>6. i \in Nat
    BY <1>1, <2>1
  <2>7. decided[i].claim \in Nat
    BY <2>3, <2>4
  <2>8. \A p \in 0 .. 100 : p \in Nat
    OBVIOUS
  <2>9. decided[i].opinion.priority \in Nat
    BY <2>5, <2>8, Zenon
  <2> QED
    BY <2>1, <2>6, <2>7, <2>9
<1>4. ASSUME NEW i \in A, NEW j \in A, decided[i].claim = decided[j].claim
      PROVE  i = j
  <2>1. CASE i < j
    BY <1>1, <1>3, <1>4, <2>1 DEF Duplicate
  <2>2. CASE j < i
    BY <1>1, <1>3, <1>4, <2>2 DEF Duplicate
  <2> QED
    BY <1>3, <2>1, <2>2
<1>5. \A i, j : <<i, j>> \in R <=> i \in A /\ j \in A /\ Before(decided, i, j)
  BY DEF PackOrder
<1> HIDE DEF A, R
<1>6. \A i \in A : <<i, i>> \notin R
  BY <1>3, <1>5 DEF Before
<1>7. ASSUME NEW i \in A, NEW j \in A, NEW k \in A, <<i, j>> \in R, <<j, k>> \in R
      PROVE  <<i, k>> \in R
  <2>1. Before(decided, i, j) /\ Before(decided, j, k)
    BY <1>5, <1>7
  <2>2. Before(decided, i, k)
    BY <1>3, <2>1 DEF Before
  <2> QED
    BY <1>5, <2>2
<1>8. ASSUME NEW i \in A, NEW j \in A, i # j
      PROVE  <<i, j>> \in R \/ <<j, i>> \in R
  <2>1. decided[i].claim # decided[j].claim
    BY <1>4, <1>8
  <2>2. Before(decided, i, j) \/ Before(decided, j, i)
    BY <1>3, <2>1 DEF Before
  <2> QED
    BY <1>5, <2>2
<1>9. IsStrictTotalOrder(R, A)
  BY <1>6, <1>7, <1>8 DEF IsStrictTotalOrder
<1> QED
  BY <1>2, <1>9 DEF A, R

\* What the governance approves are the first PackLimit approvals.
LEMMA ApprovedAreFirst ==
  ASSUME NEW decided \in Seq(Decisions), NEW rows, rows = Governed(decided)
  PROVE  LET A == Approvals(decided)
             first == {i \in A : ~ Predecessors(PackOrder(decided), A)[i] >= PackLimit}
         IN  /\ Approved(rows) = first
             /\ {i \in DOMAIN rows : rows[i].reason = "low_priority"} = A \ first
<1> DEFINE A == Approvals(decided)
           ahead(i) == Predecessors(PackOrder(decided), A)[i]
           first == {i \in A : ~ ahead(i) >= PackLimit}
<1>1. DOMAIN rows = DOMAIN decided /\ \A i \in DOMAIN rows : rows[i] = Row(decided, i)
  BY DEF Governed
<1>2. ASSUME NEW i \in A
      PROVE  Excess(decided, i) <=> ahead(i) >= PackLimit
  <2>1. {j \in A : <<j, i>> \in PackOrder(decided)} = {j \in A : Before(decided, j, i)}
    BY DEF PackOrder
  <2>2. ahead(i) = Cardinality({j \in A : Before(decided, j, i)})
    BY <2>1 DEF Predecessors
  <2> QED
    BY <2>2 DEF Excess
<1>3. A \subseteq DOMAIN decided
  BY DEF Approvals
<1>4. \A i \in DOMAIN decided : i \in A <=> Unique(decided, i).decision = "agent_approved"
  BY DEF Approvals
<1>5. \A i : Excess(decided, i) => i \in A
  BY DEF Excess
<1> HIDE DEF A, ahead
<1>6. ASSUME NEW i \in DOMAIN rows
      PROVE  /\ rows[i].decision = "agent_approved" <=> i \in A /\ ~ Excess(decided, i)
             /\ rows[i].reason = "low_priority" <=> Excess(decided, i)
  <2>1. CASE Excess(decided, i)
    <3>1. rows[i].decision = "agent_rejected" /\ rows[i].reason = "low_priority"
      BY <1>1, <2>1 DEF Row, Verdict
    <3> QED
      BY <2>1, <3>1
  <2>2. CASE ~ Excess(decided, i)
    <3>1. rows[i].decision = Unique(decided, i).decision /\ rows[i].reason = Unique(decided, i).reason
      BY <1>1, <2>2 DEF Row
    <3>2. Unique(decided, i).reason # "low_priority"
      BY DEF Unique, Screened, Verdict
    <3> QED
      BY <1>1, <1>4, <2>2, <3>1, <3>2
  <2> QED
    BY <2>1, <2>2
<1>7. Approved(rows) = first
  BY <1>1, <1>2, <1>3, <1>6 DEF Approved
<1>8. {i \in DOMAIN rows : rows[i].reason = "low_priority"} = A \ first
  BY <1>1, <1>2, <1>3, <1>5, <1>6
<1> QED
  BY <1>7, <1>8 DEF A, ahead

LEMMA GovernanceKeepsTheBest ==
  ASSUME NEW decided \in Seq(Decisions), NEW rows, rows = Governed(decided)
  PROVE  /\ Cardinality(Approved(rows)) <= PackLimit
         /\ \A i \in DOMAIN rows : rows[i].reason = "low_priority" =>
              /\ Cardinality(Approved(rows)) = PackLimit
              /\ \A j \in Approved(rows) : Before(decided, j, i)
         /\ Contenders(rows) = Approvals(decided)
<1> DEFINE A == Approvals(decided)
           R == PackOrder(decided)
           first == Approved(rows)
           excess == {i \in DOMAIN rows : rows[i].reason = "low_priority"}
<1>1. first = {i \in A : ~ Predecessors(R, A)[i] >= PackLimit} /\ excess = A \ first
  BY ApprovedAreFirst
<1>2. IsFiniteSet(A) /\ IsStrictTotalOrder(R, A)
  BY PackOrderIsTotal
<1>3. PackLimit \in Nat
  BY ReviewAssumption
<1>4. \A i, j : <<i, j>> \in R => Before(decided, i, j)
  BY DEF PackOrder
<1>5. Contenders(rows) = first \cup excess
  BY DEF Contenders
<1> HIDE DEF A, R, first, excess
<1>6. /\ Cardinality(first) <= PackLimit
      /\ first # A => Cardinality(first) = PackLimit
      /\ \A x \in first, y \in A \ first : <<x, y>> \in R
  BY <1>1, <1>2, <1>3, FirstOfTotalOrder
<1>7. Contenders(rows) = A
  BY <1>1, <1>5
<1>8. ASSUME NEW i \in excess
      PROVE  Cardinality(first) = PackLimit /\ \A j \in first : Before(decided, j, i)
  <2>1. i \in A /\ i \notin first
    BY <1>1
  <2> QED
    BY <1>4, <1>6, <2>1
<1> QED
  BY <1>6, <1>7, <1>8 DEF A, first, excess

\* For any claims, opinions and limit: a claim loses its place in the pack
\* only to a full pack of better ones, and a sound approval of a fact nobody
\* else states is lost to nothing else.
THEOREM PackAlwaysKeepsTheBest == Spec => []PackKeepsTheBest
<1>1. ASSUME ReviewsGoverned PROVE PackKeepsTheBest
  <2> SUFFICES ASSUME NEW k \in Runs, review[k] # NoReview
               PROVE  LET rows == review[k]
                          better(j, i) ==
                            \/ rows[j].opinion.priority > rows[i].opinion.priority
                            \/ /\ rows[j].opinion.priority = rows[i].opinion.priority
                               /\ rows[j].claim < rows[i].claim
                          alone(i) == \A j \in DOMAIN rows \ {i} :
                                        FactOf[rows[j].claim] # FactOf[rows[i].claim]
                          sound(o) == o.decision = "agent_approved"
                                        /\ ~ (o.risky \/ o.corrected \/ o.inferred)
                      IN  /\ Cardinality(Approved(rows)) <= PackLimit
                          /\ \A i \in DOMAIN rows :
                               /\ rows[i].reason = "low_priority" =>
                                    /\ Cardinality(Approved(rows)) = PackLimit
                                    /\ \A j \in Approved(rows) : better(j, i)
                               /\ sound(rows[i].opinion) /\ alone(i) =>
                                    i \in Contenders(rows)
    BY DEF PackKeepsTheBest
  <2> DEFINE rows == review[k]
  <2>1. PICK decided \in Seq(Decisions) : rows = Governed(decided)
    BY <1>1 DEF ReviewsGoverned
  <2>2. /\ DOMAIN rows = DOMAIN decided /\ DOMAIN decided = 1 .. Len(decided) /\ Len(decided) \in Nat
        /\ \A i \in DOMAIN rows :
             rows[i].opinion = decided[i].opinion /\ rows[i].claim = decided[i].claim
    BY <2>1, LenProperties DEF Governed, Row
  <2>3. /\ Cardinality(Approved(rows)) <= PackLimit
        /\ \A i \in DOMAIN rows : rows[i].reason = "low_priority" =>
             /\ Cardinality(Approved(rows)) = PackLimit
             /\ \A j \in Approved(rows) : Before(decided, j, i)
        /\ Contenders(rows) = Approvals(decided)
    BY <2>1, GovernanceKeepsTheBest
  <2>4. Approved(rows) \subseteq DOMAIN rows
    BY DEF Approved
  <2> HIDE DEF rows
  <2>5. ASSUME NEW i \in DOMAIN rows, NEW j \in Approved(rows), Before(decided, j, i)
        PROVE  \/ rows[j].opinion.priority > rows[i].opinion.priority
               \/ /\ rows[j].opinion.priority = rows[i].opinion.priority
                  /\ rows[j].claim < rows[i].claim
    BY <2>2, <2>4, <2>5 DEF Before
  <2>6. ASSUME NEW i \in DOMAIN rows, rows[i].opinion.decision = "agent_approved",
               ~ (rows[i].opinion.risky \/ rows[i].opinion.corrected \/ rows[i].opinion.inferred),
               \A j \in DOMAIN rows \ {i} : FactOf[rows[j].claim] # FactOf[rows[i].claim]
        PROVE  i \in Contenders(rows)
    <3>1. ~ Duplicate(decided, i)
      <4> SUFFICES ASSUME NEW j \in 1 .. i - 1,
                          FactOf[decided[j].claim] = FactOf[decided[i].claim]
                   PROVE  FALSE
        BY DEF Duplicate
      <4>1. j \in DOMAIN rows \ {i}
        BY <2>2
      <4> QED
        BY <2>2, <2>6, <4>1
    <3>2. Unique(decided, i).decision = "agent_approved"
      BY <2>2, <2>6, <3>1 DEF Unique, Screened, Verdict
    <3> QED
      BY <2>2, <2>3, <3>2 DEF Approvals
  <2> QED
    BY <2>3, <2>5, <2>6 DEF rows
<1>2. Init => TypeOK /\ ReviewsGoverned
  BY DEF Init, TypeOK, ReviewsGoverned
<1> QED
  BY <1>1, <1>2, TypeInvariant, GovernedInvariant, PTL DEF Spec

===============================================================================
