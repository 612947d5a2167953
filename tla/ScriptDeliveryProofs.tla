-------------------------- MODULE ScriptDeliveryProofs --------------------------
(***************************************************************************)
(* Proofs about MarketingTopics and ScriptDelivery, for any tasks,         *)
(* signals, snapshots, runs, drafts, budgets and thresholds.               *)
(*                                                                         *)
(* What the commands check at the moment they run is turned into facts     *)
(* about rows that stay: what a run froze (FrozenTopic), what its versions *)
(* contain (VersionsSound), what its reports say of them (ReportsSound),   *)
(* what reviews and exports rest on (DecisionsSound).                      *)
(***************************************************************************)
EXTENDS ScriptDelivery, FiniteSetTheorems, TLAPS

\* What a sequence and its extension by one element have in common.
LEMMA Appended ==
  ASSUME NEW S, NEW s \in Seq(S), NEW e \in S
  PROVE  /\ Append(s, e) \in Seq(S)
         /\ Len(Append(s, e)) = Len(s) + 1
         /\ Len(s) \in Nat
         /\ \A i \in 1 .. Len(s) : Append(s, e)[i] = s[i]
         /\ Append(s, e)[Len(s) + 1] = e
         /\ 1 .. Len(s) + 1 = (1 .. Len(s)) \cup {Len(s) + 1}
OBVIOUS

-------------------------------------------------------------------------------
(* Topics.                                                                 *)

\* A reviewed task has candidates, a task with candidates was created, and its
\* snapshot holds at least one fact.
TopicsReady ==
  \A t \in Tasks :
    /\ topicReviews[t] # <<>> => candidates[t] # {}
    /\ candidates[t] # {} => Created(t) /\ FactsOf[snapshotOf[t]] # <<>>

TopicInv == TopicTypeOK /\ TopicsReady /\ OneApprovedTopic

LEMMA TopicInitInv == TopicInit => TopicInv
BY DEF TopicInit, TopicInv, TopicTypeOK, TopicsReady, OneApprovedTopic, StandingApproval

\* Rows of topic reviews are only appended, and a frozen snapshot stays.
TopicRowsStay ==
  \A t \in Tasks :
    /\ Created(t) => snapshotOf'[t] = snapshotOf[t]
    /\ Len(topicReviews[t]) <= Len(topicReviews'[t])
    /\ \A i \in 1 .. Len(topicReviews[t]) : topicReviews'[t][i] = topicReviews[t][i]

LEMMA TopicReviewStep ==
  ASSUME TopicInv, NEW t \in Tasks, NEW x \in Signals,
         NEW decision \in {"approve", "reject", "defer"}, ReviewTopic(t, x, decision)
  PROVE  TopicInv' /\ TopicRowsStay
<1> DEFINE row == [signal |-> x, decision |-> decision]
           s == topicReviews[t]
<1>1. s \in Seq(TopicReviews) /\ row \in TopicReviews
  BY DEF TopicInv, TopicTypeOK, TopicReviews
<1>2. topicReviews' = [topicReviews EXCEPT ![t] = Append(s, row)]
  BY DEF ReviewTopic
<1>3. topicReviews'[t] = Append(s, row) /\ \A u \in Tasks \ {t} : topicReviews'[u] = topicReviews[u]
  BY <1>2 DEF TopicInv, TopicTypeOK
<1>4. /\ Append(s, row) \in Seq(TopicReviews)
      /\ Len(Append(s, row)) = Len(s) + 1
      /\ Len(s) \in Nat
      /\ \A i \in 1 .. Len(s) : Append(s, row)[i] = s[i]
      /\ Append(s, row)[Len(s) + 1] = row
  BY <1>1, Appended
<1>5. TopicTypeOK'
  BY <1>2, <1>4 DEF TopicInv, TopicTypeOK, ReviewTopic
<1>6. TopicsReady'
  BY <1>3 DEF TopicInv, TopicsReady, ReviewTopic, Created
<1>7. TopicRowsStay
  <2>1. \A u \in Tasks : Len(topicReviews[u]) \in Nat
    BY DEF TopicInv, TopicTypeOK
  <2> QED BY <1>3, <1>4, <2>1 DEF TopicRowsStay, ReviewTopic
<1>8. OneApprovedTopic'
  <2> SUFFICES ASSUME NEW u \in Tasks,
                      NEW i \in 1 .. Len(topicReviews'[u]), NEW j \in 1 .. Len(topicReviews'[u]),
                      StandingApproval(u, i)', StandingApproval(u, j)'
               PROVE  i = j
    BY DEF OneApprovedTopic
  <2>1. CASE u # t
    BY <2>1, <1>3 DEF TopicInv, OneApprovedTopic, StandingApproval
  <2>2. ASSUME u = t, NEW k \in 1 .. Len(s), StandingApproval(t, k)'
        PROVE  StandingApproval(t, k) /\ s[k].signal # x
    <3> DEFINE after == topicReviews'[t]
    <3>1. /\ after[k].decision = "approve"
          /\ \A other \in k + 1 .. Len(after) : after[other].signal # after[k].signal
      BY <2>2 DEF StandingApproval
    <3>2. after[k] = s[k] /\ Len(after) = Len(s) + 1 /\ after[Len(s) + 1] = row
      BY <1>3, <1>4
    <3>3. \A other \in k + 1 .. Len(s) : other \in 1 .. Len(s) /\ other \in k + 1 .. Len(after)
      BY <1>4, <3>2
    <3>4. \A other \in k + 1 .. Len(s) : s[other].signal # s[k].signal
      BY <1>3, <1>4, <3>1, <3>2, <3>3
    <3>5. Len(s) + 1 \in k + 1 .. Len(after)
      BY <1>4, <3>2
    <3>6. s[k].signal # x
      BY <3>1, <3>2, <3>5
    <3> QED BY <3>1, <3>2, <3>4, <3>6 DEF StandingApproval
  <2>3. ASSUME u = t, NEW k \in 1 .. Len(s), StandingApproval(t, k)', decision = "approve"
        PROVE  FALSE
    BY <2>2, <2>3 DEF ReviewTopic, AnotherApproved
  <2>4. ASSUME u = t, NEW k, k = Len(s) + 1, StandingApproval(t, k)'
        PROVE  decision = "approve"
    BY <2>4, <1>3, <1>4 DEF StandingApproval
  <2>5. CASE u = t /\ i \in 1 .. Len(s) /\ j \in 1 .. Len(s)
    BY <2>2, <2>5 DEF TopicInv, OneApprovedTopic
  <2>6. CASE u = t /\ (i = Len(s) + 1 \/ j = Len(s) + 1)
    <3>1. decision = "approve"
      BY <2>4, <2>6
    <3>2. ~(i \in 1 .. Len(s)) /\ ~(j \in 1 .. Len(s))
      BY <2>3, <2>6, <3>1
    <3> QED BY <2>6, <3>2, <1>3, <1>4
  <2>7. u = t => i \in 1 .. Len(s) \cup {Len(s) + 1} /\ j \in 1 .. Len(s) \cup {Len(s) + 1}
    BY <1>3, <1>4
  <2> QED BY <2>1, <2>5, <2>6, <2>7
<1> QED BY <1>5, <1>6, <1>7, <1>8 DEF TopicInv

LEMMA TopicStep ==
  ASSUME TopicInv, TopicNext
  PROVE  TopicInv' /\ TopicRowsStay
<1>1. \A t \in Tasks : Len(topicReviews[t]) \in Nat
  BY DEF TopicInv, TopicTypeOK
<1>2. ASSUME NEW t \in Tasks, NEW s \in Snapshots, CreateTask(t, s)
      PROVE  TopicInv' /\ TopicRowsStay
  <2>1. TopicTypeOK'
    BY <1>2 DEF TopicInv, TopicTypeOK, CreateTask
  <2>2. TopicsReady'
    BY <1>2 DEF TopicInv, TopicTypeOK, TopicsReady, CreateTask, Created
  <2>3. OneApprovedTopic'
    BY <1>2 DEF TopicInv, OneApprovedTopic, StandingApproval, CreateTask
  <2>4. TopicRowsStay
    BY <1>1, <1>2 DEF TopicInv, TopicTypeOK, TopicRowsStay, CreateTask, Created
  <2> QED BY <2>1, <2>2, <2>3, <2>4 DEF TopicInv
<1>3. ASSUME NEW x \in Signals, AddSignal(x)
      PROVE  TopicInv' /\ TopicRowsStay
  BY <1>1, <1>3 DEF TopicInv, TopicTypeOK, TopicsReady, OneApprovedTopic, StandingApproval, AddSignal,
                    TopicRowsStay, Created
<1>4. ASSUME NEW t \in Tasks, Analyze(t)
      PROVE  TopicInv' /\ TopicRowsStay
  <2>1. TopicTypeOK'
    BY <1>4 DEF TopicInv, TopicTypeOK, Analyze
  <2>2. TopicsReady'
    BY <1>4 DEF TopicInv, TopicTypeOK, TopicsReady, Analyze, Created
  <2>3. OneApprovedTopic'
    BY <1>4 DEF TopicInv, OneApprovedTopic, StandingApproval, Analyze
  <2>4. TopicRowsStay
    BY <1>1, <1>4 DEF TopicRowsStay, Analyze
  <2> QED BY <2>1, <2>2, <2>3, <2>4 DEF TopicInv
<1> QED BY <1>2, <1>3, <1>4, TopicReviewStep DEF TopicNext

-------------------------------------------------------------------------------
(* The rows of a run.                                                      *)

\* A run that was not created has no rows.
Blank(r) ==
  ~Started(r) => versions[r] = <<>> /\ evaluations[r] = <<>> /\ finals[r] = <<>> /\ exports[r] = <<>>

\* A run stands on a decision that approves its topic, and on the snapshot of its task.
FrozenTopic(r) ==
  Started(r) =>
    /\ run[r].review \in 1 .. Len(topicReviews[run[r].task])
    /\ topicReviews[run[r].task][run[r].review] = [signal |-> run[r].signal, decision |-> "approve"]
    /\ run[r].snapshot = snapshotOf[run[r].task]
    /\ Created(run[r].task)
    /\ Facts(r) # <<>>
    /\ run[r].threshold <= 100

SoundVersion(r, v) ==
  /\ Valid(r, versions[r][v].content)
  /\ versions[r][v].origin # "human_edit" => versions[r][v].content = Template(r)
  /\ versions[r][v].parent = v - 1
  /\ versions[r][v].origin = "auto_revision" =>
       v - 1 \in VersionNumbers(r) /\ versions[r][v - 1].origin = "human_edit"

VersionsSound(r) == \A v \in VersionNumbers(r) : SoundVersion(r, v)

ReportsSound(r) ==
  \A e \in 1 .. Len(evaluations[r]) :
    LET report == evaluations[r][e]
    IN /\ report.version \in VersionNumbers(r)
       /\ report.score = Score(r, versions[r][report.version].content)
       /\ report.passed = (report.score >= run[r].threshold)

FinalsSound(r) ==
  \A f \in 1 .. Len(finals[r]) :
    LET final == finals[r][f]
    IN /\ final.version \in VersionNumbers(r)
       /\ final.evaluation \in 1 .. Len(evaluations[r])
       /\ evaluations[r][final.evaluation].version = final.version
       /\ final.decision = "approve" => evaluations[r][final.evaluation].passed

ExportsSound(r) ==
  \A x \in 1 .. Len(exports[r]) :
    /\ exports[r][x].final \in 1 .. Len(finals[r])
    /\ Approves(finals[r][exports[r][x].final], exports[r][x].version)

DecisionsSound(r) == FinalsSound(r) /\ ExportsSound(r)

BudgetKept(r) == Started(r) => Cardinality(Revisions(r)) <= run[r].budget

RunInv(r) ==
  /\ Blank(r)
  /\ FrozenTopic(r)
  /\ VersionsSound(r)
  /\ ReportsSound(r)
  /\ DecisionsSound(r)
  /\ BudgetKept(r)

IInv == TypeOK /\ TopicInv /\ \A r \in Runs : RunInv(r)

LEMMA InitInv == Init => IInv
<1> SUFFICES ASSUME Init PROVE IInv
  OBVIOUS
<1>1. TopicInv /\ TypeOK
  BY TopicInitInv DEF Init, TopicInv, TypeOK
<1>2. ASSUME NEW r \in Runs PROVE RunInv(r)
  <2>1. ~Started(r) /\ versions[r] = <<>> /\ evaluations[r] = <<>> /\ finals[r] = <<>> /\ exports[r] = <<>>
    BY DEF Init, Started
  <2> QED BY <2>1 DEF RunInv, Blank, FrozenTopic, VersionsSound, ReportsSound, DecisionsSound,
                      FinalsSound, ExportsSound, BudgetKept, VersionNumbers
<1> QED BY <1>1, <1>2 DEF IInv

\* What a run froze decides what its template, its checks and its scores are.
LEMMA FrozenDecides ==
  ASSUME NEW r \in Runs, run'[r] = run[r]
  PROVE  /\ Started(r)' <=> Started(r)
         /\ Topic(r)' = Topic(r) /\ Facts(r)' = Facts(r)
         /\ Template(r)' = Template(r)
         /\ \A content : (Valid(r, content)' <=> Valid(r, content)) /\ Score(r, content)' = Score(r, content)
<1>1. Topic(r)' = Topic(r) /\ Facts(r)' = Facts(r) /\ (Started(r)' <=> Started(r))
  BY DEF Topic, Facts, Started
<1>2. Template(r)' = Template(r)
  BY <1>1 DEF Template
<1>3. ASSUME NEW content
      PROVE  (Valid(r, content)' <=> Valid(r, content)) /\ Score(r, content)' = Score(r, content)
  <2>1. Valid(r, content)' <=> Valid(r, content)
    BY <1>1 DEF Valid, Lineage
  <2>2. Points(Valid(r, content), 10)' = Points(Valid(r, content), 10)
    BY <2>1 DEF Points
  <2> QED BY <2>1, <2>2 DEF Score, Points
<1> QED BY <1>1, <1>2, <1>3

\* A step that leaves the rows of a run alone, and topic rows in place, keeps
\* what is known of the run.
LEMMA RunUntouched ==
  ASSUME IInv, NEW r \in Runs, TopicRowsStay,
         run'[r] = run[r], versions'[r] = versions[r], evaluations'[r] = evaluations[r],
         finals'[r] = finals[r], exports'[r] = exports[r]
  PROVE  RunInv(r)'
<1>1. RunInv(r)
  BY DEF IInv
<1>2. Blank(r)'
  BY <1>1, FrozenDecides DEF RunInv, Blank
<1>3. FrozenTopic(r)'
  <2> SUFFICES ASSUME Started(r) PROVE FrozenTopic(r)'
    BY FrozenDecides DEF FrozenTopic
  <2>1. run[r] \in Frozen
    BY DEF IInv, TypeOK, Started
  <2>2. run[r].task \in Tasks
    BY <2>1 DEF Frozen
  <2>3. /\ topicReviews'[run[r].task][run[r].review] = topicReviews[run[r].task][run[r].review]
        /\ run[r].review \in 1 .. Len(topicReviews'[run[r].task])
        /\ snapshotOf'[run[r].task] = snapshotOf[run[r].task]
    <3> DEFINE t == run[r].task
    <3>1. Len(topicReviews[t]) \in Nat
      BY <2>2 DEF IInv, TypeOK, TopicTypeOK
    <3>2. Created(t) /\ run[r].review \in 1 .. Len(topicReviews[t])
      BY <1>1 DEF RunInv, FrozenTopic
    <3>3. /\ snapshotOf'[t] = snapshotOf[t]
          /\ Len(topicReviews[t]) <= Len(topicReviews'[t])
          /\ topicReviews'[t][run[r].review] = topicReviews[t][run[r].review]
      BY <2>2, <3>2 DEF TopicRowsStay
    <3>4. run[r].review \in 1 .. Len(topicReviews'[t])
      BY <3>1, <3>2, <3>3
    <3> QED BY <3>3, <3>4
  <2> QED BY <1>1, <2>3, FrozenDecides DEF RunInv, FrozenTopic, Created
<1>4. VersionsSound(r)'
  BY <1>1, FrozenDecides DEF RunInv, VersionsSound, SoundVersion, VersionNumbers
<1>5. ReportsSound(r)'
  BY <1>1, FrozenDecides DEF RunInv, ReportsSound, VersionNumbers
<1>6. DecisionsSound(r)'
  BY <1>1 DEF RunInv, DecisionsSound, FinalsSound, ExportsSound, VersionNumbers
<1>7. BudgetKept(r)'
  BY <1>1, FrozenDecides DEF RunInv, BudgetKept, Revisions, VersionNumbers
<1> QED BY <1>2, <1>3, <1>4, <1>5, <1>6, <1>7 DEF RunInv

-------------------------------------------------------------------------------
(* The steps.                                                              *)

LEMMA TopicsUnchanged ==
  ASSUME IInv, UNCHANGED topicVars
  PROVE  TopicInv' /\ TopicRowsStay
<1>1. TopicInv'
  BY DEF IInv, TopicInv, TopicTypeOK, TopicsReady, OneApprovedTopic, StandingApproval, Created, topicVars
<1>2. \A t \in Tasks : Len(topicReviews[t]) \in Nat
  BY DEF IInv, TypeOK, TopicTypeOK
<1>3. TopicRowsStay
  BY <1>2 DEF TopicRowsStay, topicVars
<1> QED BY <1>1, <1>3

\* The template is a content, and where it is valid the critic gives it all points.
LEMMA TemplateScores ==
  ASSUME IInv, NEW r \in Runs, Started(r)
  PROVE  /\ Template(r) \in Contents
         /\ Valid(r, Template(r)) => Score(r, Template(r)) = 100
<1>1. run[r] \in Frozen
  BY DEF IInv, TypeOK, Started
<1>2. Facts(r) \in Seq(Members) /\ Topic(r) \in Signals
  BY <1>1, TopicAssumption DEF Facts, Topic, Frozen
<1>3. Facts(r) # <<>>
  BY DEF IInv, RunInv, FrozenTopic
<1>4. Facts(r)[1] \in Template(r).members
  BY <1>2, <1>3 DEF Template
<1>5. Topic(r) \in Template(r).signals
  BY DEF Template
<1>6. Template(r).hook /\ Template(r).cta /\ Template(r).structure
  BY DEF Template
<1>7. Valid(r, Template(r)) => Template(r).form
  BY DEF Valid
<1>8. ASSUME Valid(r, Template(r)) PROVE Score(r, Template(r)) = 100
  BY <1>4, <1>5, <1>6, <1>7, <1>8 DEF Score, Points
<1>9. Template(r) \in Contents
  BY <1>2 DEF Template, Contents
<1> QED BY <1>8, <1>9

LEMMA ScoreRange ==
  ASSUME NEW r, NEW content
  PROVE  Score(r, content) \in 0 .. 100
<1>1. \A met, n : Points(met, n) \in {0, n}
  BY DEF Points
<1> DEFINE a == Points(content.form, 20)
           b == Points(content.hook, 20)
           c == Points(content.members # {} /\ content.signals # {}, 20)
           d == Points(content.cta, 15)
           e == Points(content.structure, 15)
           f == Points(Valid(r, content), 10)
<1>2. a \in {0, 20} /\ b \in {0, 20} /\ c \in {0, 20} /\ d \in {0, 15} /\ e \in {0, 15} /\ f \in {0, 10}
  BY <1>1
<1>3. Score(r, content) = a + b + c + d + e + f
  BY DEF Score
<1> HIDE DEF a, b, c, d, e, f
<1> QED BY <1>2, <1>3

LEMMA RevisionsFinite ==
  ASSUME IInv, NEW r \in Runs
  PROVE  IsFiniteSet(Revisions(r)) /\ Cardinality(Revisions(r)) \in Nat
<1>1. Len(versions[r]) \in Nat
  BY DEF IInv, TypeOK
<1>2. IsFiniteSet(1 .. Len(versions[r]))
  BY <1>1, FS_Interval
<1>3. Revisions(r) \subseteq 1 .. Len(versions[r])
  BY DEF Revisions, VersionNumbers
<1>4. IsFiniteSet(Revisions(r))
  BY <1>2, <1>3, FS_Subset
<1> QED BY <1>4, FS_CardinalityType

LEMMA AddVersionStep ==
  ASSUME IInv, NEW r \in Runs, Started(r), NEW content \in Contents,
         NEW origin \in {"generated", "human_edit", "auto_revision"},
         AddVersion(r, origin, content),
         origin # "human_edit" => content = Template(r),
         origin = "auto_revision" =>
           /\ Latest(r) \in VersionNumbers(r)
           /\ versions[r][Latest(r)].origin = "human_edit"
           /\ BudgetLeft(r)
  PROVE  IInv'
<1> DEFINE n == Len(versions[r])
           row == [origin |-> origin, parent |-> Latest(r), content |-> content]
<1>1. versions[r] \in Seq(Versions) /\ n \in Nat
  BY DEF IInv, TypeOK
<1>2. row \in Versions
  BY <1>1 DEF Versions, Latest
<1>3. /\ versions' = [versions EXCEPT ![r] = Append(versions[r], row)]
      /\ UNCHANGED <<topicVars, run, evaluations, finals, exports>>
  BY DEF AddVersion
<1>4. versions'[r] = Append(versions[r], row) /\ \A q \in Runs \ {r} : versions'[q] = versions[q]
  BY <1>3 DEF IInv, TypeOK
<1>5. /\ Append(versions[r], row) \in Seq(Versions)
      /\ Len(Append(versions[r], row)) = n + 1
      /\ \A i \in 1 .. n : Append(versions[r], row)[i] = versions[r][i]
      /\ Append(versions[r], row)[n + 1] = row
  BY <1>1, <1>2, Appended
<1>6. TopicInv' /\ TopicRowsStay
  BY <1>3, TopicsUnchanged
<1>7. TypeOK'
  BY <1>3, <1>5, <1>6 DEF IInv, TypeOK, TopicInv
<1>8. ASSUME NEW q \in Runs \ {r} PROVE RunInv(q)'
  BY <1>3, <1>4, <1>6, RunUntouched
<1>9. run'[r] = run[r]
  BY <1>3
<1>10. RunInv(r)
  BY DEF IInv
<1>11. VersionNumbers(r) = 1 .. n /\ VersionNumbers(r)' = 1 .. n + 1
  BY <1>4, <1>5 DEF VersionNumbers
<1>12. \A v \in 1 .. n : versions'[r][v] = versions[r][v]
  BY <1>4, <1>5
<1>13. versions'[r][n + 1] = row
  BY <1>4, <1>5
<1>14. Blank(r)' /\ FrozenTopic(r)'
  BY <1>3, <1>9, <1>10, FrozenDecides DEF RunInv, Blank, FrozenTopic, Created, topicVars
<1>15. VersionsSound(r)'
  <2> SUFFICES ASSUME NEW v \in 1 .. n + 1 PROVE SoundVersion(r, v)'
    BY <1>11 DEF VersionsSound
  <2>1. ASSUME v \in 1 .. n PROVE SoundVersion(r, v)'
    <3>1. SoundVersion(r, v)
      BY <1>10, <1>11, <2>1 DEF RunInv, VersionsSound
    <3>2. versions'[r][v] = versions[r][v] /\ (v - 1 \in 1 .. n => versions'[r][v - 1] = versions[r][v - 1])
      BY <1>12, <2>1
    <3>3. v - 1 \in 1 .. n => v - 1 \in 1 .. n + 1
      BY <1>1
    <3> QED BY <1>9, <1>11, <3>1, <3>2, <3>3, FrozenDecides DEF SoundVersion
  <2>2. ASSUME v = n + 1 PROVE SoundVersion(r, v)'
    <3>1. versions'[r][v] = row /\ v - 1 = n
      BY <1>1, <1>13, <2>2
    <3>2. Valid(r, content)
      BY DEF AddVersion
    <3>3. origin = "auto_revision" => n \in 1 .. n + 1 /\ versions'[r][n].origin = "human_edit"
      BY <1>1, <1>11, <1>12 DEF Latest
    <3> QED BY <1>9, <1>11, <3>1, <3>2, <3>3, FrozenDecides DEF SoundVersion, Latest
  <2> QED BY <1>1, <2>1, <2>2
<1>16. ReportsSound(r)'
  <2> SUFFICES ASSUME NEW e \in 1 .. Len(evaluations[r])
               PROVE  /\ evaluations[r][e].version \in 1 .. n + 1
                      /\ evaluations[r][e].score = Score(r, versions'[r][evaluations[r][e].version].content)
                      /\ evaluations[r][e].passed = (evaluations[r][e].score >= run[r].threshold)
    BY <1>3, <1>9, <1>11, FrozenDecides DEF ReportsSound
  <2>1. /\ evaluations[r][e].version \in 1 .. n
        /\ evaluations[r][e].score = Score(r, versions[r][evaluations[r][e].version].content)
        /\ evaluations[r][e].passed = (evaluations[r][e].score >= run[r].threshold)
    BY <1>10, <1>11 DEF RunInv, ReportsSound
  <2> QED BY <1>1, <1>12, <2>1
<1>17. DecisionsSound(r)'
  <2>1. FinalsSound(r)'
    BY <1>1, <1>3, <1>10, <1>11 DEF RunInv, DecisionsSound, FinalsSound
  <2>2. ExportsSound(r)'
    BY <1>3, <1>10 DEF RunInv, DecisionsSound, ExportsSound, Approves
  <2> QED BY <2>1, <2>2 DEF DecisionsSound
<1>18. BudgetKept(r)'
  <2>1. Cardinality(Revisions(r)) <= run[r].budget
    BY <1>10 DEF RunInv, BudgetKept
  <2>2. CASE origin # "auto_revision"
    <3>1. Revisions(r)' = Revisions(r)
      BY <1>1, <1>11, <1>12, <1>13, <2>2 DEF Revisions
    <3> QED BY <1>9, <2>1, <3>1 DEF BudgetKept
  <2>3. CASE origin = "auto_revision"
    <3>1. Revisions(r)' = Revisions(r) \cup {n + 1}
      BY <1>1, <1>11, <1>12, <1>13, <2>3 DEF Revisions
    <3>2. n + 1 \notin Revisions(r)
      BY <1>1, <1>11 DEF Revisions
    <3>3. Cardinality(Revisions(r)') = Cardinality(Revisions(r)) + 1
      BY <3>1, <3>2, RevisionsFinite, FS_AddElement
    <3>4. Cardinality(Revisions(r)) < run[r].budget
      BY <2>3 DEF BudgetLeft
    <3>5. run[r] \in Frozen
      BY DEF IInv, TypeOK, Started
    <3>6. run[r].budget \in Nat
      BY <3>5 DEF Frozen
    <3>7. Cardinality(Revisions(r)') <= run[r].budget
      BY <3>3, <3>4, <3>6, RevisionsFinite
    <3> QED BY <1>9, <3>7 DEF BudgetKept
  <2> QED BY <2>2, <2>3
<1>19. RunInv(r)'
  BY <1>14, <1>15, <1>16, <1>17, <1>18 DEF RunInv
<1> QED BY <1>6, <1>7, <1>8, <1>19 DEF IInv

LEMMA GenerateStep ==
  ASSUME IInv, NEW r \in Runs, Generate(r)
  PROVE  IInv'
<1>1. Started(r) /\ AddVersion(r, "generated", Template(r))
  BY DEF Generate
<1> QED BY <1>1, TemplateScores, AddVersionStep

LEMMA EditStep ==
  ASSUME IInv, NEW r \in Runs, NEW content \in Drafts, Edit(r, content)
  PROVE  IInv'
<1>1. Started(r) /\ AddVersion(r, "human_edit", content)
  BY DEF Edit
<1>2. content \in Contents
  BY ScriptAssumption
<1> QED BY <1>1, <1>2, AddVersionStep

\* A revision answers a failed report, and only an edit can have failed.
LEMMA ReviseStep ==
  ASSUME IInv, NEW r \in Runs, Revise(r)
  PROVE  IInv'
<1> DEFINE last == versions[r][Latest(r)]
<1>1. Started(r) /\ BudgetLeft(r) /\ AddVersion(r, "auto_revision", Template(r))
  BY DEF Revise
<1>2. PICK e \in 1 .. Len(evaluations[r]) :
        evaluations[r][e].version = Latest(r) /\ ~evaluations[r][e].passed
  BY DEF Revise, LatestReport
<1>3. RunInv(r) /\ run[r] \in Frozen
  BY <1>1 DEF IInv, TypeOK, Started
<1>4. /\ Latest(r) \in VersionNumbers(r)
      /\ evaluations[r][e].score = Score(r, last.content)
      /\ ~(evaluations[r][e].score >= run[r].threshold)
  BY <1>2, <1>3 DEF RunInv, ReportsSound
<1>5. run[r].threshold <= 100 /\ run[r].threshold \in Nat
  BY <1>1, <1>3 DEF RunInv, FrozenTopic, Frozen
<1>6. Score(r, last.content) # 100
  BY <1>4, <1>5
<1>7. SoundVersion(r, Latest(r))
  BY <1>3, <1>4 DEF RunInv, VersionsSound
<1>8. last.origin = "human_edit"
  BY <1>1, <1>6, <1>7, TemplateScores DEF SoundVersion
<1> QED BY <1>1, <1>4, <1>8, TemplateScores, AddVersionStep

LEMMA EvaluateStep ==
  ASSUME IInv, NEW r \in Runs, NEW v \in VersionNumbers(r), Evaluate(r, v)
  PROVE  IInv'
<1> DEFINE score == Score(r, versions[r][v].content)
           row == [version |-> v, score |-> score, passed |-> score >= run[r].threshold]
           n == Len(evaluations[r])
<1>1. /\ evaluations' = [evaluations EXCEPT ![r] = Append(evaluations[r], row)]
      /\ UNCHANGED <<topicVars, run, versions, finals, exports>>
      /\ Started(r)
  BY DEF Evaluate
<1>2. evaluations[r] \in Seq(Evaluations)
  BY DEF IInv, TypeOK
<1>3. row \in Evaluations
  <2>1. score \in 0 .. 100
    BY ScoreRange
  <2>2. v \in Nat
    BY DEF VersionNumbers
  <2> HIDE DEF score
  <2> QED BY <2>1, <2>2 DEF Evaluations
<1>4. evaluations'[r] = Append(evaluations[r], row)
      /\ \A q \in Runs \ {r} : evaluations'[q] = evaluations[q]
  BY <1>1 DEF IInv, TypeOK
<1>5. /\ Append(evaluations[r], row) \in Seq(Evaluations)
      /\ Len(Append(evaluations[r], row)) = n + 1 /\ n \in Nat
      /\ \A i \in 1 .. n : Append(evaluations[r], row)[i] = evaluations[r][i]
      /\ Append(evaluations[r], row)[n + 1] = row
  BY <1>2, <1>3, Appended
<1>6. TopicInv' /\ TopicRowsStay
  BY <1>1, TopicsUnchanged
<1>7. TypeOK'
  BY <1>1, <1>5, <1>6 DEF IInv, TypeOK, TopicInv
<1>8. ASSUME NEW q \in Runs \ {r} PROVE RunInv(q)'
  BY <1>1, <1>4, <1>6, RunUntouched
<1>9. RunInv(r) /\ run'[r] = run[r] /\ versions'[r] = versions[r]
  BY <1>1 DEF IInv
<1>10. Blank(r)' /\ FrozenTopic(r)'
  BY <1>1, <1>9, FrozenDecides DEF RunInv, Blank, FrozenTopic, Created, topicVars
<1>11. VersionsSound(r)' /\ BudgetKept(r)'
  BY <1>9, FrozenDecides
     DEF RunInv, VersionsSound, SoundVersion, VersionNumbers, BudgetKept, Revisions
<1>12. ReportsSound(r)'
  <2> SUFFICES ASSUME NEW e \in 1 .. n + 1
               PROVE  LET report == evaluations'[r][e]
                      IN /\ report.version \in VersionNumbers(r)
                         /\ report.score = Score(r, versions[r][report.version].content)
                         /\ report.passed = (report.score >= run[r].threshold)
    BY <1>4, <1>5, <1>9, FrozenDecides DEF ReportsSound, VersionNumbers
  <2>1. CASE e \in 1 .. n
    BY <1>4, <1>5, <1>9, <2>1 DEF RunInv, ReportsSound
  <2>2. CASE e = n + 1
    <3>1. evaluations'[r][e] = row
      BY <1>4, <1>5, <2>2
    <3> HIDE DEF score
    <3>2. row.version = v /\ row.score = score /\ row.passed = (score >= run[r].threshold)
      OBVIOUS
    <3> QED BY <3>1, <3>2 DEF score
  <2> QED BY <1>5, <2>1, <2>2
<1>13. DecisionsSound(r)'
  <2>1. FinalsSound(r)'
    <3>1. \A e \in 1 .. n : e \in 1 .. n + 1 /\ evaluations'[r][e] = evaluations[r][e]
      BY <1>4, <1>5
    <3>2. Len(evaluations'[r]) = n + 1
      BY <1>4, <1>5
    <3> QED BY <1>1, <1>9, <3>1, <3>2 DEF RunInv, DecisionsSound, FinalsSound, VersionNumbers
  <2>2. ExportsSound(r)'
    BY <1>1, <1>9 DEF RunInv, DecisionsSound, ExportsSound, Approves
  <2> QED BY <2>1, <2>2 DEF DecisionsSound
<1>14. RunInv(r)'
  BY <1>10, <1>11, <1>12, <1>13 DEF RunInv
<1> QED BY <1>6, <1>7, <1>8, <1>14 DEF IInv

LEMMA FinalReviewStep ==
  ASSUME IInv, NEW r \in Runs, NEW v \in VersionNumbers(r), NEW decision \in {"approve", "reject"},
         FinalReview(r, v, decision)
  PROVE  IInv'
<1> DEFINE n == Len(finals[r])
<1>1. UNCHANGED <<topicVars, run, versions, evaluations, exports>> /\ Started(r)
  BY DEF FinalReview
<1>2. PICK e \in 1 .. Len(evaluations[r]) :
        /\ evaluations[r][e].version = v
        /\ decision = "approve" => evaluations[r][e].passed
        /\ finals' = [finals EXCEPT
             ![r] = Append(@, [version |-> v, evaluation |-> e, decision |-> decision])]
  BY DEF FinalReview, LatestReport
<1> DEFINE row == [version |-> v, evaluation |-> e, decision |-> decision]
<1>3. finals[r] \in Seq(Finals) /\ row \in Finals
  BY DEF IInv, TypeOK, Finals, VersionNumbers
<1>4. finals'[r] = Append(finals[r], row) /\ \A q \in Runs \ {r} : finals'[q] = finals[q]
  BY <1>2 DEF IInv, TypeOK
<1>5. /\ Append(finals[r], row) \in Seq(Finals)
      /\ Len(Append(finals[r], row)) = n + 1 /\ n \in Nat
      /\ \A i \in 1 .. n : Append(finals[r], row)[i] = finals[r][i]
      /\ Append(finals[r], row)[n + 1] = row
  BY <1>3, Appended
<1>6. TopicInv' /\ TopicRowsStay
  BY <1>1, TopicsUnchanged
<1>7. TypeOK'
  BY <1>1, <1>2, <1>5, <1>6 DEF IInv, TypeOK, TopicInv
<1>8. ASSUME NEW q \in Runs \ {r} PROVE RunInv(q)'
  BY <1>1, <1>4, <1>6, RunUntouched
<1>9. RunInv(r) /\ run'[r] = run[r] /\ versions'[r] = versions[r] /\ evaluations'[r] = evaluations[r]
  BY <1>1 DEF IInv
<1>10. Blank(r)' /\ FrozenTopic(r)'
  BY <1>1, <1>9, FrozenDecides DEF RunInv, Blank, FrozenTopic, Created, topicVars
<1>11. VersionsSound(r)' /\ BudgetKept(r)' /\ ReportsSound(r)'
  BY <1>9, FrozenDecides
     DEF RunInv, VersionsSound, SoundVersion, VersionNumbers, BudgetKept, Revisions, ReportsSound
<1>12. FinalsSound(r)'
  <2> SUFFICES ASSUME NEW f \in 1 .. n + 1
               PROVE  LET final == finals'[r][f]
                      IN /\ final.version \in VersionNumbers(r)
                         /\ final.evaluation \in 1 .. Len(evaluations[r])
                         /\ evaluations[r][final.evaluation].version = final.version
                         /\ final.decision = "approve" => evaluations[r][final.evaluation].passed
    BY <1>4, <1>5, <1>9 DEF FinalsSound, VersionNumbers
  <2>1. CASE f \in 1 .. n
    BY <1>4, <1>5, <1>9, <2>1 DEF RunInv, DecisionsSound, FinalsSound
  <2>2. CASE f = n + 1
    BY <1>2, <1>4, <1>5, <2>2
  <2> QED BY <1>5, <2>1, <2>2
<1>13. ExportsSound(r)'
  <2>1. \A f \in 1 .. n : f \in 1 .. n + 1 /\ finals'[r][f] = finals[r][f]
    BY <1>4, <1>5
  <2>2. Len(finals'[r]) = n + 1
    BY <1>4, <1>5
  <2> QED BY <1>1, <1>9, <2>1, <2>2 DEF RunInv, DecisionsSound, ExportsSound, Approves
<1>14. RunInv(r)'
  BY <1>10, <1>11, <1>12, <1>13 DEF RunInv, DecisionsSound
<1> QED BY <1>6, <1>7, <1>8, <1>14 DEF IInv

LEMMA ExportStep ==
  ASSUME IInv, NEW r \in Runs, NEW v \in VersionNumbers(r), Export(r, v)
  PROVE  IInv'
<1> DEFINE n == Len(exports[r])
<1>1. UNCHANGED <<topicVars, run, versions, evaluations, finals>> /\ Started(r)
  BY DEF Export
<1>2. PICK f \in 1 .. Len(finals[r]) :
        /\ Approves(finals[r][f], v)
        /\ exports' = [exports EXCEPT ![r] = Append(@, [version |-> v, final |-> f])]
  BY DEF Export, LatestApproval
<1> DEFINE row == [version |-> v, final |-> f]
<1>3. exports[r] \in Seq(Exports) /\ row \in Exports
  BY DEF IInv, TypeOK, Exports, VersionNumbers
<1>4. exports'[r] = Append(exports[r], row) /\ \A q \in Runs \ {r} : exports'[q] = exports[q]
  BY <1>2 DEF IInv, TypeOK
<1>5. /\ Append(exports[r], row) \in Seq(Exports)
      /\ Len(Append(exports[r], row)) = n + 1 /\ n \in Nat
      /\ \A i \in 1 .. n : Append(exports[r], row)[i] = exports[r][i]
      /\ Append(exports[r], row)[n + 1] = row
  BY <1>3, Appended
<1>6. TopicInv' /\ TopicRowsStay
  BY <1>1, TopicsUnchanged
<1>7. TypeOK'
  BY <1>1, <1>2, <1>5, <1>6 DEF IInv, TypeOK, TopicInv
<1>8. ASSUME NEW q \in Runs \ {r} PROVE RunInv(q)'
  BY <1>1, <1>4, <1>6, RunUntouched
<1>9. RunInv(r) /\ run'[r] = run[r] /\ versions'[r] = versions[r]
      /\ evaluations'[r] = evaluations[r] /\ finals'[r] = finals[r]
  BY <1>1 DEF IInv
<1>10. Blank(r)' /\ FrozenTopic(r)'
  BY <1>1, <1>9, FrozenDecides DEF RunInv, Blank, FrozenTopic, Created, topicVars
<1>11. VersionsSound(r)' /\ BudgetKept(r)' /\ ReportsSound(r)' /\ FinalsSound(r)'
  BY <1>9, FrozenDecides
     DEF RunInv, VersionsSound, SoundVersion, VersionNumbers, BudgetKept, Revisions, ReportsSound,
         DecisionsSound, FinalsSound
<1>12. ExportsSound(r)'
  <2> SUFFICES ASSUME NEW x \in 1 .. n + 1
               PROVE  /\ exports'[r][x].final \in 1 .. Len(finals[r])
                      /\ Approves(finals[r][exports'[r][x].final], exports'[r][x].version)
    BY <1>4, <1>5, <1>9 DEF ExportsSound, Approves
  <2>1. CASE x \in 1 .. n
    BY <1>4, <1>5, <1>9, <2>1 DEF RunInv, DecisionsSound, ExportsSound
  <2>2. CASE x = n + 1
    BY <1>2, <1>4, <1>5, <2>2
  <2> QED BY <1>5, <2>1, <2>2
<1>13. RunInv(r)'
  BY <1>10, <1>11, <1>12 DEF RunInv, DecisionsSound
<1> QED BY <1>6, <1>7, <1>8, <1>13 DEF IInv

LEMMA CreateRunStep ==
  ASSUME IInv, NEW r \in Runs, NEW t \in Tasks, NEW budget \in Budgets, NEW threshold \in Thresholds,
         CreateRun(r, t, budget, threshold)
  PROVE  IInv'
<1>1. UNCHANGED <<topicVars, versions, evaluations, finals, exports>> /\ ~Started(r)
  BY DEF CreateRun
<1>2. PICK i \in 1 .. Len(topicReviews[t]) :
        /\ topicReviews[t][i].decision = "approve"
        /\ run' = [run EXCEPT ![r] =
             [task |-> t, signal |-> topicReviews[t][i].signal, review |-> i,
              snapshot |-> snapshotOf[t], budget |-> budget, threshold |-> threshold]]
  BY DEF CreateRun, StandingApproval
<1> DEFINE row == [task |-> t, signal |-> topicReviews[t][i].signal, review |-> i,
                   snapshot |-> snapshotOf[t], budget |-> budget, threshold |-> threshold]
<1>3. topicReviews[t] \in Seq(TopicReviews) /\ topicReviews[t] # <<>>
  BY DEF IInv, TypeOK, TopicTypeOK
<1>4. topicReviews[t][i] = [signal |-> topicReviews[t][i].signal, decision |-> "approve"]
      /\ topicReviews[t][i].signal \in Signals /\ i \in Nat
  <2>1. topicReviews[t][i] \in TopicReviews
    BY <1>3
  <2> QED BY <1>2, <2>1 DEF TopicReviews
<1>5. Created(t) /\ FactsOf[snapshotOf[t]] # <<>> /\ snapshotOf[t] \in Snapshots
  BY <1>3 DEF IInv, TopicInv, TopicsReady, TopicTypeOK, Created
<1>6. row \in Frozen /\ threshold <= 100
  BY <1>4, <1>5, ScriptAssumption DEF Frozen
<1>7. run'[r] = row /\ \A q \in Runs \ {r} : run'[q] = run[q]
  BY <1>2 DEF IInv, TypeOK
<1>8. TopicInv' /\ TopicRowsStay
  BY <1>1, TopicsUnchanged
<1>9. TypeOK'
  BY <1>1, <1>2, <1>6, <1>8 DEF IInv, TypeOK, TopicInv
<1>10. ASSUME NEW q \in Runs \ {r} PROVE RunInv(q)'
  BY <1>1, <1>7, <1>8, RunUntouched
<1>11. versions'[r] = <<>> /\ evaluations'[r] = <<>> /\ finals'[r] = <<>> /\ exports'[r] = <<>>
  BY <1>1 DEF IInv, RunInv, Blank
<1>12. Blank(r)' /\ VersionsSound(r)' /\ ReportsSound(r)' /\ DecisionsSound(r)'
  BY <1>11 DEF Blank, VersionsSound, ReportsSound, DecisionsSound, FinalsSound, ExportsSound,
               VersionNumbers
<1>13. FrozenTopic(r)'
  BY <1>1, <1>4, <1>5, <1>6, <1>7 DEF FrozenTopic, Facts, Created, topicVars
<1>14. BudgetKept(r)'
  <2>1. Revisions(r)' = {}
    BY <1>11 DEF Revisions, VersionNumbers
  <2>2. Cardinality(Revisions(r)') = 0
    BY <2>1, FS_EmptySet
  <2>3. run'[r].budget \in Nat
    BY <1>6, <1>7 DEF Frozen
  <2> QED BY <2>2, <2>3 DEF BudgetKept
<1>15. RunInv(r)'
  BY <1>12, <1>13, <1>14 DEF RunInv
<1> QED BY <1>8, <1>9, <1>10, <1>15 DEF IInv

LEMMA NextInv == IInv /\ [Next]_vars => IInv'
<1> SUFFICES ASSUME IInv, [Next]_vars PROVE IInv'
  OBVIOUS
<1>1. ASSUME TopicInv', TopicRowsStay, UNCHANGED scriptVars
      PROVE  IInv'
  <2>1. ASSUME NEW r \in Runs PROVE RunInv(r)'
    BY <1>1, RunUntouched DEF scriptVars
  <2>2. TypeOK'
    BY <1>1 DEF IInv, TypeOK, TopicInv, scriptVars
  <2> QED BY <1>1, <2>1, <2>2 DEF IInv
<1>2. CASE TopicNext /\ UNCHANGED scriptVars
  BY <1>1, <1>2, TopicStep DEF IInv
<1>3. CASE UNCHANGED vars
  BY <1>1, <1>3, TopicsUnchanged DEF vars
<1> QED BY <1>2, <1>3, GenerateStep, ReviseStep, EditStep, EvaluateStep, FinalReviewStep, ExportStep,
           CreateRunStep DEF Next

THEOREM Invariance == Spec => []IInv
BY InitInv, NextInv, PTL DEF Spec

-------------------------------------------------------------------------------
(* Theorems.                                                               *)

\* Rows keep the form their tables and check constraints ask for; a score is
\* within 0 and 100, so evaluate never runs into the constraint.
THEOREM TypeCorrect == Spec => []TypeOK
<1>1. IInv => TypeOK
  BY DEF IInv
<1> QED BY <1>1, Invariance, PTL

\* At most one topic of a task is approved, over any history of decisions.
THEOREM OneTopicApproved == Spec => []OneApprovedTopic
<1>1. IInv => OneApprovedTopic
  BY DEF IInv, TopicInv
<1> QED BY <1>1, Invariance, PTL

\* Automatic revisions stay within the budget the run froze.
THEOREM RevisionsBounded == Spec => []BudgetHolds
<1>1. IInv => BudgetHolds
  BY DEF IInv, RunInv, BudgetKept, BudgetHolds
<1> QED BY <1>1, Invariance, PTL

\* The critic never fails the writer: every automatic revision follows an edit.
THEOREM LoopNeedsHumans == Spec => []RevisionsAnswerEdits
<1>1. IInv => RevisionsAnswerEdits
  <2> SUFFICES ASSUME IInv, NEW r \in Runs, NEW v \in Revisions(r)
               PROVE  /\ versions[r][v].parent \in VersionNumbers(r)
                      /\ versions[r][versions[r][v].parent].origin = "human_edit"
    BY DEF RevisionsAnswerEdits
  <2>1. v \in VersionNumbers(r) /\ versions[r][v].origin = "auto_revision"
    BY DEF Revisions
  <2>2. SoundVersion(r, v)
    BY <2>1 DEF IInv, RunInv, VersionsSound
  <2> QED BY <2>1, <2>2 DEF SoundVersion
<1> QED BY <1>1, Invariance, PTL

\* Any two reports of a version agree, whatever happened between them.
THEOREM ReportsNeverDiffer == Spec => []ReportsAgree
<1>1. IInv => ReportsAgree
  BY DEF IInv, RunInv, ReportsSound, ReportsAgree
<1> QED BY <1>1, Invariance, PTL

\* An export rests on an approval of that version, by a report that passed, for
\* a topic that a human approved, and cites only what the run froze.
THEOREM ExportsGrounded == Spec => []ExportsAreGrounded
<1>1. IInv => ExportsAreGrounded
  <2> SUFFICES ASSUME IInv, NEW r \in Runs, NEW x \in 1 .. Len(exports[r])
               PROVE  LET v == exports[r][x].version
                          final == finals[r][exports[r][x].final]
                          report == evaluations[r][final.evaluation]
                          topic == topicReviews[run[r].task][run[r].review]
                          content == versions[r][v].content
                      IN /\ final.version = v /\ final.decision = "approve"
                         /\ report.version = v /\ report.score >= run[r].threshold
                         /\ topic.decision = "approve"
                         /\ content.signals \subseteq {topic.signal}
                         /\ content.members \subseteq {FactsOf[snapshotOf[run[r].task]][i] :
                              i \in 1 .. Len(FactsOf[snapshotOf[run[r].task]])}
    BY DEF ExportsAreGrounded
  <2> DEFINE v == exports[r][x].version
             final == finals[r][exports[r][x].final]
             report == evaluations[r][final.evaluation]
  <2>1. exports[r] # <<>>
    BY DEF IInv, TypeOK
  <2>2. Started(r) /\ RunInv(r)
    BY <2>1 DEF IInv, RunInv, Blank
  <2>3. exports[r][x].final \in 1 .. Len(finals[r]) /\ final.version = v /\ final.decision = "approve"
    BY <2>2 DEF RunInv, DecisionsSound, ExportsSound, Approves
  <2>4. /\ v \in VersionNumbers(r) /\ final.evaluation \in 1 .. Len(evaluations[r])
        /\ report.version = v /\ report.passed
    BY <2>2, <2>3 DEF RunInv, DecisionsSound, FinalsSound
  <2>5. report.score >= run[r].threshold
    BY <2>2, <2>4 DEF RunInv, ReportsSound
  <2>6. Lineage(r, versions[r][v].content)
    BY <2>2, <2>4 DEF RunInv, VersionsSound, SoundVersion, Valid
  <2>7. /\ topicReviews[run[r].task][run[r].review] = [signal |-> run[r].signal, decision |-> "approve"]
        /\ run[r].snapshot = snapshotOf[run[r].task]
    BY <2>2 DEF RunInv, FrozenTopic
  <2> DEFINE topic == topicReviews[run[r].task][run[r].review]
             content == versions[r][v].content
  <2>8. topic.decision = "approve" /\ topic.signal = run[r].signal
    BY <2>7
  <2>9. /\ content.signals \subseteq {topic.signal}
        /\ content.members \subseteq {FactsOf[snapshotOf[run[r].task]][i] :
             i \in 1 .. Len(FactsOf[snapshotOf[run[r].task]])}
    BY <2>6, <2>7, <2>8 DEF Lineage, Topic, Facts
  <2> HIDE DEF v, final, report, topic, content
  <2> QED BY <2>3, <2>4, <2>5, <2>8, <2>9 DEF v, final, report, topic, content
<1> QED BY <1>1, Invariance, PTL

\* The repeated submission of a version is recognised as the same, for ever.
THEOREM VersionRetriesRecognised == Spec => []VersionRetriesAnswered
<1>1. IInv => VersionRetriesAnswered
  BY DEF IInv, RunInv, VersionsSound, SoundVersion, VersionRetriesAnswered
<1> QED BY <1>1, Invariance, PTL

===============================================================================
