----------------------------- MODULE ScriptDelivery -----------------------------
(***************************************************************************)
(* From an approved topic to an exported script:                           *)
(*   infrastructure/database/script_service.py                             *)
(* composed with MarketingTopics.  Its commands lock the project's row as  *)
(* those of the topics do, so each is one action here too; what may change *)
(* between two commands is everything else: the topic a run was created    *)
(* for may be rejected, replaced or approved again while it goes on.       *)
(***************************************************************************)
EXTENDS MarketingTopics, FiniteSets

CONSTANTS
  Runs,         \* script runs
  Deliverable,  \* the tasks for English TikTok
  LongTitles,   \* signals whose title makes a hashtag of more than 80 characters
  Drafts,       \* contents a human may submit
  Budgets,      \* revision budgets a run may be created with
  Thresholds,   \* score thresholds a run may be created with
  NoRun,        \* a run that was not created yet
  MaxVersions,  \* bound: versions of a run
  MaxChecks,    \* bound: evaluations of a run
  MaxDecisions, \* bound: final reviews of a run
  MaxExports    \* bound: exports of a run

VARIABLES
  run,          \* run[r]: what script run r froze
  versions,     \* versions[r]: its versions, by number
  evaluations,  \* evaluations[r]: its reports, by created_at
  finals,       \* finals[r]: its final reviews, by created_at
  exports       \* exports[r]: its export receipts

scriptVars == <<run, versions, evaluations, finals, exports>>
vars == <<topicVars, scriptVars>>

\* What the scorer and the lineage check read of a script.  `form` stands for
\* the schema, the hashtags and a timeline that ends at the task's duration.
Contents == [form : BOOLEAN, hook : BOOLEAN, cta : BOOLEAN, structure : BOOLEAN,
             members : SUBSET Members, signals : SUBSET Signals]

Frozen == [task : Tasks, signal : Signals, review : Nat, snapshot : Snapshots,
           budget : Nat, threshold : Nat]
Versions == [origin : {"generated", "human_edit", "auto_revision"}, parent : Nat,
             content : Contents]
Evaluations == [version : Nat, score : 0 .. 100, passed : BOOLEAN]
Finals == [version : Nat, evaluation : Nat, decision : {"approve", "reject"}]
Exports == [version : Nat, final : Nat]

ASSUME ScriptAssumption ==
  /\ Deliverable \subseteq Tasks
  /\ LongTitles \subseteq Signals
  /\ Drafts \subseteq Contents
  /\ Budgets \subseteq 0 .. 5
  /\ Thresholds \subseteq 1 .. 100
  /\ NoRun \notin Frozen
  /\ MaxVersions \in Nat /\ MaxChecks \in Nat /\ MaxDecisions \in Nat /\ MaxExports \in Nat

TypeOK ==
  /\ TopicTypeOK
  /\ run \in [Runs -> Frozen \cup {NoRun}]
  /\ versions \in [Runs -> Seq(Versions)]
  /\ evaluations \in [Runs -> Seq(Evaluations)]
  /\ finals \in [Runs -> Seq(Finals)]
  /\ exports \in [Runs -> Seq(Exports)]

Init ==
  /\ TopicInit
  /\ run = [r \in Runs |-> NoRun]
  /\ versions = [r \in Runs |-> <<>>]
  /\ evaluations = [r \in Runs |-> <<>>]
  /\ finals = [r \in Runs |-> <<>>]
  /\ exports = [r \in Runs |-> <<>>]

-------------------------------------------------------------------------------
(* Contents: the template, the check and the score.  FAULT marks a buggy   *)
(* variant of the definition below it, which is not part of the model.     *)

Started(r) == run[r] # NoRun

\* FAULT: the topic is looked up again instead of taken from the run.
TopicApprovedNow(r) ==
  LET t == run[r].task
  IN IF \E i \in 1 .. Len(topicReviews[t]) : StandingApproval(t, i)
     THEN topicReviews[t][CHOOSE i \in 1 .. Len(topicReviews[t]) : StandingApproval(t, i)].signal
     ELSE run[r].signal

Topic(r) == run[r].signal

Facts(r) == FactsOf[run[r].snapshot]

\* FAULT: the call to action does not hold a word the critic looks for.
TemplateWithoutCta(r) ==
  [form |-> Topic(r) \notin LongTitles, hook |-> TRUE, cta |-> FALSE, structure |-> TRUE,
   members |-> {Facts(r)[i] : i \in (1 .. Len(Facts(r))) \cap {1, 2}},
   signals |-> {Topic(r)}]

\* The first fact, and the second as the proof where there is one.
Template(r) ==
  [form |-> Topic(r) \notin LongTitles, hook |-> TRUE, cta |-> TRUE, structure |-> TRUE,
   members |-> {Facts(r)[i] : i \in (1 .. Len(Facts(r))) \cap {1, 2}},
   signals |-> {Topic(r)}]

Lineage(r, content) ==
  /\ content.members \subseteq {Facts(r)[i] : i \in 1 .. Len(Facts(r))}
  /\ content.signals \subseteq {Topic(r)}

Valid(r, content) == content.form /\ Lineage(r, content)

Points(met, points) == IF met THEN points ELSE 0

\* FAULT: the weights add up to more than 100.
ScoreOverweight(r, content) ==
  Points(content.form, 20) + Points(content.hook, 20)
    + Points(content.members # {} /\ content.signals # {}, 20)
    + Points(content.cta, 15) + Points(content.structure, 20)
    + Points(Valid(r, content), 10)

Score(r, content) ==
  Points(content.form, 20) + Points(content.hook, 20)
    + Points(content.members # {} /\ content.signals # {}, 20)
    + Points(content.cta, 15) + Points(content.structure, 15)
    + Points(Valid(r, content), 10)

-------------------------------------------------------------------------------
(* The rows of a run.                                                      *)

Latest(r) == Len(versions[r])
VersionNumbers(r) == 1 .. Len(versions[r])
Revisions(r) == {v \in VersionNumbers(r) : versions[r][v].origin = "auto_revision"}

\* FAULT: the latest report of the run, whatever version it is about.
LatestReportOfRun(r, v, e) == e \in 1 .. Len(evaluations[r]) /\ e = Len(evaluations[r])

\* Report e is the latest one about version v.
LatestReport(r, v, e) ==
  /\ e \in 1 .. Len(evaluations[r])
  /\ evaluations[r][e].version = v
  /\ \A other \in e + 1 .. Len(evaluations[r]) : evaluations[r][other].version # v

Approves(final, v) == final.version = v /\ final.decision = "approve"

\* Final review f is the latest approval of version v; rejections do not count.
LatestApproval(r, v, f) ==
  /\ f \in 1 .. Len(finals[r])
  /\ Approves(finals[r][f], v)
  /\ \A other \in f + 1 .. Len(finals[r]) : ~Approves(finals[r][other], v)

-------------------------------------------------------------------------------
(* The commands.                                                           *)

\* The run freezes the one approved topic, the decision that approves it, and
\* the task's snapshot.
CreateRun(r, t, budget, threshold) ==
  /\ ~Started(r)
  /\ t \in Deliverable
  /\ \E i \in 1 .. Len(topicReviews[t]) :
       /\ StandingApproval(t, i)
       /\ \A j \in 1 .. Len(topicReviews[t]) : StandingApproval(t, j) => j = i
       /\ run' = [run EXCEPT ![r] =
                    [task |-> t, signal |-> topicReviews[t][i].signal, review |-> i,
                     snapshot |-> snapshotOf[t], budget |-> budget, threshold |-> threshold]]
  /\ UNCHANGED <<topicVars, versions, evaluations, finals, exports>>

AddVersion(r, origin, content) ==
  /\ Valid(r, content)
  /\ Len(versions[r]) < MaxVersions
  /\ versions' = [versions EXCEPT
                    ![r] = Append(@, [origin |-> origin, parent |-> Latest(r), content |-> content])]
  /\ UNCHANGED <<topicVars, run, evaluations, finals, exports>>

Generate(r) ==
  /\ Started(r)
  /\ versions[r] = <<>>
  /\ AddVersion(r, "generated", Template(r))

\* The edit becomes the child of the latest version, whichever the human read.
Edit(r, content) ==
  /\ Started(r)
  /\ versions[r] # <<>>
  /\ AddVersion(r, "human_edit", content)

BudgetLeft(r) == Cardinality(Revisions(r)) < run[r].budget

Revise(r) ==
  /\ Started(r)
  /\ versions[r] # <<>>
  /\ \E e \in 1 .. Len(evaluations[r]) :
       LatestReport(r, Latest(r), e) /\ ~evaluations[r][e].passed
  /\ BudgetLeft(r)
  /\ AddVersion(r, "auto_revision", Template(r))

\* Any version may be evaluated, any number of times.
Evaluate(r, v) ==
  /\ Started(r)
  /\ v \in VersionNumbers(r)
  /\ Len(evaluations[r]) < MaxChecks
  /\ LET score == Score(r, versions[r][v].content)
     IN evaluations' = [evaluations EXCEPT
          ![r] = Append(@, [version |-> v, score |-> score,
                            passed |-> score >= run[r].threshold])]
  /\ UNCHANGED <<topicVars, run, versions, finals, exports>>

FinalReview(r, v, decision) ==
  /\ Started(r)
  /\ v \in VersionNumbers(r)
  /\ Len(finals[r]) < MaxDecisions
  /\ \E e \in 1 .. Len(evaluations[r]) :
       /\ LatestReport(r, v, e)
       /\ decision = "approve" => evaluations[r][e].passed
       /\ finals' = [finals EXCEPT
            ![r] = Append(@, [version |-> v, evaluation |-> e, decision |-> decision])]
  /\ UNCHANGED <<topicVars, run, versions, evaluations, exports>>

Export(r, v) ==
  /\ Started(r)
  /\ v \in VersionNumbers(r)
  /\ Len(exports[r]) < MaxExports
  /\ \E f \in 1 .. Len(finals[r]) :
       /\ LatestApproval(r, v, f)
       /\ exports' = [exports EXCEPT ![r] = Append(@, [version |-> v, final |-> f])]
  /\ UNCHANGED <<topicVars, run, versions, evaluations, finals>>

Next ==
  \/ TopicNext /\ UNCHANGED scriptVars
  \/ \E r \in Runs :
       \/ \E t \in Tasks, budget \in Budgets, threshold \in Thresholds :
            CreateRun(r, t, budget, threshold)
       \/ Generate(r)
       \/ Revise(r)
       \/ \E content \in Drafts : Edit(r, content)
       \/ \E v \in VersionNumbers(r) :
            \/ Evaluate(r, v)
            \/ \E decision \in {"approve", "reject"} : FinalReview(r, v, decision)
            \/ Export(r, v)

Spec == Init /\ [][Next]_vars

-------------------------------------------------------------------------------
(* Properties.                                                             *)

\* Automatic revisions never exceed the budget frozen with the run, whatever
\* edits and evaluations come between them (revise counts all of the run's).
BudgetHolds ==
  \A r \in Runs : Started(r) => Cardinality(Revisions(r)) <= run[r].budget

\* An automatic revision always answers a human edit that failed: the template
\* satisfies the critic for every threshold, so the loop of critic and writer
\* cannot feed itself (revise, _template, _score).
RevisionsAnswerEdits ==
  \A r \in Runs : \A v \in Revisions(r) :
    /\ versions[r][v].parent \in VersionNumbers(r)
    /\ versions[r][versions[r][v].parent].origin = "human_edit"

\* Two reports of one version agree, however the topics changed in between: the
\* report final_review happens to read is as good as any other (_score reads
\* only what the run froze).
ReportsAgree ==
  \A r \in Runs : \A d, e \in 1 .. Len(evaluations[r]) :
    evaluations[r][d].version = evaluations[r][e].version =>
      evaluations[r][d].score = evaluations[r][e].score

\* What is exported was approved by a human, on a report that passed, of the
\* exact version exported; it cites facts of the snapshot of the task and the
\* signal of the topic that a human approved for the run.
ExportsAreGrounded ==
  \A r \in Runs : \A x \in 1 .. Len(exports[r]) :
    LET v == exports[r][x].version
        final == finals[r][exports[r][x].final]
        report == evaluations[r][final.evaluation]
        topic == topicReviews[run[r].task][run[r].review]
        content == versions[r][v].content
    IN /\ final.version = v /\ final.decision = "approve"
       /\ report.version = v /\ report.score >= run[r].threshold
       /\ topic.decision = "approve"
       /\ content.signals \subseteq {topic.signal}
       /\ content.members \subseteq {FactsOf[snapshotOf[run[r].task]][i] :
                                       i \in 1 .. Len(FactsOf[snapshotOf[run[r].task]])}

\* A client that repeats the submission of a version gets the version it made:
\* the content is composed again and must equal what is stored, so neither may
\* depend on what changed since (_create_version compares the digests).
VersionRetriesAnswered ==
  \A r \in Runs : \A v \in VersionNumbers(r) :
    /\ Valid(r, versions[r][v].content)
    /\ versions[r][v].origin # "human_edit" => versions[r][v].content = Template(r)

===============================================================================
