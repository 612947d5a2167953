# GameCrafter Agent: a formal model

GameCrafter turns official game pages into reviewed knowledge and reviewed
knowledge into short-video scripts. Every step is a durable *run* that a worker
executes from a PostgreSQL job queue, or a command of the API in one
transaction; every result is immutable and every gate between two stages is a
human decision. This directory models that machinery in TLA+, checks it with TLC
on small instances, and proves with TLAPS, for every instance, each safety property
the passing runs check. Paths below are relative to the repository root.

## 1. Inventory

### 1.1 Run and job queue, worker process

*Code:* `src/gamecrafter/domain/runs/state.py`,
`infrastructure/database/{job_queue,run_service}.py`, `workspace_service.py`
(`enqueue`, `retry_run`), `application/jobs.py`, `apps/worker/main.py`.

*State:* a row of `workflow_runs` (status, error, finished_at) and one row of
`workflow_jobs` per run (status, attempts of max_attempts, lease owner and
expiry, available_at, error); audit events `job.leased`, `run.retried`; in each
worker process, the `ClaimedJob` it is executing.

*Operations:* submit a run, claim a job (or give up on an expired final lease),
execute the handler, `complete`, `fail` with a delayed retry or for good, retry a
failed run by hand.

*Hard:* there is no heartbeat. A handler that outlasts its 60-second lease (one
model call may take 180) goes on while a second process claims the job, and both
commit and settle. A process may die between the handler's commit and
`complete`. Ownership of a lease is a comparison of a configured `worker_id`,
which has a default. A retry assigns the run's status past the transition table.

*Correct when* the two rows always agree, only the latest holder of a lease
settles it, a human is asked only after every allowed attempt, work is bounded,
success is final and has a durable result, and every run settles.

### 1.2 Source discovery and capture, object storage

*Code:* `application/source_ingestion.py`,
`infrastructure/database/source_repository.py`, `infrastructure/storage/local.py`,
`workspace_service.enqueue` (selection of a candidate).

*State:* `discovery_candidates` (discovered, selected, imported), `sources` with
their chain of `source_versions`, `stored_objects`, the object store's files.

*Operations:* discover, select a candidate or give a URL, capture: read the
latest validators, fetch, store the bytes, then one transaction that reuses a
version with the same fingerprint or appends one, or records a 304.

*Hard:* nothing is held between reading the validators and the final
transaction; a new source has no row to lock; a capture is executed at least
once, by two processes when a lease expires; bytes and rows live in two stores.

*Correct when* the versions of a page are one chain without repetition, no row
refers to missing bytes, a capture is answered with the version that holds what
it fetched, a candidate is imported by one run and only with evidence.

### 1.3 Run event stream

*Code:* `workspace_service.events_after`, `api/routes/workspace.py` (`run_events`),
`models.utc_now`, the page's subscription in `apps/web/src/App.tsx`.

*State:* `audit_events` ordered by (occurred_at, id); a cursor per subscriber, the
id of the last event received.

*Operations:* every transaction about a run inserts an event; the stream reads the
run and the events after the cursor once a second, sends them, and ends when the
run it read was settled.

*Hard:* the timestamp is taken before the commit, so the order of the stamps need
not be that of the commits; a run may settle between the two reads; a stream ends
on a settled run that a retry reopens; connections break with events in flight.

*Correct when* a subscriber sees events in order and once, none that matters is
overtaken by a later one, and a stream that ends has delivered the settling event.

### 1.4 Knowledge extraction

*Code:* `application/knowledge_jobs.py`, `knowledge_extraction.py`,
`text_chunking.py`, `infrastructure/database/knowledge_repository.py`.

*State:* `model_invocations` per (run, attempt, chunk), one extraction result per
run, claims with evidence; in the process, the answers received so far.

*Operations:* look for a result, load the text, for each chunk write a running row,
call the model and write the answer or the failure, then persist everything in
one transaction.

*Hard:* the check for an existing result precedes minutes of model calls, and two
processes may make them; rows of an attempt are overwritten in place; attempts
are numbered again after a retry.

*Correct when* the result appears once and is final, the rows under it are its
answers, and the handler keeps what the queue relies on: it returns only with a
result, and it ends.

### 1.5 Entities, claim review, conflicts, snapshots

*Code:* `infrastructure/database/{knowledge_workspace,review,conflict,snapshot}_service.py`.
*State:* entity revisions, append-only reviews (the latest one counts), conflict
groups with members, numbered snapshots of (claim, review, entity revision).
*Operations:* review, reconcile, close a group, publish; each locks the project
row for update. Correct and archive an entity: they lock only its row. *Hard:*
extraction and the confirmation of an agent's pack take the project's row only by
the foreign keys of what they insert, so what they read before is read without a
lock; a closed group is never extended; a review may come after the resolution it
contradicts. *Correct when* a published snapshot holds,
for each single-valued predicate, one value approved by the latest human review,
nothing undecided was pending when it was taken, and a later one drops a claim only if
a human rejected it.

### 1.6 Agent review

*Code:* `application/agent_review_jobs.py`, `infrastructure/models/reviewer.py`,
`agent_review_service.py`.

*State:* one result per review run, unique for an extraction and a version of the
Reviewer, with one row per claim; in the process, the batches still to be asked
about and the decisions so far.

*Operations:* look for a completed review, cut the claims into batches of 8, ask
about each, split a batch the model refuses, apply the rules about duplicates,
inferences, risks, corrected predicates and the 15 places of the pack, persist.
Confirming the pack is a command of the review desk (1.5).

*Hard:* a completed review is looked for among succeeded runs, so a crash between
persist and complete hides it; two runs of one extraction do not see each other
before the last insert; the order of the answers decides which duplicate counts.

*Correct when* every claim is asked about until it is decided and decided once, a
pack has at most 15 approvals, sound, of different facts, and none lost to
anything but better ones, the first review stands, and executions end.

### 1.7 Marketing topics and script delivery

*Code:* `marketing_service.py`, `script_service.py` and their routes.

*State:* tasks bound to a snapshot, signals, topic candidates with append-only
reviews; script runs bound to an approved topic, versions, evaluations, final
reviews, exports.

*Operations:* create a task, record a signal, analyse, approve, reject or defer a
topic; create a script run, generate, edit, evaluate, revise automatically within
a budget, review finally, export. Every command holds the project's row.

*Hard:* the topic of a run may be rejected and another approved while the run goes
on; a version is composed again whenever its command is repeated; automatic
revisions and human edits alternate against one budget; a rejection may follow an
approval. A topic is released by any later decision that does not approve it, a deferral
included.

*Correct when* at most one topic of a task is approved, revisions stay within
their budget and answer human edits only, reports of one version agree, an export
is approved, passing, of the exact version and grounded in the frozen snapshot and
topic, and a repeated command is recognised.

### 1.8 The rest

Site access (`infrastructure/ingestion`: a process-local scheduler with a global
and a per-host semaphore and a per-host interval, robots rules, HTTP and browser
fetchers), page adapters and parsers, model gateways, the API's routes,
configuration, migrations and the web interface. `PROJECT.json` lists each with
its status and the reason where it is not modelled: they keep no state, or are
pure functions of text, or only forward calls, or their only state is durations.

### 1.9 How the parts interact

The API writes run and job rows and audit events; workers claim jobs and write
results; both meet only in the database. Handlers commit in transactions of their
own, before the queue's `complete`: that boundary is why executions repeat.
Capture feeds extraction with a version id; extraction feeds review with claims
and ends by submitting nothing; review and conflict commands feed publication;
a snapshot feeds a marketing task; an approved topic feeds a script run. The event
stream only reads what all of them append.

## 2. Plan

Order, the most important behaviour first. Parameters are CONSTANTS with named
assumptions, each operation is an action, invariants are conjunctions of named
parts, and no module uses RECURSIVE operators.

| module | what | status |
|---|---|---|
| `RunState` | transition rules of a run | done |
| `RunContract` | abstract: what clients rely on | done |
| `WorkflowQueue` (EXTENDS `RunState`, INSTANCE `RunContract`) | queue, workers, crashes, leases, retries | done |
| `WorkflowQueueProofs` | its theorems | done |
| `SourceEvidence` | candidates, captures, versions, objects | done |
| `PublicationContract` | abstract: what a snapshot promises | done |
| `KnowledgeReview` (INSTANCE `PublicationContract`) | extraction's commit, entity revisions, reviews, conflict groups, confirmed packs, publication | done |
| `KnowledgeReviewProofs` | its theorems | done |
| `KnowledgeExtraction` (EXTENDS `WorkflowQueue`) | the handler in the queue's processes: invocations, one result, repeated executions | done |
| `KnowledgeExtractionProofs` | its theorems, and that it implements the queue | done |
| `AgentReview` | batches, governance, two reviews of one extraction | done |
| `AgentReviewProofs` | its theorems | done |
| `MarketingTopics` | tasks, signals, topics and their reviews | done |
| `ScriptDelivery` (EXTENDS `MarketingTopics`) | script runs while the topics change | done |
| `ScriptDeliveryProofs` | the theorems of both | done |
| `RunEvents` | writers, cursor, stream, page | done |
| `RunEventsProofs` | its theorems | done |
| `SourceEvidenceProofs` | its theorems | done |

Each `MC...` module gives the constants of its module values for TLC. Abstract
specifications: `RunContract`, `PublicationContract`, and `WorkflowQueue` itself, which
`KnowledgeExtraction` implements.

## 3. The modules

### `RunState`

The pure rules of `domain/runs/state.py`: statuses, the table, what `transition`
returns. Fields no code ever tests (checkpoint, version, started_at) are left out.

### `WorkflowQueue`

| variable | stands for |
|---|---|
| `enqueued`, `run`, `job` | the rows; `job[r].due` is the comparison of `available_at` or `lease_expires_at` with the clock |
| `effects` | the handler's result is committed |
| `retried`, `leases` | the `run.retried` keys and the number of `job.leased` events in the audit log |
| `phase`, `claim` | each process: polling, executing, about to settle, dead; and the claim it holds |

Each method of the queue is one transaction that locks the job and the run, so it
is one action: `Enqueue`, `ClaimLease` and `FailExpired` (the two outcomes of
`claim_next`), `Complete`, `Fail`, `RetryRun`. `LoseLease` is the
`JobLeaseError`, which nothing catches, so the process dies. `HandlerCommits`,
`HandlerReturns` and `HandlerRaises` are the execution between them, with no lock
held: that a handler returns only when there is a result is how the handlers are
written, not a check of the worker's, and a `knowledge.review` run may rest on the completed review of
another run (`AgentReview` has that case, `SuccessHasReview`). `Crash`, `Restart` and
`Elapse` are the environment. Only the two commands that
create runs are modelled, and they give each run one job, so jobs are named by
runs. Durations are abstracted: any time may pass between any two steps.

### `RunContract`

A run is absent, pending, succeeded or needs attention. It succeeds only with its
result; a pending run does not stay pending; a retry key reopens a run once.
`WorkflowQueue!ContractState` is the refinement mapping.

### `SourceEvidence`

`site` is what the official site shows; `versions[p]` the rows of page `p` by
number; `objects` the stored evidence; `candidate`, `request`, `result` the rows of
candidates and runs; `task[w]` the capture process `w` is executing. An execution
goes through `Start` (the candidate and the latest validators are read), `Fetch`
(200, perhaps after a redirect) or `NotModified` (304), `Store`, then one transaction:
`PersistDuplicate`, `PersistVersion`, `RecordNotModified`, or, for a page never
seen, `FindNoSource` and `PersistSource`, between which no row is locked. `Fail`
ends an execution anywhere without a commit. A run may be started again
whenever it is not settled, also while another process executes it: that is what
the queue module shows the queue to do. Evidence is the pair of a page content and
the images obtained, the two things the fingerprint covers. An ETag identifies
the content only.

### `KnowledgeReview`

| variable | stands for |
|---|---|
| `extraction` | how far `persist_result` of each extraction run got: before the check of its subject, between the check and the first insert, committed |
| `proposal` | the Reviewer agent's decision about each claim |
| `reviews` | the rows of `claim_reviews` per claim, in the order of `created_at`; the last one is the decision in force |
| `group` | the conflict group of each comparison key (subject, predicate, scope) |
| `revision` | number and status of the latest revision of each entity |
| `pack`, `confirmed` | the confirmations in flight, and the audited ones |
| `snapshots` | published versions: claim, review and entity revision of each member |

`ReviewClaim`, `Reconcile`, `CloseConflict` and `Publish` hold the project's row for
update from their start to their commit: one action each. Inserts of the other
commands need that row for their foreign key, so they wait for those four and are
waited for by them; the reads before their first insert are not protected. Hence
the splits: `CheckTarget` then `PersistResult` (the subject may be archived in
between), and `ConfirmPack`, `PackSkips`, `PackPicks`, then `PackCommits` (a human may
decide between the read of the latest review and the insert; `created_at` is taken
before the insert waits, so the late review may even sort before the human's:
`Inserted`). `AbortExtraction` and `PackAborts` are lost transactions.
`Publishable` is the conjunction of the plan's blockers, each named.

Abstractions: a claim is its comparison key, its value and its extraction;
evidence is always there (extraction verifies it); a command is its key, so a replay
is no step; a key identifies one request at a time.

### `PublicationContract`

Each candidate is absent, undecided, rejected or has an approved value; a snapshot
takes all approved values at once, only when nothing is undecided, single-valued
predicates agree and nothing belongs to an archived entity. It has no groups,
reviews or locks. `Decided`, `Archived` and `Published` are the refinement mapping.

### `KnowledgeExtraction`

`WorkflowQueue` lets a handler commit, return or raise whenever it likes. This module
adds what the handler of `knowledge.extract` does in between; every step is one of
the queue's or leaves the queue's state alone.

| variable | stands for |
|---|---|
| `rows` | `model_invocations` by run, attempt and chunk: absent, running, succeeded with an answer, failed |
| `result` | the row of `knowledge_extraction_results`: its attempt and its answers |
| `task` | the execution in each process: its step, its attempt, the answers in memory |

`FindResult` and `FindNone` are the first look; `StartChunk`, `ChunkAnswered` and
`ChunkFails` the observer's commits around each call; `CheckResult` the second look,
made before the run is locked; `Persist` the final transaction, with the validation
of the rows against the answers and the primary key; `Interrupted` any error in
between. A claim by the queue (`Begin`) starts a task, the death of a process
forgets it. Chunks and fingerprints are functions of immutable text, so the
identity checks on them always pass and are left out.

### `AgentReview`

| variable | stands for |
|---|---|
| `status` | each review run: pending, succeeded, failed |
| `review` | the rows each run persisted |
| `task` | the execution in each process: its run, its step, batches pending, decisions |

`FindCompleted`, `LoadCandidates`, `BatchAnswered` (the decisions come in any order),
`BatchFails` (the halves are put in front), `ClaimFails` (a batch of one),
`FindOwn`, `Persist`, `PersistRefused`, `Finish` follow the handler; `Interrupted` is
an error or the death of the process, in particular between persist and the
settlement. `Governed` is the loop of `persist`: duplicates, then inferences, risks
and corrected predicates, then the limit by priority. As in `SourceEvidence` a run
that is not settled may be executed at any time and twice at once.

### `MarketingTopics` and `ScriptDelivery`

Each command holds the project's row for update from its start to its commit, so
each is one action. `topicReviews` and `finals` are histories in the order of
`created_at`; `StandingApproval`, `LatestReport` and `LatestApproval` are the reads the code
makes of them, and `run` holds what `create_run` froze. The content of a script is
reduced to what the scorer and the lineage check read: form, hook, call to action,
structure, the facts and the signals cited. `Template` is what the writer composes,
`Score` the critic's weights, `Valid` the lineage check. An edit submits a content
from `Drafts`.

### `RunEvents`

| variable | stands for |
|---|---|
| `run` | the status, and the stamp of the event that set it |
| `clock` | the last value of `utc_now` |
| `events` | the committed events of the run: stamp and kind |
| `txn` | each writer's open transaction: its kind, its stamp, whether it holds the run's row |
| `stream`, `got` | the response of `run_events` between its reads and sends; what the subscriber received |

The kinds of transactions differ in their lock: one that *settles*, *reopens* or *works
on* the run holds its row FOR UPDATE before the event is stamped; one that *reports*
about it (a capture, a discovery, a confirmed pack) stamps first, and its insert waits for
the share that the foreign key takes. `Begin`, `Acquire` and `Commit` are these three
moments. `ReadRun` and `ReadEvents` are the two reads of `events_after`: under READ
COMMITTED a commit may fall between them. `Select` is a page that starts from the
beginning, `Resume` a client that returns with `Last-Event-ID`, `Drop` a broken or
closed connection. All processes are taken to read one clock and no two stamps of
a run to be equal (`utc_now` ensures it within a process); the tie-breaking id is
therefore left out.

Operators marked FAULT in the modules are deliberate bugs used to see that a
property fails when the code has them; nothing in the models refers to them.

## 4. The runs

| run | shows | instance |
|---|---|---|
| `queue_safety` | rows agree, attention earned, leases fenced, bounded work | 2 runs, 2 processes with distinct ids, 2 attempts, 1 retry key |
| `queue_contract` | refinement of `RunContract`, fairness included; every run settles although both processes have the default id | 1 run, 2 processes with one id, 3 attempts, 2 retry keys |
| `queue_default_id_fencing` | *violation*: with the default id fencing is lost | 1 run |
| `source_safety` | chains, answers that hold the capture (after a 304: no older than what was compared), bytes before rows, one run per candidate, imported only with evidence, immutability | 2 pages with redirects, 2 contents, 1 image outcome, 1 candidate, 2 runs, 2 processes |
| `review_conflict` | one published value, whatever came after the closure | 3 claims of a single-valued predicate, 2 values, the third claim from a later extraction, 3 reviews, 1 publication |
| `review_pack` | what is left to humans, refinement of `PublicationContract` (archived entities included), with a pack in flight; a second snapshot answers for the first | 2 equal claims of 1 extraction, 2 reviews, 2 revisions of the entity, 1 pack, 2 publications |
| `review_pack_replayed` | *violation*: a repeated confirmation overrides a human | as `review_pack`, no publication, no correction |
| `topic_selection` | *violation*: a deferral releases the approved topic | 1 task, 2 signals, 3 topic reviews |
| `script_delivery` | one approved topic, revisions answer edits, grounded exports, recognised repetitions | 1 task, 2 signals, 3 topic reviews, 1 run of up to 5 versions, 2 evaluations, 2 final reviews, 1 export, 2 drafts |
| `knowledge_extraction` | final result, rows that stand, refinement of `WorkflowQueue`, fairness included | 1 run, 2 processes, 2 attempts, 2 chunks, 1 retry key |
| `agent_review` | each claim once, sound approvals, best pack, first review stands, success has a review, executions end | 2 runs, 2 processes, 3 claims (2 of one fact), batches of 2, pack of 1 |
| `run_events` | order and once, nothing overtaken, a stream ends with the reason, an open stream delivers | 2 writers, 4 stamps |

*Why the bounds suffice.* Two processes are enough for every interference the
queue allows: one that outlived its lease and one that holds it. Two attempts
separate the first, the last and the middle of the retry logic (one attempt makes
the first the last); `queue_contract` has the code's three. Two retry keys
distinguish a replay from a new command. Two runs let a process hold one job
while it polls for the other. For sources, two contents
let a page return to an earlier state with a later version in between; two runs and two processes give two captures of one page and
two executions of one run. Contents, processes, runs and candidates are
interchangeable, which the symmetry sets use. Only safety is checked there. With two
outcomes of a page's images the instance is too large; fetches that differ by their
content race in the same way, and the theorems of section 6 are for any outcomes.

For reviews, two claims and two values give every relation of candidates and edits
(equal, differing, equal but edited apart, differing but edited together); three
reviews allow a decision, a resolution and a contradiction of it; the third claim
is the one that comes after the closure. Idempotency keys are used once, which
bounds the reviews and the snapshots.

For extraction, two chunks tell the first from the last and allow an execution to
stop between them; two attempts by two processes give an execution that outlived
its lease beside the one that replaced it. Its properties compare answers with
rows, and a single possible answer suffices for what the faults disturb: which
slot is written, when, and by whom. For the agent, three claims in batches of two give a full
batch, a last one that is smaller and a batch to split; two of one fact in either
order of answers and one place in the pack make the rules compete. For scripts,
three decisions allow two topics to be approved in turn; five versions hold a
generated one, a failing edit, a revision and edits around them. For events, four
stamps give a settlement, a reopening, a second settlement and a report in any order.

*Deadlock.* The queue really drains (every run settled and every retry key used),
so its runs, and the one of extraction, switch the check off; so do
`agent_review`, whose runs may all be settled, and `run_events`, where the stamps may
be used up. In `script_delivery` an analysis can always be repeated. In `SourceEvidence` the site can always change, and
in `KnowledgeReview` reconciliation is always possible.

### Findings

1. **Fencing by worker_id** (`queue_default_id_fencing`). `job_queue.py:21` says
   `JobLeaseError` is "raised when a worker no longer owns the job". Ownership is
   the equality of a configured id whose default is the same in every process. With
   two such processes one that outlived its lease settles the lease of the
   other. Progress is not lost (`queue_contract` runs with the default id), and the rows stay consistent:
   `RowsAlwaysAgree` is proved without assuming distinct ids.
2. **A deferral releases the approved topic** (`topic_selection`). `review_topic`
   refuses an approval only while the latest decision about another topic is one, so
   a deferral is enough to approve another topic. `docs/migration/m2-trend-topic.md:25`
   says that "changing the selection requires an explicit later rejection", and the
   refusal itself says to "reject the currently approved topic".
3. **A repeated confirmation overrides a human** (`review_pack_replayed`). A claim
   whose latest decision already is the suggested one is skipped without a row of
   the pack's key. If a human then rejects it, the repeated request finds neither
   its key nor an equal decision, and approves the claim again. The class says it
   keeps review "idempotent, and human-controlled".

Three more observations have no run of their own. A retry by hand numbers attempts
from 1 again, so it rewrites the invocation rows of the earlier round (`TraceStands`
and `TraceIsSequential` hold until then and say so). The events of a capture are
stamped before the run's row is shared: two executions of one run may commit them
out of the order of their stamps, and a stream that has sent the later one never
sends the earlier (`NothingOvertaken` leaves reports out). The page closes its
`EventSource` on the first error (`App.tsx:281`) although
`docs/migration/m1b-source-workspace.md:34` says that it reconnects with
`Last-Event-ID`; the API's side of that promise is what `Resume` checks.

## 5. Fairness

`FairSpec` assumes weak fairness of: a claim of each due job (workers poll for
ever and `claim_next` takes the longest due job first), the clock passing a delay or
an expiry, a handler ending (every external call has a timeout), the settlement
that follows it, and the restart of a dead process (`restart: unless-stopped` in
`compose.production.yaml`). Nothing is assumed of crashes, clients or humans: a
process may die in every attempt, and the attempt limit still settles the run. The
fairness of `RunContract` (a pending run is settled) is checked as part of
`queue_contract`, not assumed. `SourceEvidence` has no fairness: that an execution
is repeated until it settles is the queue's property.

`KnowledgeReview` and `ScriptDelivery` have none either: every command is a human's or
a client's.

`KnowledgeExtraction` refines the queue's fairness: of an execution it assumes that
each of its steps is taken, because the gateways bound every call by a timeout; that
this amounts to the queue's "a handler ends" is checked (`ImplementsQueue` is
`FairSpec`). `AgentReview` assumes the same of its executions and nothing of runs
being started; `ExecutionsEnd` then says that splitting batches does not go on for
ever. `RunEvents` assumes that an open stream goes on (`run_events` sleeps a second and
reads again), nothing of writers, connections or pages.

## 6. Proofs

### The queue

`WorkflowQueueProofs` holds for any sets of runs and processes, any assignment of
worker_ids, any finite set of retry keys and any positive number of attempts
(`QueueAssumption`).

*The inductive invariant.* What the rows say is not inductive: whether `complete`
leaves a succeeded run with a result depends on what the process remembers. `IInv`
joins `TypeOK`, `RunMatchesJob` and `AttentionIsEarned` with two facts about
processes and absent rows: `ClaimsAreReal` (a process holds a claim exactly while
busy; the claim was handed out; a process about to complete has committed) and
`UnsubmittedIsBlank`. One lemma per action proves it is preserved; two lemmas
carry the common part of the steps that settle a job and of those that touch one run.

| theorem | says |
|---|---|
| `TypeCorrect` | `[]TypeOK`; attempts never passes its limit |
| `RowsAlwaysAgree` | `[]RunMatchesJob`, for any worker_ids |
| `AttentionAlwaysEarned` | `[]AttentionIsEarned` |
| `TransitionsNeverRefused` | the transition table never refuses the settlement of a leased job, so those guards never block |
| `OnlyHolderSettles` | `[]LeaseFencing`, if no two processes share a worker_id: the hypothesis finding 1 shows to be needed |
| `WorkIsBounded` | `[]BoundedWork`, by `RoundsAreCounted`: leases so far are at most the closed rounds' budgets plus the attempts of the current one |
| `SuccessIsFinal` | the action property `SucceededIsFinal` |
| `QueueImplementsContract` | every step of the queue is a step or a stutter of `RunContract` (its safety part) |

### Source capture

`SourceEvidenceProofs` holds for any pages, contents, image outcomes, candidates, runs
and processes (`EvidenceAssumption`: a candidate has a page, and a URL imported directly
is no candidate; `NullAssumption`: no row is mistaken for its absence).

What the rows say is not inductive, as an execution commits what it learnt without a
lock. `IInv` therefore joins the invariants with `TasksSound`: the run of an
execution was requested and stays so, bytes it has stored are in the store, what it
fetched is evidence, and one that is about to return has imported its candidate.
`SettledWasRequested` carries the last fact into the rows. All these facts are
stable: the rows an execution refers to only grow under it (`OthersKept`), so one
lemma serves the steps of every other process. A chain grows at its end
(`VersionGrown`), with evidence that `Matching` did not find or of a page that
had no version; a race for the first version is decided by the constraint of the source row
(`SourceInsertable`).

| theorem | says |
|---|---|
| `EvidenceTypeCorrect` | `[]TypeOK`: no reference to a version that is not there |
| `LineageAlwaysChain` | `[]LineageIsChain` |
| `BytesAlwaysBeforeRows` | `[]BytesBeforeRows` |
| `AnswersHoldCaptures` | `[]AnswerHoldsTheCapture` |
| `CandidatesHaveOneRun` | `[]CandidateHasOneRun` |
| `ImportedAlwaysHasEvidence` | `[]ImportedHasEvidence` |
| `EvidenceNeverChanges` | the action property `EvidenceIsImmutable` |

### The review desk

`KnowledgeReviewProofs` holds for any claims, comparison keys, entities, extractions,
values and keys (`KnowledgeAssumption`: the constants are functions of the right
types, a run's claims are about its subject, the keys of reviews and packs are
distinct, and values are not confused with statuses).

What a snapshot holds never changes, so `PublishedOneValue` needs no strengthening
beyond `TypeOK`: `SnapshotsStep` says only a publication adds a snapshot, and `PlanAgrees`
that the blockers leave one approved value for each single-valued key: where
candidates differ, by the check that the decisions about all of them agree although
their group is closed (it need not hold the ones extracted later), and elsewhere by the
check of the edits. `AmbiguousLeftToHumans` is not inductive: `HumanInv` adds that packs in
flight hold only decided suggestions (`PackDecided`), which in turn needs that the
Reviewer decides an extraction as a whole (`ReviewedTogether`).

`LaterSnapshotsAnswer` relates two publications with any commands in between. Its
invariant `PublishedStands` says that what a snapshot froze can be found again below
what is there now: the claim is a candidate, its entity has no older revision, and its
review is a row of the log. The last part is `LogsKeepRows`; a confirmed pack may insert
its row below a published one (`InsertedKeepsRows`), which moves rows and loses none. At the
next publication every one of these claims has a final decision at the end of the
log, so it is in the new snapshot or rejected.

| theorem | says |
|---|---|
| `TypeCorrect` | `[]TypeOK`: rows keep the form their tables ask for |
| `OneValuePublished` | `[]PublishedOneValue` |
| `LaterSnapshotsAlwaysAnswer` | `LaterSnapshotsAnswer` |
| `ArchivedNeverPublished` | `ArchivedUnpublished` |
| `ClosedStaysClosed` | `ClosedGroupsFrozen` |
| `HumansDecide` | `[]AmbiguousLeftToHumans` |
| `ReviewImplementsContract` | `KnowledgeReview` implements `PublicationContract` |

### The extraction handler

`KnowledgeExtractionProofs` holds for any runs, processes, attempts, chunks and
answers. `ExtractionImplementsQueue` shows each step to be one of the queue's or a
stutter, so that the queue's theorems hold of the composition; only then can its
`IInv` be used. `TraceInv` adds what makes rows safe without a lock: while no human
has retried the run, a lease's number is its attempt's number, so two executions of
a run never write the same rows (`OneTaskPerLease`, `TasksOwn`); an attempt not yet
leased has no rows; an execution's rows are what it has in memory; and the attempt
under a result has nobody left who writes.

| theorem | says |
|---|---|
| `ExtractionImplementsQueue` | every behaviour of the handler is one of `WorkflowQueue` |
| `ExtractionTypeCorrect` | `[]ExtractionTypeOK`: an execution persists only with an answer for every chunk |
| `TraceAlwaysStands` | `[]TraceStands` |
| `TraceAlwaysSequential` | `[]TraceIsSequential` |
| `ResultAlwaysFinal` | `ResultIsFinal` |

### The agent's review

`AgentReviewProofs` holds for any claims, opinions, batch sizes and pack limits.
Types need arithmetic here: batches are cut by multiplication and halved by
division, and `BatchArithmetic` and its neighbours show that none is empty or
larger than an answer may be. `ApprovalsAreSound` follows from `Governed` alone, as rows
never change (`ReviewsGoverned`). `SuccessHasReview` needs `ReturnsRest`: a process about to
return has a review to rest on, its own or that of a succeeded run.

*Claims.* `EachClaimOnce` needs places, not only sets: a claim may be in any of the
pending batches or in the decisions. `Partition` says that no claim has two places in
the batches (`Placed`), that no two rows decide one claim, and that a claim waits or
is decided, never both. Cutting (`BatchPlaces`), halving and answering keep it; for an answer, as
many rows as claims without repetition are all of them, by cardinality.
Two consequences are stated beside it. `OnlyAReviewRefuses`: the checks of `persist`
and of the table on the decisions never fail, so that a refusal always means another review.
`CallsProgress` and `ProgressBounded`: twice the decisions plus the batches
waiting grows with every call and never passes twice the claims, so a
handler calls the model a bounded number of times; that it makes these calls is
fairness, and stays with `ExecutionsEnd`.

*The pack.* `PackKeepsTheBest` compares ranks. Priority, then the claim, is a strict
total order on the approvals (`PackOrderIsTotal`), because no two of them are about one fact; numbering each claim by its predecessors is
then a bijection (`RanksOfTotalOrder`, by cardinality), so the claims kept by the limit
are as many as it allows, and come before all claims it drops (`FirstOfTotalOrder`).

| theorem | says |
|---|---|
| `ReviewTypeCorrect` | `[]TypeOK` |
| `FirstReviewAlwaysStands` | `FirstReviewStands` |
| `ApprovalsAlwaysSound` | `[]ApprovalsAreSound` |
| `SuccessAlwaysHasReview` | `[]SuccessHasReview` |
| `EachClaimAlwaysOnce` | `[]EachClaimOnce` |
| `OnlyAReviewEverRefuses` | `[]OnlyAReviewRefuses` |
| `CallsAreBounded` | `[]ProgressBounded`, and the action property `CallsProgress` |
| `PackAlwaysKeepsTheBest` | `[]PackKeepsTheBest` |

### Topics and scripts

`ScriptDeliveryProofs` holds for any tasks, signals, snapshots, runs, drafts, budgets
and thresholds. What a command checks at the moment it runs is turned into facts
about rows that stay: `FrozenTopic` (the review a run was created for remains an
approval of its signal), `VersionsSound`, `ReportsSound`, `DecisionsSound` and
`BudgetKept`, conjoined for each run in `RunInv`.

| theorem | says |
|---|---|
| `TypeCorrect` | `[]TypeOK`; no content scores more than 100 |
| `OneTopicApproved` | `[]OneApprovedTopic` |
| `RevisionsBounded` | `[]BudgetHolds` |
| `LoopNeedsHumans` | `[]RevisionsAnswerEdits` |
| `ReportsNeverDiffer` | `[]ReportsAgree` |
| `ExportsGrounded` | `[]ExportsAreGrounded` |
| `VersionRetriesRecognised` | `[]VersionRetriesAnswered` |

### The event stream

`RunEventsProofs` holds for any writers and any number of stamps. The argument: a
stamp is given once; a transaction that works on the run is stamped while it holds
the row (`HeldIsStamped`); while it does, nothing else can commit, so its stamp is
later than everything committed (`HolderIsLatest`) and than any cursor. For the
stream, what was fetched is complete up to its end (`FetchedIsNext`), so sending in
order leaves nothing behind.

That a stream ends with the reason (`EndInv`) rests on the order of the two reads: a
settled run was settled by an event that is committed with it (`RunTellsWhy`), and the
run is read first. When the events are read, that event is committed; beyond the
cursor it is fetched, and behind the cursor it was received already, because nothing
is overtaken (`StreamTellsWhy`).

| theorem | says |
|---|---|
| `EventsTypeCorrect` | `[]TypeOK`: nobody holds the row beside one who holds it for update |
| `AlwaysInOrderOnce` | `[]InOrderOnce` |
| `NothingEverOvertaken` | `[]NothingOvertaken` |
| `EndAlwaysTellsWhy` | `[]EndTellsWhy` |

*Proved and in no run:* `SucceededIsFinal` (part of `ImplementsContract`),
`ArchivedUnpublished` (its part about archived entities is in `ContractSpec`),
`ClosedGroupsFrozen`, `BudgetHolds`, `ReportsAgree`, `TraceIsSequential`, `OnlyAReviewRefuses`,
`ProgressBounded` and `CallsProgress`. They are lemmas of what the runs check, follow from
it, or are close to one guard of the code.

*Only model-checked:* liveness, that is `EveryRunSettles`, `ExecutionsEnd` and
`OpenStreamDelivers`, and of `ImplementsContract` and `ImplementsQueue` the part about
fairness (their safety parts are `QueueImplementsContract` and
`ExtractionImplementsQueue`). Each argues from weak fairness to what must happen, which
needs ENABLED, out of the prover's reach. The three violations are counterexamples found
by TLC.

## 7. Not modelled, and why

Parsing, robots rules, address policy, redaction and rendering are functions of
text without state; scores are kept where a decision depends on them. Calls of
models are replaced by their possible outcomes. Durations appear only as "due"
or "not due". Database transactions are atomic actions where they lock the rows
they read; where one does not (a source without a row, a pack's latest reviews,
an extraction's subject) it is split. Two confirmations that overlap after their
first inserts are taken one after the other: both write the suggestions of one
review result.

The scheduler of site access keeps slots and intervals in one process; it is about
durations, which are abstracted. Two submissions of one idempotency key at once are
one step each here: in the code the second is refused by the unique constraint with
a database error instead of an answer. Deadlocks of the database are not modelled,
as transactions are steps: `conflict_service.py:77` and
`knowledge_workspace_service.py:147` lock the project's and an entity's row in opposite
orders, and PostgreSQL would end one of the two. Repeated submissions of commands are
modelled where a replay may do harm (retries of runs, packs, compositions of script
versions), otherwise a repetition is no step.

`text_chunking.py` is abstracted to the number of chunks. Its constructor admits an
overlap almost as long as a chunk, for which `split` need not advance; the program
only uses 4000 characters with an overlap of 400. The event stream assumes one clock:
`utc_now` is monotonic in a process, and nothing orders the stamps of two.

The components without a module are in `PROJECT.json` with the reason for each, and the
hazards no property covers carry a note there.
