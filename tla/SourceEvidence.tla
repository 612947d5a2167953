----------------------------- MODULE SourceEvidence -----------------------------
(***************************************************************************)
(* Discovery candidates and immutable captures of official pages:          *)
(*   application/source_ingestion.py             discover, capture         *)
(*   infrastructure/database/source_repository.py                          *)
(*   infrastructure/database/workspace_service.py   enqueue (candidates)   *)
(*   infrastructure/storage/local.py             put                       *)
(*                                                                         *)
(* A capture reads the validators of the latest version, fetches the page, *)
(* stores the bytes, and commits one transaction; nothing holds the page   *)
(* or its row in between.  The queue delivers a run at least once, and to  *)
(* two processes at a time when a lease expires (module WorkflowQueue), so *)
(* a run is executed again and again until an execution of it returns.     *)
(*                                                                         *)
(* A content stands for what a page shows at one time and for the ETag the *)
(* site serves with it.  The evidence of a capture, which the fingerprint  *)
(* identifies, is that content and what became of its images: a failed     *)
(* image download is skipped, and leaves its digest out.                   *)
(***************************************************************************)
EXTENDS Naturals, Sequences

CONSTANTS
  Pages,        \* canonical URLs of one project
  Contents,     \* what a page may show
  ImageOutcomes,  \* which of a page's images a capture may get
  Candidates,   \* discovery candidates: one URL found by one discovery run
  PageOf,       \* PageOf[c] is the canonical_url of candidate c
  Runs,         \* capture runs
  Workers,      \* worker processes
  NoCandidate,  \* the run of a URL imported directly
  NoRequest,    \* a run not yet requested
  NoEvidence,   \* what an execution that fetched no page has captured
  NoTask        \* a process that executes no capture

ASSUME EvidenceAssumption ==
  /\ PageOf \in [Candidates -> Pages]
  /\ NoCandidate \notin Candidates

VARIABLES
  site,       \* site[p]: what the official site shows at p now
  versions,   \* versions[p]: the source_versions rows of p, by version_number
  objects,    \* the evidence whose bytes are in the object store
  candidate,  \* candidate[c]: status of the discovery_candidates row
  request,    \* request[k]: the payload of capture run k
  result,     \* result[k]: where run k stands
  task        \* task[w]: the execution of a capture in process w

vars == <<site, versions, objects, candidate, request, result, task>>
dataVars == <<site, versions, objects, candidate, request, result>>

CandidateStatus == {"absent", "discovered", "selected", "imported"}
Results == {"pending", "succeeded", "failed"}
Steps == {"fetching", "fetched", "stored", "inserting", "unmodified", "returning"}

Requests == [page : Pages, candidate : Candidates \cup {NoCandidate}]

Evidence == [content : Contents, images : ImageOutcomes]

\* A version: what it captured, and the number of the version it links to
\* (0 is a NULL previous_version_id).
Versions == [evidence : Evidence, previous : Nat]

\* `page` is the page requested and, once fetched, the one redirected to;
\* `sent` is the number of the version whose validators went with the request,
\* 0 for none; `evidence` is what was captured; `version` is the version_number
\* the repository answered with.
Tasks == [run : Runs, step : Steps, page : Pages, sent : Nat,
          evidence : Evidence \cup {NoEvidence}, version : Nat]

ASSUME NullAssumption ==
  /\ NoRequest \notin Requests
  /\ NoEvidence \notin Evidence
  /\ NoTask \notin Tasks

TypeOK ==
  /\ site \in [Pages -> Contents]
  /\ versions \in [Pages -> Seq(Versions)]
  /\ objects \in SUBSET Evidence
  /\ candidate \in [Candidates -> CandidateStatus]
  /\ request \in [Runs -> Requests \cup {NoRequest}]
  /\ result \in [Runs -> Results]
  /\ task \in [Workers -> Tasks \cup {NoTask}]
  /\ \A w \in Workers : task[w] # NoTask =>
       /\ task[w].sent <= Len(versions[task[w].page])
       /\ task[w].version <= Len(versions[task[w].page])

Init ==
  /\ site \in [Pages -> Contents]
  /\ versions = [p \in Pages |-> <<>>]
  /\ objects = {}
  /\ candidate = [c \in Candidates |-> "absent"]
  /\ request = [k \in Runs |-> NoRequest]
  /\ result = [k \in Runs |-> "pending"]
  /\ task = [w \in Workers |-> NoTask]

-------------------------------------------------------------------------------
(* The rules of the repository.  FAULT marks a buggy variant of the rule   *)
(* below it, which is not part of the model.                               *)

\* persist_capture inserts a source with its first version, so a source
\* without versions is a source that does not exist.
Known(p) == versions[p] # <<>>

\* FAULT: the oldest version is taken for the latest.
OldestVersion(p) == 1

\* The latest version of a known source, by version_number.
LatestVersion(p) == Len(versions[p])

\* The versions of p with this evidence fingerprint.
Matching(p, evidence) == {n \in DOMAIN versions[p] : versions[p][n].evidence = evidence}

\* FAULT: a rediscovered candidate becomes discovered again.
ResetDiscovered(found) ==
  [c \in Candidates |-> IF c \in found THEN "discovered" ELSE candidate[c]]

\* save_candidates inserts what its run has not found before.
WithDiscovered(found) ==
  [c \in Candidates |-> IF c \in found /\ candidate[c] = "absent"
                          THEN "discovered" ELSE candidate[c]]

\* FAULT: a candidate can be selected for a second run.
SelectableAgain(c) == candidate[c] \in {"discovered", "selected"}

\* enqueue takes a candidate only once.
Selectable(c) == candidate[c] = "discovered"

\* The candidate of run k, as a set: empty for a direct import.
CandidatesOf(k) == {request[k].candidate} \ {NoCandidate}

\* _link_candidate: the candidate must have been selected, for this page.
Linkable(k, p) ==
  \A c \in CandidatesOf(k) : candidate[c] \in {"selected", "imported"} /\ PageOf[c] = p

\* FAULT: a page that was imported already does not mark the candidate.
LinkedFirstOnly(k) ==
  [c \in Candidates |-> IF c \in CandidatesOf(k) /\ ~Known(PageOf[c])
                          THEN "imported" ELSE candidate[c]]

Linked(k) ==
  [c \in Candidates |-> IF c \in CandidatesOf(k) THEN "imported" ELSE candidate[c]]

\* FAULT: the insert of a source that exists is ignored, and its version added.
SourceInsertedAgain(p) == TRUE

\* uq_sources_project_url.
SourceInsertable(p) == ~Known(p)

\* FAULT: the database is written before the bytes.
StorableLater(w) == task[w].step \in {"fetched", "stored"}

\* A new version is written only after the bytes it refers to.
BytesStored(w) == task[w].step = "stored"

-------------------------------------------------------------------------------
(* The site, and the commands of the API.                                  *)

SiteChanges(p) ==
  /\ \E content \in Contents \ {site[p]} : site' = [site EXCEPT ![p] = content]
  /\ UNCHANGED <<versions, objects, candidate, request, result, task>>

\* discover: the run is executed at least once, and each execution saves what
\* its listing pages show that time.
SaveCandidates(found) ==
  /\ candidate' = WithDiscovered(found)
  /\ candidate' # candidate
  /\ UNCHANGED <<site, versions, objects, request, result, task>>

\* enqueue of a capture of a discovered candidate: one transaction locks the
\* candidate, marks it selected and creates the run.
SelectCandidate(k, c) ==
  /\ request[k] = NoRequest
  /\ Selectable(c)
  /\ candidate' = [candidate EXCEPT ![c] = "selected"]
  /\ request' = [request EXCEPT ![k] = [page |-> PageOf[c], candidate |-> c]]
  /\ UNCHANGED <<site, versions, objects, result, task>>

\* enqueue of a capture of a URL.
ImportUrl(k, p) ==
  /\ request[k] = NoRequest
  /\ request' = [request EXCEPT ![k] = [page |-> p, candidate |-> NoCandidate]]
  /\ UNCHANGED <<site, versions, objects, candidate, result, task>>

\* A human retries a failed run.
RetryRun(k) ==
  /\ result[k] = "failed"
  /\ result' = [result EXCEPT ![k] = "pending"]
  /\ UNCHANGED <<site, versions, objects, candidate, request, task>>

-------------------------------------------------------------------------------
(* The execution of a capture in process w.                                *)

\* The lease of a run may be held twice (a process that outlived its lease),
\* so a start asks only that the run is not settled.  The validators are those
\* of the latest version, when the site sent any with it.
Start(w, k) ==
  /\ task[w] = NoTask
  /\ request[k] # NoRequest
  /\ result[k] = "pending"
  /\ Linkable(k, request[k].page)
  /\ \E sent \in {0, LatestVersion(request[k].page)} :
       task' = [task EXCEPT ![w] =
         [run |-> k, step |-> "fetching", page |-> request[k].page,
          sent |-> sent, evidence |-> NoEvidence, version |-> 0]]
  /\ UNCHANGED dataVars

\* A 304 without a redirect: the site shows what the validators stand for.
NotModified(w) ==
  /\ task[w] # NoTask
  /\ task[w].step = "fetching"
  /\ task[w].sent # 0
  /\ site[task[w].page] = versions[task[w].page][task[w].sent].evidence.content
  /\ task' = [task EXCEPT ![w].step = "unmodified"]
  /\ UNCHANGED dataVars

\* A 200 of the page or of one it redirects to; the site may ignore the
\* validators.  A candidate admits no redirect to a different page.
Fetch(w) ==
  /\ task[w] # NoTask
  /\ task[w].step = "fetching"
  /\ \E final \in Pages, images \in ImageOutcomes :
       /\ \A c \in CandidatesOf(task[w].run) : PageOf[c] = final
       /\ task' = [task EXCEPT ![w] =
            [@ EXCEPT !.step = "fetched", !.page = final, !.sent = 0,
                      !.evidence = [content |-> site[final], images |-> images]]]
  /\ UNCHANGED dataVars

\* put, of the page, its text and its images: each is published atomically
\* under its digest.
Store(w) ==
  /\ task[w] # NoTask
  /\ task[w].step = "fetched"
  /\ objects' = objects \cup {task[w].evidence}
  /\ task' = [task EXCEPT ![w].step = "stored"]
  /\ UNCHANGED <<site, versions, candidate, request, result>>

\* FAULT: the answer is the latest version before the commit.
AnswersLatest(w, n) ==
  task' = [task EXCEPT ![w] =
    [@ EXCEPT !.step = "returning", !.version = LatestVersion(task[w].page)]]

\* The repository answers with version n.
Answers(w, n) ==
  task' = [task EXCEPT ![w] = [@ EXCEPT !.step = "returning", !.version = n]]

\* persist_capture when the fingerprint is known: no version is written.
PersistDuplicate(w) ==
  /\ task[w] # NoTask
  /\ BytesStored(w)
  /\ Linkable(task[w].run, task[w].page)
  /\ \E n \in Matching(task[w].page, task[w].evidence) : Answers(w, n)
  /\ candidate' = Linked(task[w].run)
  /\ UNCHANGED <<site, versions, objects, request, result>>

\* persist_capture of new evidence of a known source, whose row it locks.
PersistVersion(w) ==
  LET p == task[w].page IN
  /\ task[w] # NoTask
  /\ BytesStored(w)
  /\ Known(p)
  /\ Matching(p, task[w].evidence) = {}
  /\ Linkable(task[w].run, p)
  /\ versions' = [versions EXCEPT ![p] =
       Append(@, [evidence |-> task[w].evidence, previous |-> LatestVersion(p)])]
  /\ Answers(w, Len(versions[p]) + 1)
  /\ candidate' = Linked(task[w].run)
  /\ UNCHANGED <<site, objects, request, result>>

\* persist_capture finds no source: there is no row to lock.
FindNoSource(w) ==
  /\ task[w] # NoTask
  /\ BytesStored(w)
  /\ ~Known(task[w].page)
  /\ task' = [task EXCEPT ![w].step = "inserting"]
  /\ UNCHANGED dataVars

\* Its insert of the source, with the first version.  Where another process was
\* first, uq_sources_project_url aborts the transaction, which is a Fail.
PersistSource(w) ==
  LET p == task[w].page IN
  /\ task[w] # NoTask
  /\ task[w].step = "inserting"
  /\ SourceInsertable(p)
  /\ Linkable(task[w].run, p)
  /\ versions' = [versions EXCEPT ![p] =
       Append(@, [evidence |-> task[w].evidence, previous |-> 0])]
  /\ Answers(w, 1)
  /\ candidate' = Linked(task[w].run)
  /\ UNCHANGED <<site, objects, request, result>>

\* record_not_modified: the latest version may have changed since the
\* validators were read.
RecordNotModified(w) ==
  /\ task[w] # NoTask
  /\ task[w].step = "unmodified"
  /\ Linkable(task[w].run, task[w].page)
  /\ Answers(w, LatestVersion(task[w].page))
  /\ candidate' = Linked(task[w].run)
  /\ UNCHANGED <<site, versions, objects, request, result>>

\* The handler has returned; complete() settles the run unless it is settled
\* already, the lease was lost or the process dies first.
Finish(w) ==
  /\ task[w] # NoTask
  /\ task[w].step = "returning"
  /\ result' \in {result, [result EXCEPT ![task[w].run] =
                            IF @ = "pending" THEN "succeeded" ELSE @]}
  /\ task' = [task EXCEPT ![w] = NoTask]
  /\ UNCHANGED <<site, versions, objects, candidate, request>>

\* The execution ends without a commit: the process dies, an error is retried
\* (a status, a refused insert, a deadlock), or an error ends the run (a denied
\* page, a 304 of another page, a redirected candidate, the last attempt).
Fail(w) ==
  /\ task[w] # NoTask
  /\ task[w].step # "returning"
  /\ result' \in {result, [result EXCEPT ![task[w].run] =
                            IF @ = "pending" THEN "failed" ELSE @]}
  /\ task' = [task EXCEPT ![w] = NoTask]
  /\ UNCHANGED <<site, versions, objects, candidate, request>>

Next ==
  \/ \E p \in Pages : SiteChanges(p)
  \/ \E found \in SUBSET Candidates : SaveCandidates(found)
  \/ \E k \in Runs, c \in Candidates : SelectCandidate(k, c)
  \/ \E k \in Runs, p \in Pages : ImportUrl(k, p)
  \/ \E k \in Runs : RetryRun(k)
  \/ \E w \in Workers, k \in Runs : Start(w, k)
  \/ \E w \in Workers : NotModified(w) \/ Fetch(w) \/ Store(w)
  \/ \E w \in Workers : PersistDuplicate(w) \/ PersistVersion(w)
  \/ \E w \in Workers : FindNoSource(w) \/ PersistSource(w)
  \/ \E w \in Workers : RecordNotModified(w) \/ Finish(w) \/ Fail(w)

Spec == Init /\ [][Next]_vars

-------------------------------------------------------------------------------
(* Properties.                                                             *)

\* The versions of a page form one chain, each linked to the one before it and
\* none repeating another's evidence, whatever captures race for the page
\* (persist_capture: the row lock, the fingerprint query, the new version).
LineageIsChain ==
  \A p \in Pages : \A m, n \in DOMAIN versions[p] :
    /\ versions[p][n].previous = n - 1
    /\ versions[p][m].evidence = versions[p][n].evidence => m = n

\* No row refers to bytes that are not in the object store, wherever an
\* execution dies (capture: put comes before persist_capture).
BytesBeforeRows ==
  \A p \in Pages : \A n \in DOMAIN versions[p] : versions[p][n].evidence \in objects

\* A capture that fetched the page is answered with a version of that page that
\* holds exactly what it fetched, although other captures committed since the
\* fetch (persist_capture: duplicate or new version).  One that met a 304 is
\* answered with a version no older than the one the site compared with,
\* although the latest may be another by then (record_not_modified).
AnswerHoldsTheCapture ==
  \A w \in Workers : task[w] # NoTask /\ task[w].step = "returning" =>
    LET known == versions[task[w].page] IN
    /\ task[w].version \in DOMAIN known
    /\ task[w].sent = 0 => known[task[w].version].evidence = task[w].evidence
    /\ task[w].sent <= task[w].version

\* A candidate is taken by one run at most, and exactly when it left the
\* discovered state (enqueue: the locked candidate row).
CandidateHasOneRun ==
  \A c \in Candidates :
    LET takers == {k \in Runs : request[k] # NoRequest /\ c \in CandidatesOf(k)} IN
    /\ candidate[c] \in {"absent", "discovered"} => takers = {}
    /\ candidate[c] \in {"selected", "imported"} => \E k \in Runs : takers = {k}

\* A succeeded capture of a candidate has left it imported, and a candidate is
\* imported only with a version of its own page (capture, _link_candidate).
ImportedHasEvidence ==
  /\ \A k \in Runs : result[k] = "succeeded" =>
       \A c \in CandidatesOf(k) : candidate[c] = "imported"
  /\ \A c \in Candidates : candidate[c] = "imported" => Known(PageOf[c])

\* Evidence is immutable: a step keeps every version of every page and the
\* objects they refer to, and takes no candidate back to an earlier status
\* (persist_capture, save_candidates executed again, _link_candidate).
EvidenceKept ==
  LET rank == [absent |-> 0, discovered |-> 1, selected |-> 2, imported |-> 3] IN
  /\ objects \subseteq objects'
  /\ \A p \in Pages : \A n \in DOMAIN versions[p] :
       n \in DOMAIN versions'[p] /\ versions'[p][n] = versions[p][n]
  /\ \A c \in Candidates : rank[candidate[c]] <= rank[candidate'[c]]

EvidenceIsImmutable == [][EvidenceKept]_vars

===============================================================================
