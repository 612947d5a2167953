-------------------------- MODULE SourceEvidenceProofs --------------------------
(***************************************************************************)
(* Proofs about SourceEvidence, for any pages, contents, candidates, runs  *)
(* and processes.                                                          *)
(*                                                                         *)
(* The rows of a page are written by executions that hold nothing between  *)
(* their steps.  What makes them safe is what an execution carries along:  *)
(* bytes that are in the store and stay there, a run whose request is      *)
(* never withdrawn, a version that no later commit moves.                  *)
(***************************************************************************)
EXTENDS SourceEvidence, TLAPS, SequenceTheorems

\* What the execution in process w may rely on.
TaskSound(w) ==
  task[w] # NoTask =>
    /\ request[task[w].run] # NoRequest
    /\ task[w].step = "fetched" => task[w].evidence \in Evidence
    /\ task[w].step \in {"stored", "inserting"} => task[w].evidence \in objects
    /\ task[w].step \in {"fetched", "stored", "inserting"} => task[w].sent = 0
    /\ task[w].step = "unmodified" => task[w].sent # 0
    /\ task[w].step # "returning" => task[w].version = 0
    /\ task[w].step = "returning" =>
         \A c \in CandidatesOf(task[w].run) : candidate[c] = "imported"

TasksSound == \A w \in Workers : TaskSound(w)

\* A run that is settled was requested.
SettledWasRequested == \A k \in Runs : result[k] # "pending" => request[k] # NoRequest

IInv ==
  /\ TypeOK
  /\ TasksSound
  /\ SettledWasRequested
  /\ AnswerHoldsTheCapture
  /\ LineageIsChain
  /\ BytesBeforeRows
  /\ CandidateHasOneRun
  /\ ImportedHasEvidence

-------------------------------------------------------------------------------
(* Rows and executions, read one at a time.                                *)

LEMMA TaskTyped ==
  ASSUME TypeOK, NEW w \in Workers, task[w] # NoTask
  PROVE  /\ task[w] \in Tasks
         /\ task[w].run \in Runs
         /\ task[w].step \in Steps
         /\ task[w].page \in Pages
         /\ task[w].sent \in Nat
         /\ task[w].version \in Nat
         /\ task[w].evidence \in Evidence \cup {NoEvidence}
BY DEF TypeOK, Tasks

LEMMA VersionsTyped ==
  ASSUME TypeOK, NEW p \in Pages
  PROVE  /\ versions[p] \in Seq(Versions)
         /\ Len(versions[p]) \in Nat
         /\ DOMAIN versions[p] = 1 .. Len(versions[p])
         /\ \A n \in DOMAIN versions[p] :
              versions[p][n] \in Versions /\ versions[p][n].evidence \in Evidence
         /\ Known(p) <=> Len(versions[p]) >= 1
<1>1. versions[p] \in Seq(Versions)
  BY DEF TypeOK
<1>2. Len(versions[p]) \in Nat /\ DOMAIN versions[p] = 1 .. Len(versions[p])
  BY <1>1, LenProperties
<1>3. \A n \in DOMAIN versions[p] : versions[p][n] \in Versions
  BY <1>1, <1>2, ElementOfSeq
<1>4. Known(p) <=> Len(versions[p]) >= 1
  BY <1>1, EmptySeq DEF Known
<1> QED
  BY <1>1, <1>2, <1>3, <1>4 DEF Versions

\* The candidate of a requested run.
LEMMA CandidateTyped ==
  ASSUME TypeOK, NEW k \in Runs, request[k] # NoRequest
  PROVE  /\ CandidatesOf(k) \subseteq Candidates
         /\ \A c, d \in CandidatesOf(k) : c = d
         /\ request[k].page \in Pages
BY DEF TypeOK, Requests, CandidatesOf

\* Appending a version to a page: what was there stays where it was.
LEMMA VersionAppended ==
  ASSUME TypeOK, NEW p \in Pages, NEW e \in Evidence, NEW m \in Nat,
         versions' = [versions EXCEPT ![p] = Append(@, [evidence |-> e, previous |-> m])]
  PROVE  /\ versions' \in [Pages -> Seq(Versions)]
         /\ DOMAIN versions'[p] = 1 .. Len(versions[p]) + 1
         /\ Len(versions'[p]) = Len(versions[p]) + 1
         /\ \A n \in 1 .. Len(versions[p]) : versions'[p][n] = versions[p][n]
         /\ versions'[p][Len(versions[p]) + 1] = [evidence |-> e, previous |-> m]
         /\ \A q \in Pages \ {p} : versions'[q] = versions[q]
<1> DEFINE v == [evidence |-> e, previous |-> m]
<1>1. v \in Versions
  BY DEF Versions
<1>2. versions'[p] = Append(versions[p], v) /\ versions[p] \in Seq(Versions)
  BY DEF TypeOK
<1> HIDE DEF v
<1>3. /\ Append(versions[p], v) \in Seq(Versions)
      /\ Len(Append(versions[p], v)) = Len(versions[p]) + 1
      /\ \A n \in 1 .. Len(versions[p]) : Append(versions[p], v)[n] = versions[p][n]
      /\ Append(versions[p], v)[Len(versions[p]) + 1] = v
  BY <1>1, <1>2, AppendProperties
<1>4. versions' \in [Pages -> Seq(Versions)]
  BY <1>2, <1>3 DEF TypeOK, v
<1>5. DOMAIN versions'[p] = 1 .. Len(versions[p]) + 1
  BY <1>2, <1>3, LenProperties
<1>6. \A q \in Pages \ {p} : versions'[q] = versions[q]
  BY DEF TypeOK
<1> QED
  BY <1>2, <1>3, <1>4, <1>5, <1>6 DEF v

-------------------------------------------------------------------------------
(* Which steps write which rows.                                           *)

LEMMA VersionSteps ==
  ASSUME [Next]_vars
  PROVE  versions' = versions \/ \E w \in Workers : PersistVersion(w) \/ PersistSource(w)
BY DEF Next, vars, dataVars, SiteChanges, SaveCandidates, SelectCandidate, ImportUrl, RetryRun,
       Start, NotModified, Fetch, Store, PersistDuplicate, FindNoSource, RecordNotModified,
       Finish, Fail

LEMMA ObjectSteps ==
  ASSUME [Next]_vars
  PROVE  objects' = objects \/ \E w \in Workers : Store(w)
BY DEF Next, vars, dataVars, SiteChanges, SaveCandidates, SelectCandidate, ImportUrl, RetryRun,
       Start, NotModified, Fetch, PersistDuplicate, PersistVersion, FindNoSource,
       PersistSource, RecordNotModified, Finish, Fail

LEMMA CandidateSteps ==
  ASSUME [Next]_vars
  PROVE  \/ candidate' = candidate
         \/ \E found \in SUBSET Candidates : SaveCandidates(found)
         \/ \E k \in Runs, c \in Candidates : SelectCandidate(k, c)
         \/ \E w \in Workers : \/ PersistDuplicate(w) \/ PersistVersion(w)
                              \/ PersistSource(w) \/ RecordNotModified(w)
BY DEF Next, vars, dataVars, SiteChanges, ImportUrl, RetryRun, Start, NotModified, Fetch, Store,
       FindNoSource, Finish, Fail

LEMMA RequestSteps ==
  ASSUME [Next]_vars
  PROVE  \/ request' = request
         \/ \E k \in Runs, c \in Candidates : SelectCandidate(k, c)
         \/ \E k \in Runs, p \in Pages : ImportUrl(k, p)
BY DEF Next, vars, dataVars, SiteChanges, SaveCandidates, RetryRun, Start, NotModified, Fetch,
       Store, PersistDuplicate, PersistVersion, FindNoSource, PersistSource, RecordNotModified,
       Finish, Fail

LEMMA ResultSteps ==
  ASSUME [Next]_vars
  PROVE  \/ result' = result
         \/ \E k \in Runs : RetryRun(k)
         \/ \E w \in Workers : Finish(w) \/ Fail(w)
BY DEF Next, vars, dataVars, SiteChanges, SaveCandidates, SelectCandidate, ImportUrl, Start,
       NotModified, Fetch, Store, PersistDuplicate, PersistVersion, FindNoSource, PersistSource,
       RecordNotModified

\* A transaction that adds a version: to which page, and what it links to.
LEMMA VersionAdded ==
  ASSUME TypeOK, TasksSound, NEW w \in Workers, PersistVersion(w) \/ PersistSource(w)
  PROVE  LET p == task[w].page IN
         /\ task[w] # NoTask
         /\ p \in Pages
         /\ task[w].evidence \in objects
         /\ task[w].evidence \in Evidence
         /\ Matching(p, task[w].evidence) = {}
         /\ Linkable(task[w].run, p)
         /\ versions' = [versions EXCEPT ![p] =
              Append(@, [evidence |-> task[w].evidence, previous |-> Len(versions[p])])]
         /\ Answers(w, Len(versions[p]) + 1)
         /\ candidate' = Linked(task[w].run)
         /\ UNCHANGED <<site, objects, request, result>>
<1> DEFINE p == task[w].page
<1>1. task[w] # NoTask /\ task[w].step \in {"stored", "inserting"}
  BY DEF PersistVersion, PersistSource, BytesStored
<1>2. p \in Pages
  BY <1>1, TaskTyped
<1>3. task[w].evidence \in objects
  BY <1>1 DEF TasksSound, TaskSound
<1>4. task[w].evidence \in Evidence
  BY <1>3 DEF TypeOK
<1>5. CASE PersistVersion(w)
  BY <1>1, <1>2, <1>3, <1>4, <1>5 DEF PersistVersion, LatestVersion
<1>6. CASE PersistSource(w)
  <2>1. versions[p] = <<>>
    BY <1>6 DEF PersistSource, SourceInsertable, Known
  <2>2. Len(versions[p]) = 0 /\ Matching(p, task[w].evidence) = {}
    BY <2>1 DEF Matching
  <2> QED
    BY <1>1, <1>2, <1>3, <1>4, <1>6, <2>2 DEF PersistSource
<1> QED
  BY <1>5, <1>6

\* The page afterwards: the new version is the last.
LEMMA VersionGrown ==
  ASSUME TypeOK, TasksSound, NEW w \in Workers, PersistVersion(w) \/ PersistSource(w)
  PROVE  LET p == task[w].page
             m == Len(versions[p])
         IN  /\ p \in Pages
             /\ m \in Nat
             /\ DOMAIN versions[p] = 1 .. m
             /\ versions' \in [Pages -> Seq(Versions)]
             /\ DOMAIN versions'[p] = 1 .. m + 1
             /\ Len(versions'[p]) = m + 1
             /\ \A n \in 1 .. m : versions'[p][n] = versions[p][n]
             /\ versions'[p][m + 1] = [evidence |-> task[w].evidence, previous |-> m]
             /\ \A q \in Pages \ {p} : versions'[q] = versions[q]
<1> DEFINE p == task[w].page
           m == Len(versions[p])
           e == task[w].evidence
<1>1. /\ p \in Pages /\ e \in Evidence
      /\ versions' = [versions EXCEPT ![p] = Append(@, [evidence |-> e, previous |-> m])]
  BY VersionAdded
<1>2. m \in Nat /\ DOMAIN versions[p] = 1 .. m
  BY <1>1, VersionsTyped
<1> HIDE DEF p, m, e
<1>3. /\ versions' \in [Pages -> Seq(Versions)]
      /\ DOMAIN versions'[p] = 1 .. Len(versions[p]) + 1
      /\ Len(versions'[p]) = Len(versions[p]) + 1
      /\ \A n \in 1 .. Len(versions[p]) : versions'[p][n] = versions[p][n]
      /\ versions'[p][Len(versions[p]) + 1] = [evidence |-> e, previous |-> m]
      /\ \A q \in Pages \ {p} : versions'[q] = versions[q]
  BY <1>1, <1>2, VersionAppended
<1> QED
  BY <1>1, <1>2, <1>3 DEF p, m, e

-------------------------------------------------------------------------------
(* Evidence is kept.                                                       *)

\* What each step does to the candidates.
LEMMA CandidateKept ==
  ASSUME TypeOK, TasksSound, [Next]_vars
  PROVE  /\ candidate' \in [Candidates -> CandidateStatus]
         /\ \A c \in Candidates :
              \/ candidate'[c] = candidate[c]
              \/ candidate[c] = "absent" /\ candidate'[c] = "discovered"
              \/ candidate[c] = "discovered" /\ candidate'[c] = "selected"
              \/ candidate'[c] = "imported"
<1>1. CASE candidate' = candidate
  BY <1>1 DEF TypeOK
<1>2. ASSUME NEW found \in SUBSET Candidates, SaveCandidates(found)
      PROVE  /\ candidate' \in [Candidates -> CandidateStatus]
             /\ \A c \in Candidates :
                  candidate'[c] = candidate[c] \/ (candidate[c] = "absent" /\ candidate'[c] = "discovered")
  BY <1>2 DEF SaveCandidates, WithDiscovered, TypeOK, CandidateStatus
<1>3. ASSUME NEW k \in Runs, NEW d \in Candidates, SelectCandidate(k, d)
      PROVE  /\ candidate' \in [Candidates -> CandidateStatus]
             /\ \A c \in Candidates :
                  candidate'[c] = candidate[c] \/ (candidate[c] = "discovered" /\ candidate'[c] = "selected")
  BY <1>3 DEF SelectCandidate, Selectable, TypeOK, CandidateStatus
<1>4. ASSUME NEW w \in Workers, candidate' = Linked(task[w].run)
      PROVE  /\ candidate' \in [Candidates -> CandidateStatus]
             /\ \A c \in Candidates : candidate'[c] = candidate[c] \/ candidate'[c] = "imported"
  BY <1>4 DEF Linked, TypeOK, CandidateStatus
<1>5. ASSUME NEW w \in Workers,
             \/ PersistDuplicate(w) \/ PersistVersion(w)
             \/ PersistSource(w) \/ RecordNotModified(w)
      PROVE  candidate' = Linked(task[w].run)
  BY <1>5 DEF PersistDuplicate, PersistVersion, PersistSource, RecordNotModified
<1> QED
  BY <1>1, <1>2, <1>3, <1>4, <1>5, CandidateSteps

LEMMA StepKeepsEvidence ==
  ASSUME TypeOK, TasksSound, [Next]_vars
  PROVE  EvidenceKept
<1>1. objects \subseteq objects'
  BY ObjectSteps DEF Store
<1>2. ASSUME NEW p \in Pages, NEW n \in DOMAIN versions[p]
      PROVE  n \in DOMAIN versions'[p] /\ versions'[p][n] = versions[p][n]
  <2>1. CASE versions' = versions
    BY <2>1
  <2>2. ASSUME NEW w \in Workers, PersistVersion(w) \/ PersistSource(w)
        PROVE  n \in DOMAIN versions'[p] /\ versions'[p][n] = versions[p][n]
    <3> DEFINE q == task[w].page
    <3>1. /\ q \in Pages /\ Len(versions[q]) \in Nat
          /\ DOMAIN versions[q] = 1 .. Len(versions[q])
          /\ DOMAIN versions'[q] = 1 .. Len(versions[q]) + 1
          /\ \A m \in 1 .. Len(versions[q]) : versions'[q][m] = versions[q][m]
          /\ \A r \in Pages \ {q} : versions'[r] = versions[r]
      BY <2>2, VersionGrown
    <3> HIDE DEF q
    <3> QED
      BY <3>1
  <2> QED
    BY <2>1, <2>2, VersionSteps
<1>3. \A c \in Candidates :
        LET rank == [absent |-> 0, discovered |-> 1, selected |-> 2, imported |-> 3]
        IN  rank[candidate[c]] <= rank[candidate'[c]]
  BY CandidateKept DEF TypeOK, CandidateStatus
<1> QED
  BY <1>1, <1>2, <1>3 DEF EvidenceKept

\* A request is made once and is never withdrawn.
LEMMA RequestsKept ==
  ASSUME TypeOK, [Next]_vars
  PROVE  /\ request' \in [Runs -> Requests \cup {NoRequest}]
         /\ \A k \in Runs : request[k] # NoRequest => request'[k] = request[k]
<1>1. ASSUME NEW k \in Runs, NEW c \in Candidates, SelectCandidate(k, c)
      PROVE  request' = [request EXCEPT ![k] = [page |-> PageOf[c], candidate |-> c]]
             /\ request[k] = NoRequest /\ [page |-> PageOf[c], candidate |-> c] \in Requests
  BY <1>1, EvidenceAssumption DEF SelectCandidate, Requests
<1>2. ASSUME NEW k \in Runs, NEW p \in Pages, ImportUrl(k, p)
      PROVE  request' = [request EXCEPT ![k] = [page |-> p, candidate |-> NoCandidate]]
             /\ request[k] = NoRequest /\ [page |-> p, candidate |-> NoCandidate] \in Requests
  BY <1>2 DEF ImportUrl, Requests
<1> QED
  BY <1>1, <1>2, RequestSteps DEF TypeOK

\* A version, once found, is found there ever after.
LEMMA PagesKept ==
  ASSUME TypeOK, TasksSound, [Next]_vars, NEW p \in Pages
  PROVE  /\ Known(p) => Known(p)'
         /\ \A n \in DOMAIN versions[p] :
              n \in DOMAIN versions'[p] /\ versions'[p][n] = versions[p][n]
<1>1. \A n \in DOMAIN versions[p] : n \in DOMAIN versions'[p] /\ versions'[p][n] = versions[p][n]
  BY StepKeepsEvidence DEF EvidenceKept
<1>2. Known(p) => 1 \in DOMAIN versions[p]
  BY VersionsTyped
<1>3. 1 \in DOMAIN versions'[p] => versions'[p] # <<>>
  OBVIOUS
<1> QED
  BY <1>1, <1>2, <1>3 DEF Known


-------------------------------------------------------------------------------
(* Executions.                                                             *)

Answered(w) ==
  task[w] # NoTask /\ task[w].step = "returning" =>
    /\ task[w].version \in DOMAIN versions[task[w].page]
    /\ task[w].sent = 0 =>
         versions[task[w].page][task[w].version].evidence = task[w].evidence
    /\ task[w].sent <= task[w].version

\* Everything the invariant says of the execution in process w.
ExecutionInv(w) ==
  /\ task[w] \in Tasks \cup {NoTask}
  /\ task[w] # NoTask =>
       /\ task[w].sent <= Len(versions[task[w].page])
       /\ task[w].version <= Len(versions[task[w].page])
  /\ TaskSound(w)
  /\ Answered(w)

ExecutionsInv == TypeOK /\ TasksSound /\ AnswerHoldsTheCapture

LEMMA ExecutionByExecution ==
  /\ ExecutionsInv => \A w \in Workers : ExecutionInv(w)
  /\ AnswerHoldsTheCapture <=> \A w \in Workers : Answered(w)
<1>1. AnswerHoldsTheCapture <=> \A w \in Workers : Answered(w)
  BY DEF AnswerHoldsTheCapture, Answered
<1>2. TypeOK => \A w \in Workers :
        /\ task[w] \in Tasks \cup {NoTask}
        /\ task[w] # NoTask => /\ task[w].sent <= Len(versions[task[w].page])
                               /\ task[w].version <= Len(versions[task[w].page])
  BY DEF TypeOK
<1> QED
  BY <1>1, <1>2 DEF ExecutionsInv, ExecutionInv, TasksSound

\* The rows an execution refers to may grow under it, and are not moved.
LEMMA OthersKept ==
  ASSUME ExecutionsInv, [Next]_vars, NEW v \in Workers, task'[v] = task[v]
  PROVE  ExecutionInv(v)'
<1>1. ExecutionInv(v) /\ TypeOK /\ TasksSound
  BY ExecutionByExecution DEF ExecutionsInv
<1>2. CASE task[v] = NoTask
  BY <1>2 DEF ExecutionInv, TaskSound, Answered
<1>3. CASE task[v] # NoTask
  <2> DEFINE p == task[v].page
             k == task[v].run
  <2>1. p \in Pages /\ k \in Runs /\ task[v].sent \in Nat /\ task[v].version \in Nat
    BY <1>1, <1>3, TaskTyped
  <2>2. Len(versions[p]) \in Nat /\ DOMAIN versions[p] = 1 .. Len(versions[p])
    BY <1>1, <2>1, VersionsTyped
  <2>3. /\ \A n \in DOMAIN versions[p] :
             n \in DOMAIN versions'[p] /\ versions'[p][n] = versions[p][n]
        /\ Len(versions'[p]) \in Nat /\ Len(versions[p]) <= Len(versions'[p])
    <3>1. CASE versions' = versions
      BY <2>2, <3>1
    <3>2. ASSUME NEW w \in Workers, PersistVersion(w) \/ PersistSource(w)
          PROVE  Len(versions'[p]) \in Nat /\ Len(versions[p]) <= Len(versions'[p])
      <4> DEFINE q == task[w].page
      <4>1. /\ Len(versions[q]) \in Nat
            /\ Len(versions'[q]) = Len(versions[q]) + 1
            /\ \A r \in Pages \ {q} : versions'[r] = versions[r]
        BY <1>1, <3>2, VersionGrown
      <4> HIDE DEF q
      <4> QED
        BY <2>1, <2>2, <4>1
    <3> QED
      BY <1>1, <2>1, <2>2, <3>1, <3>2, PagesKept, VersionSteps
  <2>4. request[k] # NoRequest /\ request'[k] = request[k]
    BY <1>1, <1>3, <2>1, RequestsKept DEF TasksSound, TaskSound
  <2>5. CandidatesOf(k)' = CandidatesOf(k) /\ CandidatesOf(k) \subseteq Candidates
    BY <1>1, <2>1, <2>4, CandidateTyped DEF CandidatesOf
  <2>6. objects \subseteq objects'
    BY <1>1, StepKeepsEvidence DEF EvidenceKept
  <2>7. \A c \in Candidates : candidate[c] = "imported" => candidate'[c] = "imported"
    BY <1>1, CandidateKept
  <2> HIDE DEF p, k
  <2>8. TaskSound(v)'
    <3>1. /\ task[v].step \in {"fetched"} => task[v].evidence \in Evidence
          /\ task[v].step \in {"stored", "inserting"} => task[v].evidence \in objects
          /\ task[v].step \in {"fetched", "stored", "inserting"} => task[v].sent = 0
          /\ task[v].step = "unmodified" => task[v].sent # 0
          /\ task[v].step # "returning" => task[v].version = 0
      BY <1>1, <1>3 DEF TasksSound, TaskSound
    <3>2. task[v].step = "returning" => \A c \in CandidatesOf(k) : candidate[c] = "imported"
      BY <1>1, <1>3 DEF TasksSound, TaskSound, k
    <3>3. task[v].step = "returning" => \A c \in CandidatesOf(k)' : candidate'[c] = "imported"
      BY <2>5, <2>7, <3>2
    <3> QED
      BY <2>4, <2>6, <3>1, <3>3 DEF TaskSound, k
  <2>9. Answered(v)'
    <3>1. task[v].step = "returning" =>
            /\ task[v].version \in DOMAIN versions[p]
            /\ task[v].sent = 0 => versions[p][task[v].version].evidence = task[v].evidence
            /\ task[v].sent <= task[v].version
      BY <1>1, <1>3 DEF ExecutionInv, Answered, p
    <3> QED
      BY <2>3, <3>1 DEF Answered, p
  <2>10. task[v].sent <= Len(versions'[p]) /\ task[v].version <= Len(versions'[p])
    <3>1. task[v].sent <= Len(versions[p]) /\ task[v].version <= Len(versions[p])
      BY <1>1, <1>3 DEF ExecutionInv, p
    <3> QED
      BY <2>1, <2>2, <2>3, <3>1
  <2> QED
    BY <1>1, <2>8, <2>9, <2>10 DEF ExecutionInv, p
<1> QED
  BY <1>2, <1>3

\* An execution that only moves on, at an unchanged database.
LEMMA MovedOn ==
  ASSUME TypeOK, NEW w \in Workers, task[w] # NoTask, NEW s \in Steps,
         task' = [task EXCEPT ![w].step = s]
  PROVE  /\ task'[w] \in Tasks
         /\ task'[w] # NoTask
         /\ task'[w].step = s
         /\ task'[w].run = task[w].run
         /\ task'[w].page = task[w].page
         /\ task'[w].sent = task[w].sent
         /\ task'[w].version = task[w].version
         /\ task'[w].evidence = task[w].evidence
         /\ \A v \in Workers \ {w} : task'[v] = task[v]
<1>1. task[w] \in Tasks /\ task'[w] = [task[w] EXCEPT !.step = s]
  BY DEF TypeOK
<1>2. task'[w] \in Tasks
  BY <1>1 DEF Tasks
<1>3. task'[w] # NoTask
  BY <1>2, NullAssumption
<1>4. /\ task'[w].step = s /\ task'[w].run = task[w].run
      /\ task'[w].page = task[w].page /\ task'[w].sent = task[w].sent
      /\ task'[w].version = task[w].version /\ task'[w].evidence = task[w].evidence
  BY <1>1 DEF Tasks
<1>5. \A v \in Workers \ {w} : task'[v] = task[v]
  BY DEF TypeOK
<1> QED
  BY <1>2, <1>3, <1>4, <1>5

LEMMA AnsweredWith ==
  ASSUME TypeOK, NEW w \in Workers, task[w] # NoTask, NEW n \in Nat, Answers(w, n)
  PROVE  /\ task'[w] \in Tasks
         /\ task'[w] # NoTask
         /\ task'[w].step = "returning"
         /\ task'[w].run = task[w].run
         /\ task'[w].page = task[w].page
         /\ task'[w].sent = task[w].sent
         /\ task'[w].version = n
         /\ task'[w].evidence = task[w].evidence
         /\ \A v \in Workers \ {w} : task'[v] = task[v]
<1>1. task[w] \in Tasks /\ task'[w] = [task[w] EXCEPT !.step = "returning", !.version = n]
  BY DEF TypeOK, Answers
<1>2. task'[w] \in Tasks
  BY <1>1 DEF Tasks, Steps
<1>3. task'[w] # NoTask
  BY <1>2, NullAssumption
<1>4. /\ task'[w].step = "returning" /\ task'[w].run = task[w].run
      /\ task'[w].page = task[w].page /\ task'[w].sent = task[w].sent
      /\ task'[w].version = n /\ task'[w].evidence = task[w].evidence
  BY <1>1 DEF Tasks
<1>5. \A v \in Workers \ {w} : task'[v] = task[v]
  BY DEF TypeOK, Answers
<1> QED
  BY <1>2, <1>3, <1>4, <1>5


\* An execution that moves on beside unchanged rows keeps what it relies on.
LEMMA MoveKeeps ==
  ASSUME ExecutionsInv, [Next]_vars, NEW w \in Workers, task[w] # NoTask,
         NEW s \in Steps \ {"returning"}, task' = [task EXCEPT ![w].step = s],
         versions' = versions, request' = request,
         task[w].version = 0,
         s = "unmodified" => task[w].sent # 0,
         s = "fetched" => task[w].evidence \in Evidence,
         s \in {"stored", "inserting"} => task[w].evidence \in objects',
         s \in {"fetched", "stored", "inserting"} => task[w].sent = 0
  PROVE  \A v \in Workers : ExecutionInv(v)'
<1>1. TypeOK /\ TasksSound /\ ExecutionInv(w)
  BY ExecutionByExecution DEF ExecutionsInv
<1>2. /\ task'[w] \in Tasks /\ task'[w] # NoTask
      /\ task'[w].step = s /\ task'[w].run = task[w].run
      /\ task'[w].page = task[w].page /\ task'[w].sent = task[w].sent
      /\ task'[w].version = task[w].version /\ task'[w].evidence = task[w].evidence
      /\ \A v \in Workers \ {w} : task'[v] = task[v]
  BY <1>1, MovedOn
<1>3. TaskSound(w)'
  BY <1>1, <1>2 DEF TasksSound, TaskSound
<1>4. ExecutionInv(w)'
  BY <1>1, <1>2, <1>3 DEF ExecutionInv, Answered
<1> QED
  BY <1>2, <1>4, OthersKept

\* The final transaction of an execution: it answers with a version that is
\* there, and its candidate is linked.
LEMMA AnswerKeeps ==
  ASSUME ExecutionsInv, [Next]_vars, NEW w \in Workers, task[w] # NoTask,
         NEW n \in Nat, Answers(w, n), candidate' = Linked(task[w].run), request' = request,
         NEW known, known = versions'[task[w].page],
         DOMAIN known = 1 .. Len(known), Len(known) \in Nat,
         n \in DOMAIN known, task[w].sent <= n,
         task[w].sent = 0 => known[n].evidence = task[w].evidence
  PROVE  \A v \in Workers : ExecutionInv(v)'
<1>1. TypeOK /\ TasksSound /\ ExecutionInv(w)
  BY ExecutionByExecution DEF ExecutionsInv
<1>2. /\ task'[w] \in Tasks /\ task'[w] # NoTask
      /\ task'[w].step = "returning" /\ task'[w].run = task[w].run
      /\ task'[w].page = task[w].page /\ task'[w].sent = task[w].sent
      /\ task'[w].version = n /\ task'[w].evidence = task[w].evidence
      /\ \A v \in Workers \ {w} : task'[v] = task[v]
  BY <1>1, AnsweredWith
<1>3. task[w].run \in Runs /\ task[w].sent \in Nat /\ request[task[w].run] # NoRequest
  BY <1>1, TaskTyped DEF TasksSound, TaskSound
<1>4. TaskSound(w)'
  <2>1. CandidatesOf(task[w].run) \subseteq Candidates
    BY <1>1, <1>3, CandidateTyped
  <2>2. \A c \in CandidatesOf(task[w].run) : candidate'[c] = "imported"
    BY <2>1 DEF Linked
  <2>3. CandidatesOf(task[w].run)' = {request'[task'[w].run].candidate} \ {NoCandidate}
    BY DEF CandidatesOf
  <2>4. CandidatesOf(task[w].run)' = CandidatesOf(task[w].run)
    BY <1>2, <2>3 DEF CandidatesOf
  <2> QED
    BY <1>2, <1>3, <2>2, <2>4 DEF TaskSound
<1>5. Answered(w)'
  BY <1>2 DEF Answered
<1>6. task'[w].sent <= Len(versions'[task'[w].page]) /\ task'[w].version <= Len(versions'[task'[w].page])
  BY <1>2, <1>3
<1>7. ExecutionInv(w)'
  BY <1>2, <1>4, <1>5, <1>6 DEF ExecutionInv
<1> QED
  BY <1>2, <1>7, OthersKept

\* An execution that ends.
LEMMA EndKeeps ==
  ASSUME ExecutionsInv, [Next]_vars, NEW w \in Workers, task' = [task EXCEPT ![w] = NoTask]
  PROVE  \A v \in Workers : ExecutionInv(v)'
<1>1. task'[w] = NoTask /\ \A v \in Workers \ {w} : task'[v] = task[v]
  BY DEF ExecutionsInv, TypeOK
<1>2. ExecutionInv(w)'
  BY <1>1 DEF ExecutionInv, TaskSound, Answered
<1> QED
  BY <1>1, <1>2, OthersKept

LEMMA StartKeeps ==
  ASSUME ExecutionsInv, [Next]_vars, NEW w \in Workers, NEW k \in Runs, Start(w, k)
  PROVE  \A v \in Workers : ExecutionInv(v)'
<1> DEFINE p == request[k].page
<1>1. TypeOK /\ request[k] # NoRequest /\ UNCHANGED dataVars
  BY DEF Start, ExecutionsInv
<1>2. p \in Pages /\ Len(versions[p]) \in Nat
  BY <1>1, CandidateTyped, VersionsTyped
<1>3. PICK sent \in {0, LatestVersion(p)} :
        task' = [task EXCEPT ![w] =
          [run |-> k, step |-> "fetching", page |-> p,
           sent |-> sent, evidence |-> NoEvidence, version |-> 0]]
  BY DEF Start
<1>4. sent \in Nat /\ sent <= Len(versions[p])
  BY <1>2, <1>3 DEF LatestVersion
<1> DEFINE t == [run |-> k, step |-> "fetching", page |-> p,
                 sent |-> sent, evidence |-> NoEvidence, version |-> 0]
<1>5. t \in Tasks
  BY <1>2, <1>4 DEF Tasks, Steps
<1>6. /\ t.run = k /\ t.step = "fetching" /\ t.page = p /\ t.sent = sent /\ t.version = 0
      /\ t # NoTask
  BY <1>5, NullAssumption
<1>7. task'[w] = t /\ \A v \in Workers \ {w} : task'[v] = task[v]
  BY <1>1, <1>3 DEF TypeOK
<1> HIDE DEF t
<1>8. TaskSound(w)'
  BY <1>1, <1>6, <1>7 DEF TaskSound, dataVars
<1>9. ExecutionInv(w)'
  BY <1>1, <1>2, <1>4, <1>5, <1>6, <1>7, <1>8 DEF ExecutionInv, Answered, dataVars
<1> QED
  BY <1>7, <1>9, OthersKept

LEMMA FetchKeeps ==
  ASSUME ExecutionsInv, [Next]_vars, NEW w \in Workers, Fetch(w)
  PROVE  \A v \in Workers : ExecutionInv(v)'
<1>1. /\ TypeOK /\ TasksSound /\ UNCHANGED dataVars
      /\ task[w] # NoTask /\ task[w].step = "fetching"
  BY DEF Fetch, ExecutionsInv
<1>2. PICK final \in Pages, images \in ImageOutcomes :
        task' = [task EXCEPT ![w] =
          [@ EXCEPT !.step = "fetched", !.page = final, !.sent = 0,
                    !.evidence = [content |-> site[final], images |-> images]]]
  BY DEF Fetch
<1> DEFINE e == [content |-> site[final], images |-> images]
<1>3. e \in Evidence
  BY <1>1 DEF TypeOK, Evidence
<1> HIDE DEF e
<1>4. /\ task[w] \in Tasks
      /\ task'[w] = [task[w] EXCEPT !.step = "fetched", !.page = final, !.sent = 0,
                                   !.evidence = e]
      /\ \A v \in Workers \ {w} : task'[v] = task[v]
  BY <1>1, <1>2 DEF TypeOK, e
<1>5. task'[w] \in Tasks
  <2>1. task'[w] = [run |-> task[w].run, step |-> "fetched", page |-> final, sent |-> 0,
                    evidence |-> e, version |-> task[w].version]
    BY <1>4 DEF Tasks
  <2> QED
    BY <1>1, <1>3, <2>1, TaskTyped DEF Tasks, Steps
<1>6. /\ task'[w].step = "fetched" /\ task'[w].page = final /\ task'[w].sent = 0
      /\ task'[w].evidence = e /\ task'[w].run = task[w].run
      /\ task'[w].version = task[w].version /\ task'[w] # NoTask
  BY <1>4, <1>5, NullAssumption DEF Tasks
<1>7. task[w].version = 0 /\ request[task[w].run] # NoRequest
  BY <1>1 DEF TasksSound, TaskSound
<1>8. Len(versions[final]) \in Nat
  BY <1>1, VersionsTyped
<1>9. TaskSound(w)'
  BY <1>1, <1>3, <1>6, <1>7 DEF TaskSound, dataVars
<1>10. ExecutionInv(w)'
  BY <1>1, <1>5, <1>6, <1>7, <1>8, <1>9 DEF ExecutionInv, Answered, dataVars
<1> QED
  BY <1>4, <1>10, OthersKept


LEMMA VersionKeeps ==
  ASSUME ExecutionsInv, [Next]_vars, NEW w \in Workers, PersistVersion(w) \/ PersistSource(w)
  PROVE  \A v \in Workers : ExecutionInv(v)'
<1> DEFINE p == task[w].page
           e == task[w].evidence
           n == Len(versions[p]) + 1
<1>1. TypeOK /\ TasksSound
  BY DEF ExecutionsInv
<1>2. /\ task[w] # NoTask
      /\ Answers(w, n) /\ candidate' = Linked(task[w].run) /\ request' = request
  BY <1>1, VersionAdded
<1>3. /\ Len(versions[p]) \in Nat
      /\ DOMAIN versions'[p] = 1 .. n
      /\ Len(versions'[p]) = n
      /\ versions'[p][n] = [evidence |-> e, previous |-> Len(versions[p])]
  BY <1>1, VersionGrown
<1>4. task[w].step \in {"stored", "inserting"} /\ task[w].sent = 0
  BY <1>1 DEF PersistVersion, PersistSource, BytesStored, TasksSound, TaskSound
<1> HIDE DEF p, e
<1>5. n \in DOMAIN versions'[p] /\ n \in Nat /\ versions'[p][n].evidence = e
  BY <1>3
<1> QED
  BY <1>2, <1>3, <1>4, <1>5, AnswerKeeps DEF p, e

LEMMA DuplicateKeeps ==
  ASSUME ExecutionsInv, [Next]_vars, NEW w \in Workers, PersistDuplicate(w)
  PROVE  \A v \in Workers : ExecutionInv(v)'
<1> DEFINE p == task[w].page
<1>1. TypeOK /\ TasksSound /\ task[w] # NoTask
  BY DEF ExecutionsInv, PersistDuplicate
<1>2. p \in Pages /\ task[w].sent = 0
  BY <1>1, TaskTyped DEF PersistDuplicate, BytesStored, TasksSound, TaskSound
<1>3. PICK n \in Matching(p, task[w].evidence) : Answers(w, n)
  BY DEF PersistDuplicate
<1>4. n \in DOMAIN versions[p] /\ versions[p][n].evidence = task[w].evidence
  BY <1>3 DEF Matching
<1>5. DOMAIN versions[p] = 1 .. Len(versions[p]) /\ Len(versions[p]) \in Nat
  BY <1>1, <1>2, VersionsTyped
<1>6. /\ versions' = versions /\ request' = request /\ candidate' = Linked(task[w].run)
  BY DEF PersistDuplicate
<1>7. n \in Nat /\ task[w].sent <= n
  BY <1>2, <1>4, <1>5
<1> QED
  BY <1>1, <1>3, <1>4, <1>5, <1>6, <1>7, AnswerKeeps

\* The answer to a 304 is the latest version at the commit: the page is known
\* because its validators were read, and its versions only became more.
LEMMA NotModifiedKeeps ==
  ASSUME ExecutionsInv, [Next]_vars, NEW w \in Workers, RecordNotModified(w)
  PROVE  \A v \in Workers : ExecutionInv(v)'
<1> DEFINE p == task[w].page
           n == Len(versions[p])
<1>1. TypeOK /\ TasksSound /\ task[w] # NoTask /\ ExecutionInv(w)
  BY ExecutionByExecution DEF ExecutionsInv, RecordNotModified
<1>2. p \in Pages /\ task[w].sent \in Nat /\ task[w].sent # 0
  BY <1>1, TaskTyped DEF RecordNotModified, TasksSound, TaskSound
<1>3. DOMAIN versions[p] = 1 .. n /\ n \in Nat /\ task[w].sent <= n
  BY <1>1, <1>2, VersionsTyped DEF ExecutionInv
<1>4. /\ versions' = versions /\ request' = request /\ candidate' = Linked(task[w].run)
      /\ Answers(w, n)
  BY DEF RecordNotModified, LatestVersion
<1> HIDE DEF n
<1>5. n \in DOMAIN versions[p]
  BY <1>2, <1>3
<1> QED
  BY <1>1, <1>2, <1>3, <1>4, <1>5, AnswerKeeps DEF n

LEMMA ExecutionsKeep ==
  ASSUME ExecutionsInv, [Next]_vars
  PROVE  \A v \in Workers : ExecutionInv(v)'
<1>1. TypeOK /\ TasksSound
  BY DEF ExecutionsInv
<1>2. CASE task' = task
  BY <1>2, OthersKept
<1>3. ASSUME NEW w \in Workers, NEW k \in Runs, Start(w, k)
      PROVE  \A v \in Workers : ExecutionInv(v)'
  BY <1>3, StartKeeps
<1>4. ASSUME NEW w \in Workers, NotModified(w) PROVE \A v \in Workers : ExecutionInv(v)'
  <2>1. task[w] # NoTask /\ task[w].sent # 0 /\ task[w].version = 0
    BY <1>1, <1>4 DEF NotModified, TasksSound, TaskSound
  <2> QED
    BY <1>4, <2>1, MoveKeeps DEF NotModified, dataVars, Steps
<1>5. ASSUME NEW w \in Workers, Fetch(w) PROVE \A v \in Workers : ExecutionInv(v)'
  BY <1>5, FetchKeeps
<1>6. ASSUME NEW w \in Workers, Store(w) PROVE \A v \in Workers : ExecutionInv(v)'
  <2>1. /\ task[w] # NoTask /\ task[w].version = 0 /\ task[w].sent = 0
        /\ task[w].evidence \in objects'
    BY <1>1, <1>6 DEF Store, TasksSound, TaskSound
  <2> QED
    BY <1>6, <2>1, MoveKeeps DEF Store, Steps
<1>7. ASSUME NEW w \in Workers, FindNoSource(w) PROVE \A v \in Workers : ExecutionInv(v)'
  <2>1. /\ task[w] # NoTask /\ task[w].version = 0 /\ task[w].sent = 0
        /\ task[w].evidence \in objects
    BY <1>1, <1>7 DEF FindNoSource, BytesStored, TasksSound, TaskSound
  <2> QED
    BY <1>7, <2>1, MoveKeeps DEF FindNoSource, dataVars, Steps
<1>8. ASSUME NEW w \in Workers, Finish(w) \/ Fail(w) PROVE \A v \in Workers : ExecutionInv(v)'
  BY <1>8, EndKeeps DEF Finish, Fail
<1>9. CASE \E w \in Workers : \/ PersistDuplicate(w) \/ PersistVersion(w)
                              \/ PersistSource(w) \/ RecordNotModified(w)
  BY <1>9, DuplicateKeeps, VersionKeeps, NotModifiedKeeps
<1>10. \/ task' = task
       \/ \E w \in Workers : \/ \E k \in Runs : Start(w, k)
                             \/ NotModified(w) \/ Fetch(w) \/ Store(w) \/ FindNoSource(w)
                             \/ PersistDuplicate(w) \/ PersistVersion(w) \/ PersistSource(w)
                             \/ RecordNotModified(w) \/ Finish(w) \/ Fail(w)
  BY DEF Next, vars, SiteChanges, SaveCandidates, SelectCandidate, ImportUrl, RetryRun
<1> QED
  BY <1>2, <1>3, <1>4, <1>5, <1>6, <1>7, <1>8, <1>9, <1>10

LEMMA ExecutionsInvariant == ExecutionsInv /\ [Next]_vars => ExecutionsInv'
<1> SUFFICES ASSUME ExecutionsInv, [Next]_vars PROVE ExecutionsInv'
  OBVIOUS
<1>1. TypeOK /\ TasksSound
  BY DEF ExecutionsInv
<1>2. \A v \in Workers : ExecutionInv(v)'
  BY ExecutionsKeep
<1>3. TasksSound' /\ AnswerHoldsTheCapture'
  <2>1. AnswerHoldsTheCapture' <=> \A v \in Workers : Answered(v)'
    BY DEF AnswerHoldsTheCapture, Answered
  <2> QED
    BY <1>2, <2>1 DEF ExecutionInv, TasksSound
<1>4. site' \in [Pages -> Contents]
  <2>1. \/ site' = site
        \/ \E p \in Pages : SiteChanges(p)
    BY DEF Next, vars, dataVars, SaveCandidates, SelectCandidate, ImportUrl, RetryRun, Start,
           NotModified, Fetch, Store, PersistDuplicate, PersistVersion, FindNoSource,
           PersistSource, RecordNotModified, Finish, Fail
  <2> QED
    BY <1>1, <2>1 DEF SiteChanges, TypeOK
<1>5. versions' \in [Pages -> Seq(Versions)]
  <2>1. ASSUME NEW w \in Workers, PersistVersion(w) \/ PersistSource(w)
        PROVE  versions' \in [Pages -> Seq(Versions)]
    BY <1>1, <2>1, VersionGrown
  <2> QED
    BY <1>1, <2>1, VersionSteps DEF TypeOK
<1>6. objects' \in SUBSET Evidence
  BY <1>1, ObjectSteps DEF Store, TasksSound, TaskSound, TypeOK
<1>7. candidate' \in [Candidates -> CandidateStatus]
  BY <1>1, CandidateKept
<1>8. request' \in [Runs -> Requests \cup {NoRequest}]
  BY <1>1, RequestsKept
<1>9. result' \in [Runs -> Results]
  BY <1>1, ResultSteps DEF RetryRun, Finish, Fail, TypeOK, Results
<1>10. task' \in [Workers -> Tasks \cup {NoTask}]
  <2>1. task' = [w \in Workers |-> task'[w]]
    BY <1>1 DEF Next, vars, dataVars, SiteChanges, SaveCandidates, SelectCandidate, ImportUrl,
                RetryRun, Start, NotModified, Fetch, Store, PersistDuplicate, PersistVersion,
                FindNoSource, PersistSource, RecordNotModified, Finish, Fail, Answers, TypeOK
  <2> QED
    BY <1>2, <2>1 DEF ExecutionInv
<1>11. TypeOK'
  BY <1>2, <1>4, <1>5, <1>6, <1>7, <1>8, <1>9, <1>10 DEF TypeOK, ExecutionInv
<1> QED
  BY <1>3, <1>11 DEF ExecutionsInv


-------------------------------------------------------------------------------
(* The rows.                                                               *)

LEMMA LineageInvariant ==
  TypeOK /\ TasksSound /\ LineageIsChain /\ [Next]_vars => LineageIsChain'
<1> SUFFICES ASSUME TypeOK, TasksSound, LineageIsChain, [Next]_vars PROVE LineageIsChain'
  OBVIOUS
<1>1. CASE versions' = versions
  BY <1>1 DEF LineageIsChain
<1>2. ASSUME NEW w \in Workers, PersistVersion(w) \/ PersistSource(w) PROVE LineageIsChain'
  <2> DEFINE p == task[w].page
             e == task[w].evidence
             n == Len(versions[p]) + 1
  <2>1. p \in Pages /\ Matching(p, e) = {}
    BY <1>2, VersionAdded
  <2>2. Len(versions[p]) \in Nat /\ DOMAIN versions[p] = 1 .. Len(versions[p])
    BY <1>2, VersionGrown
  <2>3. /\ DOMAIN versions'[p] = 1 .. n
        /\ \A m \in 1 .. n - 1 : versions'[p][m] = versions[p][m]
        /\ versions'[p][n] = [evidence |-> e, previous |-> n - 1]
        /\ \A q \in Pages \ {p} : versions'[q] = versions[q]
    <3>1. n - 1 = Len(versions[p])
      BY <2>2
    <3> QED
      BY <1>2, <3>1, VersionGrown
  <2> HIDE DEF p, e
  <2>4. \A m \in 1 .. n - 1 : versions[p][m].evidence # e
    BY <2>1, <2>2 DEF Matching
  <2>5. \A m \in 1 .. n - 1 :
          /\ versions[p][m].previous = m - 1
          /\ \A o \in 1 .. n - 1 : versions[p][m].evidence = versions[p][o].evidence => m = o
    BY <2>1, <2>2 DEF LineageIsChain
  <2> HIDE DEF n
  <2>6. n \in Nat \ {0}
    BY <2>2 DEF n
  <2>7. ASSUME NEW m \in 1 .. n, NEW o \in 1 .. n
        PROVE  /\ versions'[p][o].previous = o - 1
               /\ versions'[p][m].evidence = versions'[p][o].evidence => m = o
    <3>1. versions'[p][n].evidence = e /\ versions'[p][n].previous = n - 1
      BY <2>3
    <3>2. \A i \in 1 .. n : i # n => i \in 1 .. n - 1
      BY <2>6
    <3>3. \A i \in 1 .. n - 1 :
            /\ versions'[p][i].previous = i - 1
            /\ versions'[p][i].evidence # e
      BY <2>3, <2>4, <2>5
    <3> QED
      BY <2>3, <2>5, <3>1, <3>2, <3>3
  <2>8. \A q \in Pages \ {p} : \A m, o \in DOMAIN versions'[q] :
          /\ versions'[q][o].previous = o - 1
          /\ versions'[q][m].evidence = versions'[q][o].evidence => m = o
    BY <2>3 DEF LineageIsChain
  <2>9. \A q \in Pages : \A m, o \in DOMAIN versions'[q] :
          /\ versions'[q][o].previous = o - 1
          /\ versions'[q][m].evidence = versions'[q][o].evidence => m = o
    <3> SUFFICES ASSUME NEW q \in Pages, NEW m \in DOMAIN versions'[q],
                        NEW o \in DOMAIN versions'[q]
                 PROVE  /\ versions'[q][o].previous = o - 1
                        /\ versions'[q][m].evidence = versions'[q][o].evidence => m = o
      OBVIOUS
    <3>1. CASE q = p
      BY <2>3, <2>7, <3>1
    <3>2. CASE q # p
      BY <2>8, <3>2
    <3> QED
      BY <3>1, <3>2
  <2> QED
    BY <2>9 DEF LineageIsChain
<1> QED
  BY <1>1, <1>2, VersionSteps

LEMMA BytesInvariant ==
  TypeOK /\ TasksSound /\ BytesBeforeRows /\ [Next]_vars => BytesBeforeRows'
<1> SUFFICES ASSUME TypeOK, TasksSound, BytesBeforeRows, [Next]_vars PROVE BytesBeforeRows'
  OBVIOUS
<1>1. objects \subseteq objects'
  BY StepKeepsEvidence DEF EvidenceKept
<1>2. CASE versions' = versions
  BY <1>1, <1>2 DEF BytesBeforeRows
<1>3. ASSUME NEW w \in Workers, PersistVersion(w) \/ PersistSource(w) PROVE BytesBeforeRows'
  <2> DEFINE p == task[w].page
             e == task[w].evidence
  <2>1. p \in Pages /\ e \in objects
    BY <1>3, VersionAdded
  <2>2. Len(versions[p]) \in Nat /\ DOMAIN versions[p] = 1 .. Len(versions[p])
    BY <1>3, VersionGrown
  <2>3. /\ DOMAIN versions'[p] = 1 .. Len(versions[p]) + 1
        /\ \A m \in 1 .. Len(versions[p]) : versions'[p][m] = versions[p][m]
        /\ versions'[p][Len(versions[p]) + 1] = [evidence |-> e, previous |-> Len(versions[p])]
        /\ \A q \in Pages \ {p} : versions'[q] = versions[q]
    BY <1>3, VersionGrown
  <2> HIDE DEF p, e
  <2>4. \A m \in 1 .. Len(versions[p]) + 1 :
          m \in 1 .. Len(versions[p]) \/ m = Len(versions[p]) + 1
    BY <2>2
  <2> QED
    BY <1>1, <2>1, <2>2, <2>3, <2>4 DEF BytesBeforeRows
<1> QED
  BY <1>2, <1>3, VersionSteps

LEMMA SettledInvariant ==
  TypeOK /\ TasksSound /\ SettledWasRequested /\ [Next]_vars => SettledWasRequested'
<1> SUFFICES ASSUME TypeOK, TasksSound, SettledWasRequested, [Next]_vars
             PROVE  SettledWasRequested'
  OBVIOUS
<1>1. \A k \in Runs : request[k] # NoRequest => request'[k] # NoRequest
  BY RequestsKept
<1>2. \A k \in Runs : result'[k] # "pending" => request[k] # NoRequest
  <2>1. ASSUME NEW w \in Workers, Finish(w) \/ Fail(w)
        PROVE  \A k \in Runs : result'[k] # "pending" => request[k] # NoRequest
    BY <2>1 DEF Finish, Fail, TypeOK, TasksSound, TaskSound, SettledWasRequested
  <2>2. ASSUME NEW j \in Runs, RetryRun(j)
        PROVE  \A k \in Runs : result'[k] # "pending" => request[k] # NoRequest
    BY <2>2 DEF RetryRun, TypeOK, SettledWasRequested
  <2> QED
    BY <2>1, <2>2, ResultSteps DEF SettledWasRequested
<1> QED
  BY <1>1, <1>2 DEF SettledWasRequested

\* The runs that took candidate c.
Takers(c) == {k \in Runs : request[k] # NoRequest /\ c \in CandidatesOf(k)}

LEMMA CandidateInvariant ==
  TypeOK /\ TasksSound /\ CandidateHasOneRun /\ [Next]_vars => CandidateHasOneRun'
<1> SUFFICES ASSUME TypeOK, TasksSound, CandidateHasOneRun, [Next]_vars,
                    NEW c \in Candidates
             PROVE  /\ candidate'[c] \in {"absent", "discovered"} => Takers(c)' = {}
                    /\ candidate'[c] \in {"selected", "imported"} =>
                         \E k \in Runs : Takers(c)' = {k}
  BY DEF CandidateHasOneRun, Takers
<1>1. /\ candidate[c] \in {"absent", "discovered"} => Takers(c) = {}
      /\ candidate[c] \in {"selected", "imported"} => \E k \in Runs : Takers(c) = {k}
      /\ candidate[c] \in CandidateStatus
  BY DEF CandidateHasOneRun, Takers, TypeOK
<1>2. CASE request' = request /\ candidate' = candidate
  <2>1. Takers(c)' = Takers(c)
    BY <1>2 DEF Takers, CandidatesOf
  <2> QED
    BY <1>1, <1>2, <2>1
<1>3. ASSUME NEW found \in SUBSET Candidates, SaveCandidates(found)
      PROVE  /\ Takers(c)' = Takers(c)
             /\ candidate'[c] # candidate[c] => candidate[c] = "absent" /\ candidate'[c] = "discovered"
  <2>1. Takers(c)' = Takers(c)
    BY <1>3 DEF SaveCandidates, Takers, CandidatesOf
  <2> QED
    BY <1>3, <2>1 DEF SaveCandidates, WithDiscovered
<1>4. ASSUME NEW k \in Runs, NEW d \in Candidates, SelectCandidate(k, d)
      PROVE  /\ candidate'[c] \in {"absent", "discovered"} => Takers(c)' = {}
             /\ candidate'[c] \in {"selected", "imported"} =>
                  \E j \in Runs : Takers(c)' = {j}
  <2>1. /\ request[k] = NoRequest /\ candidate[d] = "discovered"
        /\ candidate' = [candidate EXCEPT ![d] = "selected"]
        /\ request' = [request EXCEPT ![k] = [page |-> PageOf[d], candidate |-> d]]
    BY <1>4 DEF SelectCandidate, Selectable
  <2>2. [page |-> PageOf[d], candidate |-> d] \in Requests
    BY EvidenceAssumption DEF Requests
  <2>3. /\ request'[k] = [page |-> PageOf[d], candidate |-> d] /\ request'[k] # NoRequest
        /\ \A j \in Runs \ {k} : request'[j] = request[j]
    BY <2>1, <2>2, NullAssumption DEF TypeOK
  <2>4. CASE c = d
    <3>1. Takers(c) = {} /\ candidate'[c] = "selected"
      BY <1>1, <2>1, <2>4 DEF TypeOK
    <3>2. Takers(c)' = {k}
      BY <2>3, <2>4, <3>1, EvidenceAssumption DEF Takers, CandidatesOf
    <3> QED
      BY <3>1, <3>2
  <2>5. CASE c # d
    <3>1. candidate'[c] = candidate[c]
      BY <2>1, <2>5 DEF TypeOK
    <3>2. Takers(c)' = Takers(c)
      BY <2>1, <2>3, <2>5 DEF Takers, CandidatesOf
    <3> QED
      BY <1>1, <3>1, <3>2
  <2> QED
    BY <2>4, <2>5
<1>5. ASSUME NEW k \in Runs, NEW p \in Pages, ImportUrl(k, p)
      PROVE  candidate' = candidate /\ Takers(c)' = Takers(c)
  <2>1. /\ request[k] = NoRequest
        /\ request' = [request EXCEPT ![k] = [page |-> p, candidate |-> NoCandidate]]
    BY <1>5 DEF ImportUrl
  <2>2. /\ request'[k] = [page |-> p, candidate |-> NoCandidate]
        /\ \A j \in Runs \ {k} : request'[j] = request[j]
    BY <2>1 DEF TypeOK
  <2>3. Takers(c)' = Takers(c)
    BY <2>1, <2>2 DEF Takers, CandidatesOf
  <2> QED
    BY <1>5, <2>3 DEF ImportUrl
<1>6. ASSUME NEW w \in Workers, task[w] # NoTask, Linkable(task[w].run, task[w].page),
             candidate' = Linked(task[w].run), request' = request
      PROVE  /\ Takers(c)' = Takers(c)
             /\ candidate'[c] # candidate[c] => candidate[c] = "selected" /\ candidate'[c] = "imported"
  <2>1. Takers(c)' = Takers(c)
    BY <1>6 DEF Takers, CandidatesOf
  <2> QED
    BY <1>6, <2>1 DEF Linked, Linkable
<1>7. ASSUME NEW w \in Workers,
             PersistDuplicate(w) \/ PersistVersion(w) \/ PersistSource(w) \/ RecordNotModified(w)
      PROVE  /\ task[w] # NoTask /\ Linkable(task[w].run, task[w].page)
             /\ candidate' = Linked(task[w].run) /\ request' = request
  BY <1>7 DEF PersistDuplicate, PersistVersion, PersistSource, RecordNotModified
<1>8. \/ request' = request /\ candidate' = candidate
      \/ \E found \in SUBSET Candidates : SaveCandidates(found)
      \/ \E k \in Runs, d \in Candidates : SelectCandidate(k, d)
      \/ \E k \in Runs, p \in Pages : ImportUrl(k, p)
      \/ \E w \in Workers : \/ PersistDuplicate(w) \/ PersistVersion(w)
                            \/ PersistSource(w) \/ RecordNotModified(w)
  BY CandidateSteps, RequestSteps
<1> QED
  BY <1>1, <1>2, <1>3, <1>4, <1>5, <1>6, <1>7, <1>8

LEMMA ImportedInvariant ==
  /\ TypeOK /\ TasksSound /\ AnswerHoldsTheCapture /\ SettledWasRequested /\ ImportedHasEvidence
  /\ [Next]_vars
  => ImportedHasEvidence'
<1> SUFFICES ASSUME TypeOK, TasksSound, AnswerHoldsTheCapture, SettledWasRequested,
                    ImportedHasEvidence, [Next]_vars
             PROVE  ImportedHasEvidence'
  OBVIOUS
<1>1. \A c \in Candidates : candidate[c] = "imported" => candidate'[c] = "imported"
  BY CandidateKept
<1>2. ASSUME NEW k \in Runs, result'[k] = "succeeded", NEW c \in CandidatesOf(k)'
      PROVE  candidate'[c] = "imported"
  <2>1. \A w \in Workers : task[w] # NoTask => request[task[w].run] # NoRequest
    BY DEF TasksSound, TaskSound
  <2>2. CASE result[k] = "succeeded"
    <3>1. request[k] # NoRequest /\ request'[k] = request[k]
      BY <2>2, RequestsKept DEF SettledWasRequested
    <3>2. c \in CandidatesOf(k) /\ c \in Candidates
      BY <3>1, CandidateTyped DEF CandidatesOf
    <3> QED
      BY <1>1, <2>2, <3>2 DEF ImportedHasEvidence
  <2>3. CASE result[k] # "succeeded"
    <3>1. PICK w \in Workers : Finish(w) /\ task[w].run = k
      BY <1>2, <2>3, ResultSteps DEF RetryRun, Finish, Fail, TypeOK
    <3>2. request[k] # NoRequest /\ request' = request
      BY <2>1, <3>1 DEF Finish
    <3>3. c \in CandidatesOf(k)
      BY <3>2 DEF CandidatesOf
    <3>4. candidate[c] = "imported" /\ candidate' = candidate
      BY <3>1, <3>3 DEF Finish, TasksSound, TaskSound
    <3> QED
      BY <3>4
  <2> QED
    BY <2>2, <2>3
<1>3. ASSUME NEW c \in Candidates, candidate'[c] = "imported"
      PROVE  Known(PageOf[c])'
  <2>1. PageOf[c] \in Pages
    BY EvidenceAssumption
  <2>2. CASE candidate[c] = "imported"
    BY <2>1, <2>2, PagesKept DEF ImportedHasEvidence
  <2>3. CASE candidate[c] # "imported"
    <3>1. PICK w \in Workers : \/ PersistDuplicate(w) \/ PersistVersion(w)
                               \/ PersistSource(w) \/ RecordNotModified(w)
      BY <1>3, <2>3, CandidateSteps
      DEF SaveCandidates, WithDiscovered, SelectCandidate, TypeOK
    <3>2. /\ task[w] # NoTask /\ Linkable(task[w].run, task[w].page)
          /\ candidate' = Linked(task[w].run)
      BY <3>1 DEF PersistDuplicate, PersistVersion, PersistSource, RecordNotModified
    <3>3. PageOf[c] = task[w].page
      BY <1>3, <2>3, <3>2 DEF Linked, Linkable
    <3> DEFINE p == task[w].page
    <3>4. p \in Pages /\ task[w].sent \in Nat /\ Len(versions[p]) \in Nat
      BY <3>2, TaskTyped, VersionsTyped
    <3>5. CASE PersistDuplicate(w)
      <4>1. DOMAIN versions[p] # {} /\ versions' = versions
        BY <3>5 DEF PersistDuplicate, Matching
      <4> QED
        BY <3>3, <4>1 DEF Known
    <3>6. CASE PersistVersion(w) \/ PersistSource(w)
      <4>1. DOMAIN versions'[p] = 1 .. Len(versions[p]) + 1
        BY <3>6, VersionGrown
      <4> HIDE DEF p
      <4>2. versions'[p] # <<>>
        BY <3>4, <4>1
      <4> QED
        BY <3>3, <4>2 DEF Known, p
    <3>7. CASE RecordNotModified(w)
      <4>1. task[w].sent # 0 /\ versions' = versions
        BY <3>2, <3>7 DEF RecordNotModified, TasksSound, TaskSound
      <4>2. task[w].sent <= Len(versions[p])
        BY <3>2 DEF TypeOK
      <4>3. Known(p)
        BY <3>4, <4>1, <4>2, VersionsTyped
      <4> QED
        BY <3>3, <4>1, <4>3 DEF Known
    <3> QED
      BY <3>1, <3>5, <3>6, <3>7
  <2> QED
    BY <2>2, <2>3
<1> QED
  BY <1>2, <1>3 DEF ImportedHasEvidence


-------------------------------------------------------------------------------
(* The theorems.                                                           *)

LEMMA InitialState == Init => IInv
<1> SUFFICES ASSUME Init PROVE IInv
  OBVIOUS
<1>1. TypeOK
  <2>1. <<>> \in Seq(Versions)
    BY EmptySeq
  <2> QED
    BY <2>1 DEF Init, TypeOK, CandidateStatus, Results
<1>2. TasksSound /\ SettledWasRequested /\ AnswerHoldsTheCapture
  BY DEF Init, TasksSound, TaskSound, SettledWasRequested, AnswerHoldsTheCapture
<1>3. LineageIsChain /\ BytesBeforeRows
  BY DEF Init, LineageIsChain, BytesBeforeRows
<1>4. CandidateHasOneRun
  BY DEF Init, CandidateHasOneRun
<1>5. ImportedHasEvidence
  BY DEF Init, ImportedHasEvidence
<1> QED
  BY <1>1, <1>2, <1>3, <1>4, <1>5 DEF IInv

LEMMA NextState == IInv /\ [Next]_vars => IInv'
BY ExecutionsInvariant, LineageInvariant, BytesInvariant, SettledInvariant, CandidateInvariant,
   ImportedInvariant DEF IInv, ExecutionsInv

LEMMA InvariantHolds == Spec => []IInv
BY InitialState, NextState, PTL DEF Spec

\* Rows, objects and executions keep the form their tables ask for; an
\* execution never refers to a version that is not there.
THEOREM EvidenceTypeCorrect == Spec => []TypeOK
<1>1. IInv => TypeOK
  BY DEF IInv
<1> QED
  BY <1>1, InvariantHolds, PTL

\* Captures of one page may race in any number: its versions form one chain
\* that repeats no evidence (persist_capture).
THEOREM LineageAlwaysChain == Spec => []LineageIsChain
<1>1. IInv => LineageIsChain
  BY DEF IInv
<1> QED
  BY <1>1, InvariantHolds, PTL

\* Wherever an execution dies, no row is left that refers to missing bytes
\* (put comes before persist_capture).
THEOREM BytesAlwaysBeforeRows == Spec => []BytesBeforeRows
<1>1. IInv => BytesBeforeRows
  BY DEF IInv
<1> QED
  BY <1>1, InvariantHolds, PTL

\* However many captures commit between its fetch and its answer, a capture is
\* answered with the version of what it fetched, or after a 304 with one no
\* older than what the site compared (persist_capture, record_not_modified).
THEOREM AnswersHoldCaptures == Spec => []AnswerHoldsTheCapture
<1>1. IInv => AnswerHoldsTheCapture
  BY DEF IInv
<1> QED
  BY <1>1, InvariantHolds, PTL

\* Discovery repeated and runs retried in any order: a candidate is taken by
\* one run, exactly when it has left the discovered state (enqueue).
THEOREM CandidatesHaveOneRun == Spec => []CandidateHasOneRun
<1>1. IInv => CandidateHasOneRun
  BY DEF IInv
<1> QED
  BY <1>1, InvariantHolds, PTL

\* A capture that succeeded left its candidate imported, with a version of the
\* candidate's own page (capture, _link_candidate).
THEOREM ImportedAlwaysHasEvidence == Spec => []ImportedHasEvidence
<1>1. IInv => ImportedHasEvidence
  BY DEF IInv
<1> QED
  BY <1>1, InvariantHolds, PTL

\* No step changes or removes a version or an object, or takes a candidate back.
THEOREM EvidenceNeverChanges == Spec => EvidenceIsImmutable
<1>1. IInv /\ [Next]_vars => [EvidenceKept]_vars
  BY StepKeepsEvidence DEF IInv
<1> QED
  BY <1>1, InvariantHolds, PTL DEF Spec, EvidenceIsImmutable

===============================================================================
