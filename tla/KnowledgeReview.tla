---------------------------- MODULE KnowledgeReview ----------------------------
(***************************************************************************)
(* From candidate claims to published knowledge, inside one project:       *)
(*   infrastructure/database/knowledge_repository.py        persist_result *)
(*   infrastructure/database/knowledge_workspace_service.py  entities      *)
(*   infrastructure/database/review_service.py      reviews and closures   *)
(*   infrastructure/database/conflict_service.py    reconcile              *)
(*   infrastructure/database/agent_review_service.py    confirm_pack       *)
(*   infrastructure/database/snapshot_service.py    publish                *)
(*                                                                         *)
(* review_claim, close_conflict, reconcile and publish hold the project's  *)
(* row FOR UPDATE, and every insert of the other commands takes it FOR KEY *)
(* SHARE through a foreign key: against those four, a command is atomic    *)
(* from its first lock or insert to its commit.  What confirm_pack and     *)
(* persist_result read before their first insert, they read with no lock:  *)
(* those reads are steps of their own here.  Two confirmations may overlap *)
(* after their first inserts too; what they then write to the same claims  *)
(* are equal decisions, and the model takes them one after the other.      *)
(***************************************************************************)
EXTENDS Naturals, Sequences

CONSTANTS
  Claims,       \* candidate claims, each with exact evidence
  Scopes,       \* comparison keys: subject, predicate, scope fingerprint
  Subjects,     \* entities the claims are about
  Extractions,  \* knowledge.extract runs
  Values,       \* normalized values
  ScopeOf,      \* ScopeOf[c]: the comparison key of claim c
  SubjectOf,    \* SubjectOf[s]: the entity of comparison key s
  ValueOf,      \* ValueOf[c]: the normalized value the model extracted
  ExtractionOf, \* ExtractionOf[c]: the run that extracted claim c
  TargetOf,     \* TargetOf[x]: the subject of extraction run x
  Exclusive,    \* the comparison keys of single-valued predicates
  ReviewKeys,   \* idempotency keys of reviews
  PackKeys,     \* idempotency keys of confirmations
  PublishKeys,  \* idempotency keys of publications
  NoValue,      \* the value of a review that approves none
  NoClaim,      \* a confirmation that has written nothing yet
  NoPack,       \* no confirmation is in flight with this key
  MaxRevision   \* bound: revisions of an entity

ASSUME KnowledgeAssumption ==
  /\ ScopeOf \in [Claims -> Scopes]
  /\ SubjectOf \in [Scopes -> Subjects]
  /\ ValueOf \in [Claims -> Values]
  /\ ExtractionOf \in [Claims -> Extractions]
  /\ TargetOf \in [Extractions -> Subjects]
  /\ \A c \in Claims : SubjectOf[ScopeOf[c]] = TargetOf[ExtractionOf[c]]
  /\ Exclusive \subseteq Scopes
  /\ ReviewKeys \cap PackKeys = {}
  /\ NoValue \notin Values
  /\ Values \cap {"absent", "undecided", "rejected"} = {}
  /\ NoClaim \notin Claims
  /\ MaxRevision \in Nat

VARIABLES
  extraction,  \* extraction[x]: how far persist_result of run x got
  proposal,    \* proposal[c]: the Reviewer agent's decision about c
  reviews,     \* reviews[c]: the human decisions about c, by created_at
  group,       \* group[s]: the conflict group of comparison key s
  revision,    \* revision[e]: the latest revision of entity e
  pack,        \* pack[k]: the confirmation in flight with key k
  confirmed,   \* the confirmations audited, with the key of each
  snapshots    \* the published snapshots, by version_number

vars == <<extraction, proposal, reviews, group, revision, pack, confirmed, snapshots>>

Approving == {"approve", "approve_with_edit"}
Proposals == {"none", "agent_approved", "agent_rejected", "needs_human"}

Reviews ==
  [decision : Approving, value : Values, key : ReviewKeys \cup PackKeys]
    \cup [decision : {"reject", "defer"}, value : {NoValue}, key : ReviewKeys \cup PackKeys]

Groups == [status : {"absent", "open", "resolved", "dismissed"}, members : SUBSET Claims]

Revisions == [number : Nat, status : {"active", "archived"}]

\* `todo` are the suggestions the loop has not looked at, `first` is the first
\* claim it found to write, and `stamp` how many reviews of it there were then.
Packs == [run : Extractions, todo : SUBSET Claims,
          first : Claims \cup {NoClaim}, stamp : Nat]

Members == [claim : Claims, review : Reviews, revision : Revisions]
Snapshots == [key : PublishKeys, members : SUBSET Members]

TypeOK ==
  /\ extraction \in [Extractions -> {"pending", "checked", "persisted"}]
  /\ proposal \in [Claims -> Proposals]
  /\ reviews \in [Claims -> Seq(Reviews)]
  /\ group \in [Scopes -> Groups]
  /\ revision \in [Subjects -> Revisions]
  /\ pack \in [PackKeys -> Packs \cup {NoPack}]
  /\ confirmed \in SUBSET (PackKeys \X Extractions)
  /\ snapshots \in Seq(Snapshots)

Init ==
  /\ extraction = [x \in Extractions |-> "pending"]
  /\ proposal = [c \in Claims |-> "none"]
  /\ reviews = [c \in Claims |-> <<>>]
  /\ group = [s \in Scopes |-> [status |-> "absent", members |-> {}]]
  /\ revision = [e \in Subjects |-> [number |-> 1, status |-> "active"]]
  /\ pack = [k \in PackKeys |-> NoPack]
  /\ confirmed = {}
  /\ snapshots = <<>>

-------------------------------------------------------------------------------
(* What the database shows.  FAULT marks a buggy variant of the definition *)
(* below it, which is not part of the model.                               *)

Candidates == {c \in Claims : extraction[ExtractionOf[c]] = "persisted"}
InScope(s) == {c \in Candidates : ScopeOf[c] = s}

Reviewed(c) == reviews[c] # <<>>
Latest(c) == reviews[c][Len(reviews[c])]
Approved(c) == Reviewed(c) /\ Latest(c).decision \in Approving

\* FAULT: a deferral settles a claim like a rejection.
FinalDeferred(c) == Reviewed(c)

\* The latest decision about c is one a group or a publication may rest on.
Final(c) == Reviewed(c) /\ Latest(c).decision # "defer"

Differing(s) == \E c, d \in InScope(s) : ValueOf[c] # ValueOf[d]

\* The decisions in force approve at most one value.
OneValue(claims) ==
  \A c, d \in claims : Approved(c) /\ Approved(d) => Latest(c).value = Latest(d).value

Archived(e) == revision[e].status = "archived"
KeyUsed(key) == \E c \in Claims : \E i \in 1 .. Len(reviews[c]) : reviews[c][i].key = key

-------------------------------------------------------------------------------
(* Extraction and entities.                                                *)

\* persist_result has found the subject active, and has inserted nothing yet.
CheckTarget(x) ==
  /\ extraction[x] = "pending"
  /\ ~Archived(TargetOf[x])
  /\ extraction' = [extraction EXCEPT ![x] = "checked"]
  /\ UNCHANGED <<proposal, reviews, group, revision, pack, confirmed, snapshots>>

\* The claims of a run are committed together.
PersistResult(x) ==
  /\ extraction[x] = "checked"
  /\ extraction' = [extraction EXCEPT ![x] = "persisted"]
  /\ UNCHANGED <<proposal, reviews, group, revision, pack, confirmed, snapshots>>

\* The worker dies or loses the database: the queue runs the job again.
AbortExtraction(x) ==
  /\ extraction[x] = "checked"
  /\ extraction' = [extraction EXCEPT ![x] = "pending"]
  /\ UNCHANGED <<proposal, reviews, group, revision, pack, confirmed, snapshots>>

Revise(e, status) ==
  /\ ~Archived(e)
  /\ revision[e].number < MaxRevision
  /\ revision' = [revision EXCEPT ![e] = [number |-> @.number + 1, status |-> status]]
  /\ UNCHANGED <<extraction, proposal, reviews, group, pack, confirmed, snapshots>>

CorrectEntity(e) == Revise(e, "active")
ArchiveEntity(e) == Revise(e, "archived")

-------------------------------------------------------------------------------
(* Human reviews and conflict groups.  A replay of a command whose key was *)
(* used, and a key reused for something else, change nothing: not steps.   *)

\* FAULT: every decision carries the candidate's value.
ReviewValuesAlways(c, decision) ==
  IF decision = "approve_with_edit" THEN Values \ {ValueOf[c]} ELSE {ValueOf[c]}

\* _review_value: the value a decision about c may carry.
ReviewValues(c, decision) ==
  CASE decision = "approve" -> {ValueOf[c]}
    [] decision = "approve_with_edit" -> Values \ {ValueOf[c]}
    [] OTHER -> {NoValue}

ReviewClaim(c, decision, key) ==
  /\ c \in Candidates
  /\ ~KeyUsed(key)
  /\ \E v \in ReviewValues(c, decision) :
       reviews' = [reviews EXCEPT
         ![c] = Append(@, [decision |-> decision, value |-> v, key |-> key])]
  /\ UNCHANGED <<extraction, proposal, group, revision, pack, confirmed, snapshots>>

\* Closed groups are skipped: claims extracted later never join them.
Reconciled(s) ==
  IF Differing(s) /\ group[s].status \in {"absent", "open"}
  THEN [status |-> "open", members |-> group[s].members \cup InScope(s)]
  ELSE group[s]

Reconcile ==
  /\ group' = [s \in Scopes |-> Reconciled(s)]
  /\ UNCHANGED <<extraction, proposal, reviews, revision, pack, confirmed, snapshots>>

\* _validate_resolution
Resolvable(s) ==
  /\ group[s].members # {}
  /\ \A c \in group[s].members : Final(c)
  /\ \E c \in group[s].members : Approved(c)
  /\ s \in Exclusive => OneValue(group[s].members)

CloseConflict(s, outcome) ==
  /\ group[s].status = "open"
  /\ outcome = "resolved" => Resolvable(s)
  /\ group' = [group EXCEPT ![s].status = outcome]
  /\ UNCHANGED <<extraction, proposal, reviews, revision, pack, confirmed, snapshots>>

-------------------------------------------------------------------------------
(* The Reviewer agent and the confirmation of its pack.                    *)

ClaimsOf(x) == {c \in Claims : ExtractionOf[c] = x}

\* persist, once per extraction: its decisions cover every claim of the run.
PersistAgentReview(x) ==
  /\ extraction[x] = "persisted" /\ ClaimsOf(x) # {}
  /\ \A c \in ClaimsOf(x) : proposal[c] = "none"
  /\ \E decision \in [ClaimsOf(x) -> Proposals \ {"none"}] :
       proposal' = [c \in Claims |-> IF c \in ClaimsOf(x) THEN decision[c] ELSE proposal[c]]
  /\ UNCHANGED <<extraction, reviews, group, revision, pack, confirmed, snapshots>>

Suggested(c) == IF proposal[c] = "agent_approved" THEN "approve" ELSE "reject"

\* FAULT: what the agent left to a human is confirmed with the rest.
ClearAll(x) == ClaimsOf(x)

\* The suggestions confirm_pack may write: not the ones left to a human.
Clear(x) == {c \in ClaimsOf(x) : proposal[c] # "needs_human"}

\* The claim has no review with the key derived from k, and its latest
\* decision is not the suggested one.
ToWrite(k, c) ==
  /\ \A i \in 1 .. Len(reviews[c]) : reviews[c][i].key # k
  /\ Reviewed(c) => Latest(c).decision # Suggested(c)

\* A pack approves the extracted value.
PackReview(k, c) ==
  [decision |-> Suggested(c), key |-> k,
   value |-> IF Suggested(c) = "approve" THEN ValueOf[c] ELSE NoValue]

ConfirmPack(k, x) ==
  /\ pack[k] = NoPack
  /\ \E c \in ClaimsOf(x) : proposal[c] # "none"
  /\ pack' = [pack EXCEPT ![k] =
       [run |-> x, todo |-> Clear(x), first |-> NoClaim, stamp |-> 0]]
  /\ UNCHANGED <<extraction, proposal, reviews, group, revision, confirmed, snapshots>>

Reading(k) == pack[k] # NoPack /\ pack[k].first = NoClaim

PackSkips(k, c) ==
  /\ Reading(k) /\ c \in pack[k].todo /\ ~ToWrite(k, c)
  /\ pack' = [pack EXCEPT ![k].todo = @ \ {c}]
  /\ UNCHANGED <<extraction, proposal, reviews, group, revision, confirmed, snapshots>>

PackPicks(k, c) ==
  /\ Reading(k) /\ c \in pack[k].todo /\ ToWrite(k, c)
  /\ pack' = [pack EXCEPT ![k] =
       [run |-> @.run, todo |-> @.todo \ {c}, first |-> c, stamp |-> Len(reviews[c])]]
  /\ UNCHANGED <<extraction, proposal, reviews, group, revision, confirmed, snapshots>>

\* created_at is read before the insert waits for the project's row, so a
\* review committed since the pick may sort after the one that waited.
Inserted(k, c, n) ==
  SubSeq(reviews[c], 1, n) \o <<PackReview(k, c)>> \o SubSeq(reviews[c], n + 1, Len(reviews[c]))

Places(p) == IF p.first = NoClaim THEN {0} ELSE p.stamp .. Len(reviews[p.first])

PackCommits(k) ==
  LET p == pack[k] IN
  /\ p # NoPack
  /\ p.first = NoClaim => p.todo = {}
  /\ \E n \in Places(p) :
       reviews' = [c \in Claims |->
            IF c = p.first THEN Inserted(k, c, n)
            ELSE IF c \in p.todo /\ ToWrite(k, c) THEN Append(reviews[c], PackReview(k, c))
            ELSE reviews[c]]
  /\ pack' = [pack EXCEPT ![k] = NoPack]
  /\ confirmed' = confirmed \cup {<<k, p.run>>}
  /\ UNCHANGED <<extraction, proposal, group, revision, snapshots>>

\* The request is lost with its transaction.
PackAborts(k) ==
  /\ pack[k] # NoPack
  /\ pack' = [pack EXCEPT ![k] = NoPack]
  /\ UNCHANGED <<extraction, proposal, reviews, group, revision, confirmed, snapshots>>

-------------------------------------------------------------------------------
(* Publication.                                                            *)

\* inconsistent_approved_values: human edits of one candidate value disagree.
EditsAgree(s) ==
  ~Differing(s) /\ s \in Exclusive => OneValue(InScope(s))

\* FAULT: a closed group is trusted whatever was decided since.
ClosureTrusted(s) == Differing(s) => group[s].status # "absent"

\* unreconciled_conflicts and inconsistent_closed_conflict: where candidates
\* differ, the group of the key was closed, perhaps before the last of them was
\* extracted, and the decisions in force about all of them agree.
ClosureStands(s) ==
  Differing(s) =>
    /\ group[s].status # "absent"
    /\ group[s].status # "open" /\ s \in Exclusive => OneValue(InScope(s))

ApprovedClaims == {c \in Candidates : Approved(c)}

\* FAULT: archived entities are not looked for.
PublishableArchived ==
  /\ \A c \in Candidates : Final(c)
  /\ ApprovedClaims # {}
  /\ \A s \in Scopes : group[s].status # "open"
  /\ \A s \in Scopes : EditsAgree(s) /\ ClosureStands(s)

\* _plan reports no blocker.
Publishable ==
  /\ Candidates # {}
  /\ \A c \in Candidates : Final(c)
  /\ ApprovedClaims # {}
  /\ \A s \in Scopes : group[s].status # "open"
  /\ \A c \in ApprovedClaims : ~Archived(SubjectOf[ScopeOf[c]])
  /\ \A s \in Scopes : EditsAgree(s) /\ ClosureStands(s)

PublishedMembers ==
  {[claim |-> c, review |-> Latest(c), revision |-> revision[SubjectOf[ScopeOf[c]]]] :
     c \in ApprovedClaims}

Publish(key) ==
  /\ \A i \in 1 .. Len(snapshots) : snapshots[i].key # key
  /\ Publishable
  /\ snapshots' = Append(snapshots, [key |-> key, members |-> PublishedMembers])
  /\ UNCHANGED <<extraction, proposal, reviews, group, revision, pack, confirmed>>

-------------------------------------------------------------------------------
Next ==
  \/ \E x \in Extractions :
       \/ CheckTarget(x) \/ PersistResult(x) \/ AbortExtraction(x) \/ PersistAgentReview(x)
       \/ \E k \in PackKeys : ConfirmPack(k, x)
  \/ \E e \in Subjects : CorrectEntity(e) \/ ArchiveEntity(e)
  \/ \E c \in Claims, key \in ReviewKeys :
       \E decision \in Approving \cup {"reject", "defer"} : ReviewClaim(c, decision, key)
  \/ Reconcile
  \/ \E s \in Scopes, outcome \in {"resolved", "dismissed"} : CloseConflict(s, outcome)
  \/ \E k \in PackKeys :
       \/ \E c \in Claims : PackSkips(k, c) \/ PackPicks(k, c)
       \/ PackCommits(k) \/ PackAborts(k)
  \/ \E key \in PublishKeys : Publish(key)

Spec == Init /\ [][Next]_vars

-------------------------------------------------------------------------------
(* Properties.                                                             *)

\* A snapshot gives at most one value to a single-valued predicate, whatever
\* was edited, and whatever was reviewed or extracted after its group closed.
PublishedOneValue ==
  \A i \in 1 .. Len(snapshots) : \A m, n \in snapshots[i].members :
    ScopeOf[m.claim] = ScopeOf[n.claim] /\ ScopeOf[m.claim] \in Exclusive
      => m.review.value = n.review.value

\* Confirming a pack never decides a claim the Reviewer left to a human, nor
\* one it has not reviewed.
AmbiguousLeftToHumans ==
  \A c \in Claims : proposal[c] \in {"none", "needs_human"} =>
    \A i \in 1 .. Len(reviews[c]) : reviews[c][i].key \in ReviewKeys

\* Reconciliation, later claims and later decisions leave a closed group as
\* it was closed.
ClosedGroupsFrozen ==
  [][\A s \in Scopes : group[s].status \in {"resolved", "dismissed"} =>
       group'[s] = group[s]]_vars

\* No new snapshot holds a value of an entity that was archived before it,
\* and the revision it freezes is the latest.
ArchivedUnpublished ==
  [][Len(snapshots') > Len(snapshots) =>
       \A m \in snapshots'[Len(snapshots')].members :
         LET e == SubjectOf[ScopeOf[m.claim]]
         IN m.revision = revision[e] /\ ~Archived(e)]_vars

\* A new snapshot answers for all that was published before: each claim of an
\* earlier one is in it again, by the same decision or one that comes after it
\* in the log and with no older revision of its entity, unless a human rejected
\* it; nobody drops a published claim by deferring it, although confirmed packs
\* insert reviews below the ones already published.
LaterSnapshotsAnswer ==
  [][Len(snapshots') > Len(snapshots) =>
       \A i \in 1 .. Len(snapshots) : \A m \in snapshots[i].members :
         LET log == reviews[m.claim] IN
         \E p \in 1 .. Len(log) :
           /\ log[p] = m.review
           /\ \/ Latest(m.claim).decision = "reject"
              \/ \E n \in snapshots'[Len(snapshots')].members :
                   /\ n.claim = m.claim /\ n.revision.number >= m.revision.number
                   /\ \E q \in p .. Len(log) : n.review = log[q]]_vars

\* A confirmation repeated with its key writes no review: the service says it
\* is idempotent and human-controlled.
ReplayWritesNothing ==
  [][\A k \in PackKeys :
       pack[k] # NoPack /\ pack'[k] = NoPack /\ <<k, pack[k].run>> \in confirmed =>
         reviews' = reviews]_vars

\* What a reader of the knowledge base sees: decisions and published values.
Decided == [c \in Claims |->
  IF c \notin Candidates THEN "absent"
  ELSE IF ~Final(c) THEN "undecided"
  ELSE IF Approved(c) THEN Latest(c).value ELSE "rejected"]

Published == [i \in 1 .. Len(snapshots) |->
  {<<m.claim, m.review.value>> : m \in snapshots[i].members}]

Contract == INSTANCE PublicationContract WITH
  decided <- Decided,
  archived <- {e \in Subjects : Archived(e)},
  published <- Published

\* Locks, groups, keys and revisions implement the publication rule.
ContractSpec == Contract!Spec

===============================================================================
