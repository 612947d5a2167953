-------------------------- MODULE KnowledgeReviewProofs --------------------------
(***************************************************************************)
(* Proofs about KnowledgeReview, for any claims, comparison keys,          *)
(* entities, extractions and command keys.                                 *)
(*                                                                         *)
(* What a snapshot holds never changes, so what is proved of snapshots is  *)
(* proved at their publication, from the blockers of the plan and the      *)
(* decisions in force; the review log, the groups and the confirmations    *)
(* may do whatever their types allow.  What a later snapshot owes to an    *)
(* earlier one needs more: the log must lose no row in between.            *)
(***************************************************************************)
EXTENDS KnowledgeReview, SequenceTheorems, TLAPS

LEMMA LatestIsReview ==
  ASSUME TypeOK, NEW c \in Claims, Reviewed(c)
  PROVE  Latest(c) \in Reviews
BY DEF TypeOK, Reviewed, Latest

LEMMA ApprovedValueTyped ==
  ASSUME TypeOK, NEW c \in Claims, Approved(c)
  PROVE  Latest(c) \in Reviews /\ Latest(c).value \in Values
BY LatestIsReview DEF Approved, Reviews, Approving

\* A decision carries the kind of value its review row must have.
LEMMA ReviewTyped ==
  ASSUME NEW c \in Claims, NEW decision \in Approving \cup {"reject", "defer"},
         NEW key \in ReviewKeys, NEW v \in ReviewValues(c, decision)
  PROVE  [decision |-> decision, value |-> v, key |-> key] \in Reviews
<1>1. ValueOf[c] \in Values
  BY KnowledgeAssumption
<1>2. CASE decision = "approve"
  BY <1>1, <1>2 DEF ReviewValues, Reviews, Approving
<1>3. CASE decision = "approve_with_edit"
  BY <1>1, <1>3 DEF ReviewValues, Reviews, Approving
<1>4. CASE decision \in {"reject", "defer"}
  <2>1. v = NoValue
    BY <1>4 DEF ReviewValues
  <2> QED BY <1>4, <2>1 DEF Reviews
<1> QED BY <1>2, <1>3, <1>4 DEF Approving

LEMMA PackReviewTyped ==
  ASSUME NEW c \in Claims, NEW k \in PackKeys
  PROVE  PackReview(k, c) \in Reviews
<1>1. ValueOf[c] \in Values
  BY KnowledgeAssumption
<1> QED BY <1>1 DEF PackReview, Suggested, Reviews, Approving

LEMMA InsertedTyped ==
  ASSUME TypeOK, NEW k \in PackKeys, NEW c \in Claims, NEW n \in 0 .. Len(reviews[c])
  PROVE  Inserted(k, c, n) \in Seq(Reviews)
<1>1. reviews[c] \in Seq(Reviews)
  BY DEF TypeOK
<1>2. SubSeq(reviews[c], 1, n) \in Seq(Reviews)
  BY <1>1
<1>3. SubSeq(reviews[c], n + 1, Len(reviews[c])) \in Seq(Reviews)
  BY <1>1
<1>4. <<PackReview(k, c)>> \in Seq(Reviews)
  BY PackReviewTyped
<1> QED BY <1>2, <1>3, <1>4 DEF Inserted

-------------------------------------------------------------------------------
LEMMA TypeInit == Init => TypeOK
BY DEF Init, TypeOK, Proposals, Groups, Revisions

\* A confirmation in flight is a pack.
LEMMA PackTyped ==
  ASSUME TypeOK, NEW k \in PackKeys, pack[k] # NoPack
  PROVE  pack[k] \in Packs
BY DEF TypeOK

LEMMA PackCommitsTyped ==
  ASSUME TypeOK, NEW k \in PackKeys, PackCommits(k)
  PROVE  TypeOK'
<1> DEFINE p == pack[k]
<1>1. p \in Packs
  BY PackTyped DEF PackCommits
<1>2. PICK n \in Places(p) :
        reviews' = [c \in Claims |->
          IF c = p.first THEN Inserted(k, c, n)
          ELSE IF c \in p.todo /\ ToWrite(k, c) THEN Append(reviews[c], PackReview(k, c))
          ELSE reviews[c]]
  BY DEF PackCommits
<1>3. ASSUME NEW c \in Claims
      PROVE  /\ c = p.first => Inserted(k, c, n) \in Seq(Reviews)
             /\ Append(reviews[c], PackReview(k, c)) \in Seq(Reviews)
             /\ reviews[c] \in Seq(Reviews)
  <2>1. reviews[c] \in Seq(Reviews) /\ Len(reviews[c]) \in Nat
    BY DEF TypeOK
  <2>2. ASSUME c = p.first
        PROVE  n \in 0 .. Len(reviews[c])
    BY <1>1, <2>1, <2>2, KnowledgeAssumption DEF Places, Packs
  <2>3. c = p.first => Inserted(k, c, n) \in Seq(Reviews)
    BY <2>2, InsertedTyped
  <2> QED BY <2>1, <2>3, PackReviewTyped
<1>4. reviews' \in [Claims -> Seq(Reviews)]
  BY <1>2, <1>3
<1>5. pack' = [pack EXCEPT ![k] = NoPack] /\ confirmed' = confirmed \cup {<<k, p.run>>}
  BY DEF PackCommits
<1>6. pack' \in [PackKeys -> Packs \cup {NoPack}] /\ confirmed' \in SUBSET (PackKeys \X Extractions)
  BY <1>1, <1>5 DEF TypeOK, Packs
<1> QED BY <1>4, <1>6 DEF TypeOK, PackCommits

LEMMA PublishTyped ==
  ASSUME TypeOK, NEW key \in PublishKeys, Publish(key)
  PROVE  TypeOK'
<1>1. ASSUME NEW c \in ApprovedClaims
      PROVE  [claim |-> c, review |-> Latest(c), revision |-> revision[SubjectOf[ScopeOf[c]]]]
               \in Members
  <2>1. c \in Claims /\ Latest(c) \in Reviews
    BY ApprovedValueTyped DEF ApprovedClaims, Candidates
  <2>2. revision[SubjectOf[ScopeOf[c]]] \in Revisions
    BY <2>1, KnowledgeAssumption DEF TypeOK
  <2> QED BY <2>1, <2>2 DEF Members
<1>2. [key |-> key, members |-> PublishedMembers] \in Snapshots
  BY <1>1 DEF PublishedMembers, Snapshots
<1>3. snapshots' \in Seq(Snapshots)
  BY <1>2 DEF Publish, TypeOK
<1> QED BY <1>3 DEF TypeOK, Publish

LEMMA TypeStep ==
  ASSUME TypeOK, [Next]_vars
  PROVE  TypeOK'
<1>1. ASSUME NEW x \in Extractions,
             CheckTarget(x) \/ PersistResult(x) \/ AbortExtraction(x)
      PROVE  TypeOK'
  BY <1>1 DEF TypeOK, CheckTarget, PersistResult, AbortExtraction
<1>2. ASSUME NEW x \in Extractions, PersistAgentReview(x)
      PROVE  TypeOK'
  <2>1. PICK decision \in [ClaimsOf(x) -> Proposals \ {"none"}] :
          proposal' = [c \in Claims |->
            IF c \in ClaimsOf(x) THEN decision[c] ELSE proposal[c]]
    BY <1>2 DEF PersistAgentReview
  <2>2. proposal' \in [Claims -> Proposals]
    BY <2>1 DEF TypeOK
  <2> QED BY <1>2, <2>2 DEF TypeOK, PersistAgentReview
<1>3. ASSUME NEW x \in Extractions, NEW k \in PackKeys, ConfirmPack(k, x)
      PROVE  TypeOK'
  <2>1. [run |-> x, todo |-> Clear(x), first |-> NoClaim, stamp |-> 0] \in Packs
    BY DEF Packs, Clear, ClaimsOf
  <2> QED BY <1>3, <2>1 DEF TypeOK, ConfirmPack
<1>4. ASSUME NEW e \in Subjects, CorrectEntity(e) \/ ArchiveEntity(e)
      PROVE  TypeOK'
  <2>1. PICK status \in {"active", "archived"} : Revise(e, status)
    BY <1>4 DEF CorrectEntity, ArchiveEntity
  <2>2. [number |-> revision[e].number + 1, status |-> status] \in Revisions
    BY DEF TypeOK, Revisions
  <2> QED BY <2>1, <2>2 DEF TypeOK, Revise
<1>5. ASSUME NEW c \in Claims, NEW key \in ReviewKeys,
             NEW decision \in Approving \cup {"reject", "defer"},
             ReviewClaim(c, decision, key)
      PROVE  TypeOK'
  <2>1. PICK v \in ReviewValues(c, decision) :
          reviews' = [reviews EXCEPT
            ![c] = Append(@, [decision |-> decision, value |-> v, key |-> key])]
    BY <1>5 DEF ReviewClaim
  <2>2. [decision |-> decision, value |-> v, key |-> key] \in Reviews
    BY ReviewTyped
  <2>3. reviews' \in [Claims -> Seq(Reviews)]
    BY <2>1, <2>2 DEF TypeOK
  <2> QED BY <1>5, <2>3 DEF TypeOK, ReviewClaim
<1>6. CASE Reconcile
  <2>1. ASSUME NEW s \in Scopes
        PROVE  Reconciled(s) \in Groups
    BY DEF Reconciled, Groups, TypeOK, InScope, Candidates
  <2> QED BY <1>6, <2>1 DEF TypeOK, Reconcile
<1>7. ASSUME NEW s \in Scopes, NEW outcome \in {"resolved", "dismissed"},
             CloseConflict(s, outcome)
      PROVE  TypeOK'
  <2>1. group' = [group EXCEPT ![s].status = outcome]
    BY <1>7 DEF CloseConflict
  <2>2. group' \in [Scopes -> Groups]
    BY <2>1 DEF TypeOK, Groups
  <2> QED BY <1>7, <2>2 DEF TypeOK, CloseConflict
<1>8. ASSUME NEW k \in PackKeys, NEW c \in Claims, PackSkips(k, c)
      PROVE  TypeOK'
  <2>1. pack[k] \in Packs
    BY <1>8, PackTyped DEF PackSkips, Reading
  <2>2. pack' = [pack EXCEPT ![k] = [pack[k] EXCEPT !.todo = pack[k].todo \ {c}]]
    BY <1>8 DEF PackSkips
  <2>3. [pack[k] EXCEPT !.todo = pack[k].todo \ {c}] \in Packs
    BY <2>1 DEF Packs
  <2> QED BY <1>8, <2>2, <2>3 DEF TypeOK, PackSkips
<1>9. ASSUME NEW k \in PackKeys, NEW c \in Claims, PackPicks(k, c)
      PROVE  TypeOK'
  <2> DEFINE picked == [run |-> pack[k].run, todo |-> pack[k].todo \ {c},
                        first |-> c, stamp |-> Len(reviews[c])]
  <2>1. pack[k] \in Packs
    BY <1>9, PackTyped DEF PackPicks, Reading
  <2>2. picked \in Packs
    BY <2>1 DEF Packs, TypeOK
  <2>3. pack' = [pack EXCEPT ![k] = picked]
    BY <1>9 DEF PackPicks
  <2>4. pack' \in [PackKeys -> Packs \cup {NoPack}]
    <3> HIDE DEF picked
    <3> QED BY <2>2, <2>3 DEF TypeOK
  <2>5. UNCHANGED <<extraction, proposal, reviews, group, revision, confirmed, snapshots>>
    BY <1>9 DEF PackPicks
  <2> QED BY <2>4, <2>5 DEF TypeOK
<1>10. ASSUME NEW k \in PackKeys, PackAborts(k)
       PROVE  TypeOK'
  BY <1>10 DEF TypeOK, PackAborts
<1>11. CASE UNCHANGED vars
  BY <1>11 DEF TypeOK, vars
<1> QED BY <1>1, <1>2, <1>3, <1>4, <1>5, <1>6, <1>7, <1>8, <1>9, <1>10, <1>11,
           PackCommitsTyped, PublishTyped DEF Next

\* Every row keeps the form its table's constraints ask for: approvals carry a
\* value, rejections and deferrals none, snapshots only claims with a review.
THEOREM TypeCorrect == Spec => []TypeOK
BY TypeInit, TypeStep, PTL DEF Spec

-------------------------------------------------------------------------------
(* What a publication takes.                                               *)

\* Only a publication adds a snapshot.
LEMMA SnapshotsStep ==
  ASSUME [Next]_vars
  PROVE  snapshots' = snapshots \/ \E key \in PublishKeys : Publish(key)
BY DEF Next, vars, CheckTarget, PersistResult, AbortExtraction, PersistAgentReview,
       ConfirmPack, CorrectEntity, ArchiveEntity, Revise, ReviewClaim, Reconcile,
       CloseConflict, PackSkips, PackPicks, PackCommits, PackAborts

\* No blocker is left: the decisions in force give a single-valued key one
\* value.  Where candidates differ, the check of the closed group looks at all
\* of them; elsewhere the check of the edits does.
LEMMA PlanAgrees ==
  ASSUME Publishable, NEW s \in Exclusive
  PROVE  OneValue(InScope(s))
<1>1. s \in Scopes
  BY KnowledgeAssumption
<1>2. group[s].status # "open" /\ EditsAgree(s) /\ ClosureStands(s)
  BY <1>1 DEF Publishable
<1>3. CASE Differing(s)
  BY <1>2, <1>3 DEF ClosureStands
<1>4. CASE ~Differing(s)
  BY <1>2, <1>4 DEF EditsAgree
<1> QED BY <1>3, <1>4

LEMMA PublishOneValue ==
  ASSUME TypeOK, PublishedOneValue, NEW key \in PublishKeys, Publish(key)
  PROVE  PublishedOneValue'
<1>1. snapshots \in Seq(Snapshots) /\ Len(snapshots) \in Nat
  BY DEF TypeOK
<1> DEFINE new == [key |-> key, members |-> PublishedMembers]
<1>2. snapshots' = Append(snapshots, new)
  BY DEF Publish
<1>3. ASSUME NEW m \in PublishedMembers, NEW n \in PublishedMembers,
             ScopeOf[m.claim] = ScopeOf[n.claim], ScopeOf[m.claim] \in Exclusive
      PROVE  m.review.value = n.review.value
  <2>1. PICK c \in ApprovedClaims : m.claim = c /\ m.review = Latest(c)
    BY DEF PublishedMembers
  <2>2. PICK d \in ApprovedClaims : n.claim = d /\ n.review = Latest(d)
    BY DEF PublishedMembers
  <2>3. OneValue(InScope(ScopeOf[c]))
    BY <1>3, <2>1, PlanAgrees DEF Publish
  <2>4. c \in InScope(ScopeOf[c]) /\ d \in InScope(ScopeOf[c])
    BY <1>3, <2>1, <2>2 DEF InScope, ApprovedClaims
  <2> QED BY <2>1, <2>2, <2>3, <2>4 DEF OneValue, ApprovedClaims
<1>4. ASSUME NEW i \in 1 .. Len(snapshots'),
             NEW m \in snapshots'[i].members, NEW n \in snapshots'[i].members,
             ScopeOf[m.claim] = ScopeOf[n.claim], ScopeOf[m.claim] \in Exclusive
      PROVE  m.review.value = n.review.value
  <2>1. CASE i = Len(snapshots) + 1
    <3>1. snapshots'[i].members = PublishedMembers
      BY <1>1, <1>2, <2>1
    <3> QED BY <1>3, <1>4, <3>1
  <2>2. CASE i # Len(snapshots) + 1
    <3>1. i \in 1 .. Len(snapshots) /\ snapshots'[i] = snapshots[i]
      BY <1>1, <1>2, <2>2
    <3> QED BY <1>4, <3>1 DEF PublishedOneValue
  <2> QED BY <2>1, <2>2
<1> QED BY <1>4 DEF PublishedOneValue

\* A snapshot gives at most one value to a single-valued predicate, whatever
\* was edited, reviewed or extracted after its conflict group was closed.
THEOREM OneValuePublished == Spec => []PublishedOneValue
<1>1. Init => PublishedOneValue
  BY DEF Init, PublishedOneValue
<1>2. TypeOK /\ PublishedOneValue /\ [Next]_vars => PublishedOneValue'
  <2> SUFFICES ASSUME TypeOK, PublishedOneValue, [Next]_vars
               PROVE  PublishedOneValue'
    OBVIOUS
  <2>1. CASE snapshots' = snapshots
    BY <2>1 DEF PublishedOneValue
  <2>2. CASE \E key \in PublishKeys : Publish(key)
    BY <2>2, PublishOneValue
  <2> QED BY <2>1, <2>2, SnapshotsStep
<1> QED BY <1>1, <1>2, TypeCorrect, PTL DEF Spec

\* No new snapshot holds a value of an archived entity, and the revision it
\* freezes is the latest.
THEOREM ArchivedNeverPublished == Spec => ArchivedUnpublished
<1>1. TypeOK /\ [Next]_vars =>
        [Len(snapshots') > Len(snapshots) =>
           \A m \in snapshots'[Len(snapshots')].members :
             LET e == SubjectOf[ScopeOf[m.claim]]
             IN m.revision = revision[e] /\ ~Archived(e)]_vars
  <2> SUFFICES ASSUME TypeOK, [Next]_vars, Len(snapshots') > Len(snapshots),
                      NEW m \in snapshots'[Len(snapshots')].members
               PROVE  /\ m.revision = revision[SubjectOf[ScopeOf[m.claim]]]
                      /\ ~Archived(SubjectOf[ScopeOf[m.claim]])
    OBVIOUS
  <2>1. snapshots \in Seq(Snapshots) /\ Len(snapshots) \in Nat
    BY DEF TypeOK
  <2>2. PICK key \in PublishKeys : Publish(key)
    BY <2>1, SnapshotsStep
  <2> DEFINE new == [key |-> key, members |-> PublishedMembers]
  <2>3. snapshots' = Append(snapshots, new)
    BY <2>2 DEF Publish
  <2>4. m \in PublishedMembers
    BY <2>1, <2>3
  <2>5. PICK c \in ApprovedClaims :
          m.claim = c /\ m.revision = revision[SubjectOf[ScopeOf[c]]]
    BY <2>4 DEF PublishedMembers
  <2>6. ~Archived(SubjectOf[ScopeOf[c]])
    BY <2>2 DEF Publish, Publishable
  <2> QED BY <2>5, <2>6
<1> QED BY <1>1, TypeCorrect, PTL DEF Spec, ArchivedUnpublished

-------------------------------------------------------------------------------
(* What humans decided stands.                                             *)

\* Reconciliation, later claims and later decisions leave a closed group as
\* it was closed.
THEOREM ClosedStaysClosed == Spec => ClosedGroupsFrozen
<1>1. TypeOK /\ [Next]_vars =>
        [\A s \in Scopes : group[s].status \in {"resolved", "dismissed"} =>
           group'[s] = group[s]]_vars
  <2> SUFFICES ASSUME TypeOK, [Next]_vars, NEW s \in Scopes,
                      group[s].status \in {"resolved", "dismissed"}
               PROVE  group'[s] = group[s]
    OBVIOUS
  <2>1. CASE group' = group
    BY <2>1
  <2>2. CASE Reconcile
    BY <2>2 DEF Reconcile, Reconciled
  <2>3. ASSUME NEW t \in Scopes, NEW outcome \in {"resolved", "dismissed"},
               CloseConflict(t, outcome)
        PROVE  group'[s] = group[s]
    <3>1. t # s /\ group' = [group EXCEPT ![t].status = outcome]
      BY <2>3 DEF CloseConflict
    <3> QED BY <3>1 DEF TypeOK
  <2> QED BY <2>1, <2>2, <2>3
          DEF Next, vars, CheckTarget, PersistResult, AbortExtraction, PersistAgentReview,
              ConfirmPack, CorrectEntity, ArchiveEntity, Revise, ReviewClaim,
              PackSkips, PackPicks, PackCommits, PackAborts, Publish
<1> QED BY <1>1, TypeCorrect, PTL DEF Spec, ClosedGroupsFrozen

\* The packs in flight hold only suggestions the Reviewer decided, because an
\* extraction is reviewed as a whole and what was left to a human is not taken.
PackDecided ==
  \A k \in PackKeys : pack[k] # NoPack =>
    \A c \in Claims : c \in pack[k].todo \cup {pack[k].first} =>
      proposal[c] \notin {"none", "needs_human"}

ReviewedTogether ==
  \A c, d \in Claims : ExtractionOf[c] = ExtractionOf[d] /\ proposal[c] = "none" =>
    proposal[d] = "none"

HumanInv == TypeOK /\ PackDecided /\ ReviewedTogether /\ AmbiguousLeftToHumans

LEMMA HumanPersist ==
  ASSUME HumanInv, NEW x \in Extractions, PersistAgentReview(x)
  PROVE  PackDecided' /\ ReviewedTogether' /\ AmbiguousLeftToHumans'
<1>1. PICK decision \in [ClaimsOf(x) -> Proposals \ {"none"}] :
        proposal' = [c \in Claims |-> IF c \in ClaimsOf(x) THEN decision[c] ELSE proposal[c]]
  BY DEF PersistAgentReview
<1>2. UNCHANGED <<pack, reviews>>
  BY DEF PersistAgentReview
<1>3. ASSUME NEW c \in Claims
      PROVE  /\ c \in ClaimsOf(x) => proposal[c] = "none" /\ proposal'[c] # "none"
             /\ c \notin ClaimsOf(x) => proposal'[c] = proposal[c]
  BY <1>1 DEF PersistAgentReview
<1>4. PackDecided'
  BY <1>2, <1>3 DEF PackDecided, HumanInv
<1>5. ReviewedTogether'
  BY <1>3 DEF ReviewedTogether, HumanInv, ClaimsOf
<1>6. AmbiguousLeftToHumans'
  BY <1>2, <1>3 DEF AmbiguousLeftToHumans, HumanInv
<1> QED BY <1>4, <1>5, <1>6

LEMMA HumanCommits ==
  ASSUME HumanInv, NEW k \in PackKeys, PackCommits(k)
  PROVE  PackDecided' /\ ReviewedTogether' /\ AmbiguousLeftToHumans'
<1>1. UNCHANGED proposal /\ pack' = [pack EXCEPT ![k] = NoPack] /\ pack[k] # NoPack
  BY DEF PackCommits
<1>2. PackDecided'
  BY <1>1 DEF PackDecided, HumanInv, TypeOK
<1>3. ASSUME NEW c \in Claims, proposal[c] \in {"none", "needs_human"}
      PROVE  reviews'[c] = reviews[c]
  <2>1. c # pack[k].first /\ c \notin pack[k].todo
    BY <1>1, <1>3 DEF PackDecided, HumanInv
  <2> QED BY <2>1 DEF PackCommits
<1>4. AmbiguousLeftToHumans'
  BY <1>1, <1>3 DEF AmbiguousLeftToHumans, HumanInv
<1> QED BY <1>1, <1>2, <1>4 DEF ReviewedTogether, HumanInv

LEMMA HumanReview ==
  ASSUME HumanInv, NEW c \in Claims, NEW key \in ReviewKeys,
         NEW decision \in Approving \cup {"reject", "defer"}, ReviewClaim(c, decision, key)
  PROVE  PackDecided' /\ ReviewedTogether' /\ AmbiguousLeftToHumans'
<1>1. UNCHANGED <<proposal, pack>>
  BY DEF ReviewClaim
<1>2. PICK v \in ReviewValues(c, decision) :
        reviews' = [reviews EXCEPT
          ![c] = Append(@, [decision |-> decision, value |-> v, key |-> key])]
  BY DEF ReviewClaim
<1> DEFINE r == [decision |-> decision, value |-> v, key |-> key]
<1>3. r \in Reviews /\ r.key \in ReviewKeys
  BY ReviewTyped
<1>4. ASSUME NEW d \in Claims, proposal[d] \in {"none", "needs_human"},
             NEW i \in 1 .. Len(reviews'[d])
      PROVE  reviews'[d][i].key \in ReviewKeys
  <2>1. reviews[d] \in Seq(Reviews)
    BY DEF HumanInv, TypeOK
  <2>2. CASE d # c
    <3>1. reviews'[d] = reviews[d]
      BY <1>2, <2>2 DEF HumanInv, TypeOK
    <3> QED BY <1>4, <3>1 DEF AmbiguousLeftToHumans, HumanInv
  <2>3. CASE d = c
    <3>1. reviews'[d] = Append(reviews[d], r)
      BY <1>2, <2>3 DEF HumanInv, TypeOK
    <3> HIDE DEF r
    <3>2. CASE i \in 1 .. Len(reviews[d])
      <4>1. reviews'[d][i] = reviews[d][i]
        BY <1>3, <2>1, <3>1, <3>2
      <4> QED BY <1>4, <3>2, <4>1 DEF AmbiguousLeftToHumans, HumanInv
    <3>3. CASE i \notin 1 .. Len(reviews[d])
      <4>1. reviews'[d][i] = r
        BY <1>3, <1>4, <2>1, <3>1, <3>3
      <4> QED BY <1>3, <4>1
    <3> QED BY <3>2, <3>3
  <2> QED BY <2>2, <2>3
<1>5. AmbiguousLeftToHumans'
  BY <1>1, <1>4 DEF AmbiguousLeftToHumans
<1> QED BY <1>1, <1>5 DEF PackDecided, ReviewedTogether, HumanInv

\* The actions on a pack that write no review: it takes, drops or moves
\* suggestions the Reviewer decided.
LEMMA HumanPack ==
  ASSUME HumanInv, NEW k \in PackKeys,
         \/ \E x \in Extractions : ConfirmPack(k, x)
         \/ \E c \in Claims : PackSkips(k, c) \/ PackPicks(k, c)
         \/ PackAborts(k)
  PROVE  PackDecided' /\ ReviewedTogether' /\ AmbiguousLeftToHumans'
<1>1. UNCHANGED <<proposal, reviews>>
  BY DEF ConfirmPack, PackSkips, PackPicks, PackAborts
<1>2. ASSUME NEW p, pack' = [pack EXCEPT ![k] = p],
             p # NoPack => \A c \in Claims : c \in p.todo \cup {p.first} =>
               proposal[c] \notin {"none", "needs_human"}
      PROVE  PackDecided'
  BY <1>1, <1>2 DEF PackDecided, HumanInv, TypeOK
<1>3. ASSUME NEW x \in Extractions, ConfirmPack(k, x)
      PROVE  PackDecided'
  <2> DEFINE p == [run |-> x, todo |-> Clear(x), first |-> NoClaim, stamp |-> 0]
  <2>1. PICK d \in ClaimsOf(x) : proposal[d] # "none"
    BY <1>3 DEF ConfirmPack
  <2>2. ASSUME NEW c \in Claims, c \in Clear(x) \cup {NoClaim}
        PROVE  proposal[c] \notin {"none", "needs_human"}
    <3>1. c \in ClaimsOf(x) /\ proposal[c] # "needs_human"
      BY <2>2, KnowledgeAssumption DEF Clear
    <3> QED BY <2>1, <3>1 DEF HumanInv, ReviewedTogether, ClaimsOf
  <2>3. pack' = [pack EXCEPT ![k] = p]
    BY <1>3 DEF ConfirmPack
  <2>4. p.todo = Clear(x) /\ p.first = NoClaim
    OBVIOUS
  <2> HIDE DEF p
  <2> QED BY <1>2, <2>2, <2>3, <2>4
<1>4. ASSUME NEW c \in Claims, PackSkips(k, c)
      PROVE  PackDecided'
  <2>1. pack[k] # NoPack /\ pack[k] \in Packs
    BY <1>4, PackTyped DEF PackSkips, Reading, HumanInv
  <2> DEFINE p == [pack[k] EXCEPT !.todo = pack[k].todo \ {c}]
  <2>2. pack' = [pack EXCEPT ![k] = p]
    BY <1>4 DEF PackSkips
  <2>3. p.todo = pack[k].todo \ {c} /\ p.first = pack[k].first
    BY <2>1 DEF Packs
  <2> HIDE DEF p
  <2>4. ASSUME NEW d \in Claims, d \in p.todo \cup {p.first}
        PROVE  proposal[d] \notin {"none", "needs_human"}
    BY <2>1, <2>3, <2>4 DEF HumanInv, PackDecided
  <2> QED BY <1>2, <2>2, <2>4
<1>5. ASSUME NEW c \in Claims, PackPicks(k, c)
      PROVE  PackDecided'
  <2>1. pack[k] # NoPack /\ c \in pack[k].todo
    BY <1>5 DEF PackPicks, Reading
  <2> DEFINE p == [run |-> pack[k].run, todo |-> pack[k].todo \ {c},
                   first |-> c, stamp |-> Len(reviews[c])]
  <2>2. pack' = [pack EXCEPT ![k] = p]
    BY <1>5 DEF PackPicks
  <2>3. p.todo = pack[k].todo \ {c} /\ p.first = c
    OBVIOUS
  <2> HIDE DEF p
  <2>4. ASSUME NEW d \in Claims, d \in p.todo \cup {p.first}
        PROVE  proposal[d] \notin {"none", "needs_human"}
    BY <2>1, <2>3, <2>4 DEF HumanInv, PackDecided
  <2> QED BY <1>2, <2>2, <2>4
<1>6. ASSUME PackAborts(k)
      PROVE  PackDecided'
  BY <1>2, <1>6 DEF PackAborts
<1>7. PackDecided'
  BY <1>3, <1>4, <1>5, <1>6
<1> QED BY <1>1, <1>7 DEF ReviewedTogether, AmbiguousLeftToHumans, HumanInv

LEMMA HumanStep ==
  ASSUME HumanInv, [Next]_vars
  PROVE  HumanInv'
<1>1. TypeOK'
  BY TypeStep DEF HumanInv
<1>2. ASSUME UNCHANGED <<proposal, reviews, pack>>
      PROVE  PackDecided' /\ ReviewedTogether' /\ AmbiguousLeftToHumans'
  BY <1>2 DEF HumanInv, PackDecided, ReviewedTogether, AmbiguousLeftToHumans
<1>3. PackDecided' /\ ReviewedTogether' /\ AmbiguousLeftToHumans'
  <2>1. CASE \E x \in Extractions : CheckTarget(x) \/ PersistResult(x) \/ AbortExtraction(x)
    BY <1>2, <2>1 DEF CheckTarget, PersistResult, AbortExtraction
  <2>2. CASE \E e \in Subjects : CorrectEntity(e) \/ ArchiveEntity(e)
    BY <1>2, <2>2 DEF CorrectEntity, ArchiveEntity, Revise
  <2>3. CASE Reconcile \/ \E s \in Scopes, outcome \in {"resolved", "dismissed"} :
                             CloseConflict(s, outcome)
    BY <1>2, <2>3 DEF Reconcile, CloseConflict
  <2>4. CASE \E key \in PublishKeys : Publish(key)
    BY <1>2, <2>4 DEF Publish
  <2>5. CASE UNCHANGED vars
    BY <1>2, <2>5 DEF vars
  <2> QED BY <2>1, <2>2, <2>3, <2>4, <2>5,
             HumanPersist, HumanCommits, HumanReview, HumanPack DEF Next
<1> QED BY <1>1, <1>3 DEF HumanInv

\* Confirming a pack never decides a claim the Reviewer left to a human, nor
\* one it has not reviewed.
THEOREM HumansDecide == Spec => []AmbiguousLeftToHumans
<1>1. Init => HumanInv
  <2> SUFFICES ASSUME Init PROVE HumanInv
    OBVIOUS
  <2>1. PackDecided /\ ReviewedTogether /\ AmbiguousLeftToHumans
    BY DEF Init, PackDecided, ReviewedTogether, AmbiguousLeftToHumans
  <2> QED BY <2>1, TypeInit DEF HumanInv
<1>2. HumanInv => AmbiguousLeftToHumans
  BY DEF HumanInv
<1> QED BY <1>1, <1>2, HumanStep, PTL DEF Spec

-------------------------------------------------------------------------------
(* What later snapshots owe to earlier ones.                               *)

\* Claims stay candidates, logs keep their rows wherever a pack inserts its
\* own, and entities only get later revisions: what a snapshot holds can always
\* be found again below what is there now.
PublishedStands ==
  \A i \in 1 .. Len(snapshots) : \A m \in snapshots[i].members :
    /\ m.claim \in Candidates
    /\ m.revision.number <= revision[SubjectOf[ScopeOf[m.claim]]].number
    /\ \E p \in 1 .. Len(reviews[m.claim]) : reviews[m.claim][p] = m.review

PublishedInv == TypeOK /\ PublishedStands

LEMMA ConcatLength ==
  ASSUME NEW S, NEW s \in Seq(S), NEW t \in Seq(S)
  PROVE  Len(s \o t) = Len(s) + Len(t)
BY ConcatProperties

\* A row that was inserted somewhere in a log leaves the others there.
LEMMA InsertedKeepsRows ==
  ASSUME TypeOK, NEW k \in PackKeys, NEW c \in Claims,
         NEW n \in 0 .. Len(reviews[c]), NEW p \in 1 .. Len(reviews[c])
  PROVE  \E q \in 1 .. Len(Inserted(k, c, n)) : Inserted(k, c, n)[q] = reviews[c][p]
<1> DEFINE log == reviews[c]
           low == SubSeq(log, 1, n)
           row == <<PackReview(k, c)>>
           high == SubSeq(log, n + 1, Len(log))
<1>1. log \in Seq(Reviews) /\ Len(log) \in Nat
  BY DEF TypeOK
<1>2. low \in Seq(Reviews) /\ Len(low) = n /\ (p <= n => low[p] = log[p])
  BY <1>1
<1>3. high \in Seq(Reviews) /\ Len(high) = Len(log) - n /\ (p > n => high[p - n] = log[p])
  BY <1>1
<1>4. row \in Seq(Reviews) /\ Len(row) = 1
  BY PackReviewTyped
<1>5. Inserted(k, c, n) = low \o row \o high
  BY DEF Inserted
<1> HIDE DEF low, row, high
<1>6. low \o row \in Seq(Reviews) /\ Len(low \o row) = n + 1
  <2>1. low \o row \in Seq(Reviews)
    BY <1>2, <1>4
  <2>2. Len(low \o row) = Len(low) + Len(row)
    BY <1>2, <1>4, ConcatLength
  <2> QED BY <1>2, <1>4, <2>1, <2>2
<1>7. p <= n => (low \o row)[p] = low[p]
  BY <1>2, <1>4
<1>8. Len(low \o row \o high) = Len(log) + 1
  <2>1. Len(low \o row \o high) = Len(low \o row) + Len(high)
    BY <1>3, <1>6, ConcatLength
  <2>2. \A i, j \in Nat : (i + 1) + (j - i) = j + 1
    OBVIOUS
  <2>3. n \in Nat
    BY <1>1
  <2> HIDE DEF log
  <2> QED BY <1>1, <1>3, <1>6, <2>1, <2>2, <2>3
<1>9. CASE p <= n
  <2>1. (low \o row \o high)[p] = (low \o row)[p]
    BY <1>3, <1>6, <1>9
  <2> QED BY <1>1, <1>2, <1>5, <1>7, <1>8, <1>9, <2>1
<1>10. CASE p > n
  <2>1. (low \o row \o high)[p + 1] = high[p - n]
    BY <1>1, <1>3, <1>6, <1>10
  <2>2. p + 1 \in 1 .. Len(low \o row \o high)
    BY <1>1, <1>8
  <2> QED BY <1>3, <1>5, <1>10, <2>1, <2>2
<1> QED BY <1>1, <1>9, <1>10

\* No command takes a review back.
LEMMA LogsKeepRows ==
  ASSUME TypeOK, [Next]_vars, NEW c \in Claims, NEW p \in 1 .. Len(reviews[c])
  PROVE  \E q \in 1 .. Len(reviews'[c]) : reviews'[c][q] = reviews[c][p]
<1>1. reviews[c] \in Seq(Reviews)
  BY DEF TypeOK
<1>2. ASSUME NEW row, reviews'[c] = Append(reviews[c], row)
      PROVE  \E q \in 1 .. Len(reviews'[c]) : reviews'[c][q] = reviews[c][p]
  BY <1>1, <1>2
<1>3. CASE reviews' = reviews
  BY <1>3
<1>4. ASSUME NEW d \in Claims, NEW key \in ReviewKeys,
             NEW decision \in Approving \cup {"reject", "defer"},
             ReviewClaim(d, decision, key)
      PROVE  reviews'[c] = reviews[c] \/ \E row : reviews'[c] = Append(reviews[c], row)
  BY <1>4 DEF ReviewClaim, TypeOK
<1>5. ASSUME NEW k \in PackKeys, PackCommits(k)
      PROVE  \E q \in 1 .. Len(reviews'[c]) : reviews'[c][q] = reviews[c][p]
  <2>1. pack[k] \in Packs
    BY <1>5, PackTyped DEF PackCommits
  <2>2. PICK n \in Places(pack[k]) :
          reviews'[c] = IF c = pack[k].first THEN Inserted(k, c, n)
                        ELSE IF c \in pack[k].todo /\ ToWrite(k, c)
                        THEN Append(reviews[c], PackReview(k, c))
                        ELSE reviews[c]
    BY <1>5 DEF PackCommits
  <2>3. CASE c = pack[k].first
    <3>1. n \in 0 .. Len(reviews[c])
      BY <1>1, <2>1, <2>3, KnowledgeAssumption DEF Places, Packs
    <3> QED BY <2>2, <2>3, <3>1, InsertedKeepsRows
  <2>4. CASE c # pack[k].first /\ c \in pack[k].todo /\ ToWrite(k, c)
    BY <1>2, <2>2, <2>4
  <2>5. CASE c # pack[k].first /\ ~(c \in pack[k].todo /\ ToWrite(k, c))
    BY <2>2, <2>5
  <2> QED BY <2>3, <2>4, <2>5
<1> QED BY <1>2, <1>3, <1>4, <1>5
        DEF Next, vars, CheckTarget, PersistResult, AbortExtraction, PersistAgentReview,
            ConfirmPack, CorrectEntity, ArchiveEntity, Revise, Reconcile, CloseConflict,
            PackSkips, PackPicks, PackAborts, Publish

\* A committed claim stays, and a revision is followed by later ones only.
LEMMA ClaimsAndRevisionsStay ==
  ASSUME TypeOK, [Next]_vars
  PROVE  /\ Candidates \subseteq Candidates'
         /\ \A e \in Subjects : revision[e].number <= revision'[e].number
<1>1. ASSUME NEW x \in Extractions
      PROVE  extraction[x] = "persisted" => extraction'[x] = "persisted"
  BY DEF Next, vars, CheckTarget, PersistResult, AbortExtraction, PersistAgentReview,
         ConfirmPack, CorrectEntity, ArchiveEntity, Revise, ReviewClaim, Reconcile,
         CloseConflict, PackSkips, PackPicks, PackCommits, PackAborts, Publish, TypeOK
<1>2. Candidates \subseteq Candidates'
  BY <1>1, KnowledgeAssumption DEF Candidates
<1>3. ASSUME NEW e \in Subjects
      PROVE  revision[e].number <= revision'[e].number
  <2>1. revision[e] \in Revisions /\ revision[e].number \in Nat
    BY DEF TypeOK, Revisions
  <2>2. ASSUME NEW f \in Subjects, NEW status, Revise(f, status)
        PROVE  revision[e].number <= revision'[e].number
    BY <2>1, <2>2 DEF Revise, TypeOK
  <2>3. CASE revision' = revision
    BY <2>1, <2>3
  <2> QED BY <2>2, <2>3
          DEF Next, vars, CheckTarget, PersistResult, AbortExtraction, PersistAgentReview,
              ConfirmPack, CorrectEntity, ArchiveEntity, ReviewClaim, Reconcile,
              CloseConflict, PackSkips, PackPicks, PackCommits, PackAborts, Publish
<1> QED BY <1>2, <1>3

\* What is published is an approval in force and the latest revision.
LEMMA MemberInForce ==
  ASSUME TypeOK, NEW m \in PublishedMembers
  PROVE  LET log == reviews[m.claim] IN
         /\ m.claim \in Candidates /\ m.claim \in Claims
         /\ Len(log) \in 1 .. Len(log) /\ log[Len(log)] = m.review
         /\ m.revision = revision[SubjectOf[ScopeOf[m.claim]]]
<1>1. PICK c \in ApprovedClaims :
        /\ m.claim = c /\ m.review = Latest(c)
        /\ m.revision = revision[SubjectOf[ScopeOf[c]]]
  BY DEF PublishedMembers
<1>2. c \in Candidates /\ c \in Claims /\ reviews[c] # <<>>
  BY DEF ApprovedClaims, Candidates, Approved, Reviewed
<1>3. reviews[c] \in Seq(Reviews)
  BY <1>2 DEF TypeOK
<1> QED BY <1>1, <1>2, <1>3 DEF Latest

LEMMA PublishedStep ==
  ASSUME PublishedInv, [Next]_vars
  PROVE  PublishedInv'
<1>1. TypeOK /\ TypeOK'
  BY TypeStep DEF PublishedInv
<1>2. snapshots \in Seq(Snapshots) /\ Len(snapshots) \in Nat
  BY <1>1 DEF TypeOK
<1>3. ASSUME NEW i \in 1 .. Len(snapshots), NEW m \in snapshots[i].members
      PROVE  /\ m.claim \in Candidates'
             /\ m.revision.number <= revision'[SubjectOf[ScopeOf[m.claim]]].number
             /\ \E p \in 1 .. Len(reviews'[m.claim]) : reviews'[m.claim][p] = m.review
  <2> DEFINE e == SubjectOf[ScopeOf[m.claim]]
  <2>1. snapshots[i] \in Snapshots
    BY <1>2
  <2>2. m \in Members
    BY <2>1 DEF Snapshots
  <2>3. m.claim \in Claims /\ m.revision.number \in Nat /\ e \in Subjects
    BY <2>2, KnowledgeAssumption DEF Members, Revisions
  <2>4. revision[e].number \in Nat /\ revision'[e].number \in Nat
    BY <1>1, <2>3 DEF TypeOK, Revisions
  <2>5. /\ m.claim \in Candidates
        /\ m.revision.number <= revision[e].number
        /\ \E p \in 1 .. Len(reviews[m.claim]) : reviews[m.claim][p] = m.review
    BY DEF PublishedInv, PublishedStands
  <2>6. Candidates \subseteq Candidates' /\ revision[e].number <= revision'[e].number
    BY <1>1, <2>3, ClaimsAndRevisionsStay
  <2>7. m.revision.number <= revision'[e].number
    BY <2>3, <2>4, <2>5, <2>6
  <2>8. \E p \in 1 .. Len(reviews'[m.claim]) : reviews'[m.claim][p] = m.review
    BY <1>1, <2>3, <2>5, LogsKeepRows
  <2> QED BY <2>5, <2>6, <2>7, <2>8
<1>4. CASE snapshots' = snapshots
  BY <1>1, <1>3, <1>4 DEF PublishedInv, PublishedStands
<1>5. ASSUME NEW key \in PublishKeys, Publish(key)
      PROVE  PublishedStands'
  <2>1. snapshots' = Append(snapshots, [key |-> key, members |-> PublishedMembers])
    BY <1>5 DEF Publish
  <2>2. reviews' = reviews /\ revision' = revision /\ Candidates' = Candidates
    BY <1>5 DEF Publish, Candidates
  <2>3. ASSUME NEW m \in PublishedMembers
        PROVE  /\ m.claim \in Candidates
               /\ m.revision.number <= revision[SubjectOf[ScopeOf[m.claim]]].number
               /\ \E p \in 1 .. Len(reviews[m.claim]) : reviews[m.claim][p] = m.review
    <3>1. m.claim \in Claims /\ m.revision = revision[SubjectOf[ScopeOf[m.claim]]]
      BY <1>1, MemberInForce
    <3>2. m.revision \in Revisions
      BY <1>1, <3>1, KnowledgeAssumption DEF TypeOK
    <3> QED BY <1>1, <3>1, <3>2, MemberInForce DEF Revisions
  <2>4. ASSUME NEW i \in 1 .. Len(snapshots'), NEW m \in snapshots'[i].members
        PROVE  /\ m.claim \in Candidates'
               /\ m.revision.number <= revision'[SubjectOf[ScopeOf[m.claim]]].number
               /\ \E p \in 1 .. Len(reviews'[m.claim]) : reviews'[m.claim][p] = m.review
    <3>1. CASE i = Len(snapshots) + 1
      <4>1. m \in PublishedMembers
        BY <1>2, <2>1, <2>4, <3>1
      <4> QED BY <2>2, <2>3, <4>1
    <3>2. CASE i # Len(snapshots) + 1
      <4>1. i \in 1 .. Len(snapshots) /\ snapshots'[i] = snapshots[i]
        BY <1>2, <2>1, <3>2
      <4> QED BY <1>3, <2>4, <4>1
    <3> QED BY <3>1, <3>2
  <2> QED BY <2>4 DEF PublishedStands
<1> QED BY <1>1, <1>4, <1>5, SnapshotsStep DEF PublishedInv

LEMMA LaterAnswers ==
  ASSUME PublishedInv, NEW key \in PublishKeys, Publish(key),
         NEW i \in 1 .. Len(snapshots), NEW m \in snapshots[i].members
  PROVE  LET log == reviews[m.claim] IN
         \E p \in 1 .. Len(log) :
           /\ log[p] = m.review
           /\ \/ Latest(m.claim).decision = "reject"
              \/ \E n \in snapshots'[Len(snapshots')].members :
                   /\ n.claim = m.claim /\ n.revision.number >= m.revision.number
                   /\ \E q \in p .. Len(log) : n.review = log[q]
<1> DEFINE c == m.claim
           log == reviews[c]
<1>1. TypeOK /\ snapshots \in Seq(Snapshots) /\ Len(snapshots) \in Nat
  BY DEF PublishedInv, TypeOK
<1>2. /\ c \in Candidates /\ c \in Claims
      /\ m.revision.number <= revision[SubjectOf[ScopeOf[c]]].number
  BY DEF PublishedInv, PublishedStands, Candidates
<1>3. PICK p \in 1 .. Len(log) : log[p] = m.review
  BY DEF PublishedInv, PublishedStands
<1>4. Final(c)
  BY <1>2 DEF Publish, Publishable
<1>5. log \in Seq(Reviews) /\ Len(log) \in Nat /\ p \in Nat
  BY <1>1, <1>2 DEF TypeOK
<1>6. Latest(c).decision \in Approving \cup {"reject"}
  <2>1. Latest(c) \in Reviews
    BY <1>1, <1>2, <1>4, LatestIsReview DEF Final
  <2> QED BY <1>4, <2>1 DEF Final, Reviews
<1>7. CASE Latest(c).decision = "reject"
  BY <1>3, <1>7
<1>8. CASE Latest(c).decision \in Approving
  <2> DEFINE n == [claim |-> c, review |-> Latest(c), revision |-> revision[SubjectOf[ScopeOf[c]]]]
  <2>1. n \in PublishedMembers
    <3>1. c \in ApprovedClaims
      BY <1>2, <1>4, <1>8 DEF ApprovedClaims, Approved, Final
    <3> QED BY <3>1 DEF PublishedMembers
  <2>2. snapshots'[Len(snapshots')].members = PublishedMembers
    <3>1. snapshots' = Append(snapshots, [key |-> key, members |-> PublishedMembers])
      BY DEF Publish
    <3> QED BY <1>1, <3>1
  <2>3. n.claim = c /\ n.review = log[Len(log)]
        /\ n.revision.number = revision[SubjectOf[ScopeOf[c]]].number
    BY DEF Latest
  <2>4. Len(log) \in p .. Len(log)
    BY <1>5
  <2>5. n.revision.number >= m.revision.number
    <3>1. revision[SubjectOf[ScopeOf[c]]].number \in Nat
      BY <1>1, <1>2, KnowledgeAssumption DEF TypeOK, Revisions
    <3>2. m.revision.number \in Nat
      <4>1. snapshots[i] \in Snapshots
        BY <1>1
      <4>2. m \in Members
        BY <4>1 DEF Snapshots
      <4> QED BY <4>2 DEF Members, Revisions
    <3> QED BY <1>2, <2>3, <3>1, <3>2
  <2> HIDE DEF n
  <2> QED BY <1>3, <2>1, <2>2, <2>3, <2>4, <2>5
<1> QED BY <1>6, <1>7, <1>8

\* A new snapshot answers for all that was published before: each claim is in
\* it again, by the same decision or a later one and with no older revision of
\* its entity, unless a human rejected it.
THEOREM LaterSnapshotsAlwaysAnswer == Spec => LaterSnapshotsAnswer
<1>1. Init => PublishedInv
  BY TypeInit DEF Init, PublishedInv, PublishedStands
<1>2. PublishedInv /\ [Next]_vars =>
        [Len(snapshots') > Len(snapshots) =>
           \A i \in 1 .. Len(snapshots) : \A m \in snapshots[i].members :
             LET log == reviews[m.claim] IN
             \E p \in 1 .. Len(log) :
               /\ log[p] = m.review
               /\ \/ Latest(m.claim).decision = "reject"
                  \/ \E n \in snapshots'[Len(snapshots')].members :
                       /\ n.claim = m.claim /\ n.revision.number >= m.revision.number
                       /\ \E q \in p .. Len(log) : n.review = log[q]]_vars
  <2> SUFFICES ASSUME PublishedInv, [Next]_vars, Len(snapshots') > Len(snapshots)
               PROVE  \A i \in 1 .. Len(snapshots) : \A m \in snapshots[i].members :
                        LET log == reviews[m.claim] IN
                        \E p \in 1 .. Len(log) :
                          /\ log[p] = m.review
                          /\ \/ Latest(m.claim).decision = "reject"
                             \/ \E n \in snapshots'[Len(snapshots')].members :
                                  /\ n.claim = m.claim
                                  /\ n.revision.number >= m.revision.number
                                  /\ \E q \in p .. Len(log) : n.review = log[q]
    OBVIOUS
  <2>1. Len(snapshots) \in Nat
    BY DEF PublishedInv, TypeOK
  <2>2. PICK key \in PublishKeys : Publish(key)
    BY <2>1, SnapshotsStep
  <2> QED BY <2>2, LaterAnswers
<1>3. PublishedInv /\ [Next]_vars => PublishedInv'
  BY PublishedStep DEF PublishedInv
<1> QED BY <1>1, <1>2, <1>3, PTL DEF Spec, LaterSnapshotsAnswer

-------------------------------------------------------------------------------
(* The review desk implements the publication contract.                    *)

\* Reviews, groups, packs and extractions only decide claims.
LEMMA DecideStep ==
  ASSUME TypeOK, TypeOK', Candidates \subseteq Candidates',
         UNCHANGED <<revision, snapshots>>
  PROVE  Contract!Decide
<1>1. ASSUME NEW c \in Claims
      PROVE  Decided'[c] \in Contract!Decisions
  <2>1. Decided'[c] = IF c \notin Candidates' THEN "absent"
                      ELSE IF ~Final(c)' THEN "undecided"
                      ELSE IF Approved(c)' THEN Latest(c)'.value ELSE "rejected"
    BY DEF Decided
  <2>2. Approved(c)' => Latest(c)'.value \in Values
    <3>1. ASSUME Approved(c)'
          PROVE  reviews'[c] \in Seq(Reviews) /\ reviews'[c] # <<>>
      BY <3>1 DEF TypeOK, Approved, Reviewed
    <3>2. ASSUME Approved(c)'
          PROVE  Latest(c)' \in Reviews /\ Latest(c)'.decision \in Approving
      BY <3>1, <3>2 DEF Latest, Approved
    <3> QED BY <3>2 DEF Reviews, Approving
  <2> QED BY <2>1, <2>2 DEF Contract!Decisions
<1>2. ASSUME NEW c \in Claims, Decided[c] # "absent"
      PROVE  Decided'[c] # "absent"
  <2>1. c \in Candidates'
    BY <1>2 DEF Decided
  <2>2. Decided'[c] = IF ~Final(c)' THEN "undecided"
                      ELSE IF Approved(c)' THEN Latest(c)'.value ELSE "rejected"
    BY <2>1 DEF Decided
  <2>3. Approved(c)' => Latest(c)'.value # "absent"
    <3>1. ASSUME Approved(c)'
          PROVE  reviews'[c] \in Seq(Reviews) /\ reviews'[c] # <<>>
      BY <3>1 DEF TypeOK, Approved, Reviewed
    <3>2. ASSUME Approved(c)'
          PROVE  Latest(c)' \in Reviews /\ Latest(c)'.decision \in Approving
      BY <3>1, <3>2 DEF Latest, Approved
    <3> QED BY <3>2, KnowledgeAssumption DEF Reviews, Approving
  <2> QED BY <2>2, <2>3
<1>3. Decided' \in [Claims -> Contract!Decisions]
  <2>1. Decided' = [c \in Claims |-> Decided'[c]]
    BY DEF Decided
  <2> QED BY <1>1, <2>1
<1>4. UNCHANGED <<{e \in Subjects : Archived(e)}, Published>>
  BY DEF Archived, Published
<1> QED BY <1>2, <1>3, <1>4 DEF Contract!Decide

\* An archived entity is archived for good, a corrected one is not.
LEMMA ReviseStep ==
  ASSUME TypeOK, NEW e \in Subjects, NEW status \in {"active", "archived"}, Revise(e, status)
  PROVE  Contract!Archive(e) \/ UNCHANGED Contract!vars
<1>1. UNCHANGED <<Decided, Published>>
  BY DEF Revise, Decided, Published, Candidates, Final, Reviewed, Latest, Approved
<1>2. ASSUME NEW f \in Subjects
      PROVE  Archived(f)' <=> (IF f = e THEN status = "archived" ELSE Archived(f))
  BY DEF Revise, Archived, TypeOK
<1>3. CASE status = "archived"
  <2>1. {f \in Subjects : Archived(f)}' = {f \in Subjects : Archived(f)} \cup {e}
    BY <1>2, <1>3
  <2> QED BY <1>1, <2>1 DEF Contract!Archive
<1>4. CASE status = "active"
  <2>1. ~Archived(e)
    BY DEF Revise
  <2>2. {f \in Subjects : Archived(f)}' = {f \in Subjects : Archived(f)}
    BY <1>2, <1>4, <2>1
  <2> QED BY <1>1, <2>2 DEF Contract!vars
<1> QED BY <1>3, <1>4

LEMMA PublishStep ==
  ASSUME TypeOK, NEW key \in PublishKeys, Publish(key)
  PROVE  Contract!Publish
<1> DEFINE arch == {e \in Subjects : Archived(e)}
           entry == {<<c, Decided[c]>> : c \in Contract!InForce}
           new == [key |-> key, members |-> PublishedMembers]
<1>1. ASSUME NEW c \in Claims
      PROVE  /\ c \in ApprovedClaims => Decided[c] = Latest(c).value /\ Decided[c] \in Values
             /\ c \notin ApprovedClaims => Decided[c] \in {"absent", "rejected"}
  <2>1. c \in Candidates => Final(c)
    BY DEF Publish, Publishable
  <2>2. c \in ApprovedClaims => c \in Candidates /\ Latest(c).value \in Values
    BY ApprovedValueTyped DEF ApprovedClaims
  <2> QED BY <2>1, <2>2 DEF Decided, ApprovedClaims
<1>2. Contract!InForce = ApprovedClaims
  <2>1. ApprovedClaims \subseteq Claims
    BY DEF ApprovedClaims, Candidates
  <2> QED BY <1>1, <2>1, KnowledgeAssumption DEF Contract!InForce
<1>3. \A c \in Claims : Decided[c] # "undecided"
  BY <1>1, KnowledgeAssumption
<1>4. ApprovedClaims # {} /\ \A c \in ApprovedClaims : SubjectOf[ScopeOf[c]] \notin arch
  BY DEF Publish, Publishable
<1>5. ASSUME NEW c \in ApprovedClaims, NEW d \in ApprovedClaims,
             ScopeOf[c] = ScopeOf[d], ScopeOf[c] \in Exclusive
      PROVE  Decided[c] = Decided[d]
  <2>1. OneValue(InScope(ScopeOf[c]))
    BY <1>5, PlanAgrees DEF Publish
  <2>2. c \in InScope(ScopeOf[c]) /\ d \in InScope(ScopeOf[c]) /\ Approved(c) /\ Approved(d)
    BY <1>5 DEF InScope, ApprovedClaims
  <2>3. c \in Claims /\ d \in Claims
    BY DEF ApprovedClaims, Candidates
  <2> QED BY <1>1, <2>1, <2>2, <2>3 DEF OneValue
<1>6. Published' = Append(Published, entry)
  <2>1. snapshots \in Seq(Snapshots) /\ Len(snapshots) \in Nat
    BY DEF TypeOK
  <2>2. snapshots' = Append(snapshots, new)
    BY DEF Publish
  <2>3. {<<m.claim, m.review.value>> : m \in PublishedMembers} = entry
    <3>1. {<<m.claim, m.review.value>> : m \in PublishedMembers}
            = {<<c, Latest(c).value>> : c \in ApprovedClaims}
      <4> DEFINE member(c) == [claim |-> c, review |-> Latest(c),
                               revision |-> revision[SubjectOf[ScopeOf[c]]]]
      <4>1. PublishedMembers = {member(c) : c \in ApprovedClaims}
        BY DEF PublishedMembers
      <4>2. \A c \in ApprovedClaims : member(c).claim = c /\ member(c).review.value = Latest(c).value
        OBVIOUS
      <4> HIDE DEF member
      <4> QED BY <4>1, <4>2
    <3>2. \A c \in ApprovedClaims : Latest(c).value = Decided[c]
      BY <1>1 DEF ApprovedClaims, Candidates
    <3> QED BY <1>2, <3>1, <3>2
  <2> HIDE DEF entry
  <2>4. Len(snapshots') = Len(snapshots) + 1
    BY <2>1, <2>2
  <2>5. \A i \in 1 .. Len(snapshots) : snapshots'[i] = snapshots[i]
    BY <2>1, <2>2
  <2>6. snapshots'[Len(snapshots) + 1].members = PublishedMembers
    BY <2>1, <2>2
  <2> DEFINE values(i) == {<<m.claim, m.review.value>> : m \in snapshots[i].members}
             next(i) == {<<m.claim, m.review.value>> : m \in snapshots'[i].members}
  <2>7. Published' = [i \in 1 .. Len(snapshots) + 1 |-> next(i)]
    BY <2>4 DEF Published
  <2>8. \A i \in 1 .. Len(snapshots) : next(i) = values(i)
    BY <2>5
  <2>9. next(Len(snapshots) + 1) = entry
    BY <2>3, <2>6
  <2>10. Published = [i \in 1 .. Len(snapshots) |-> values(i)]
    BY DEF Published
  <2> HIDE DEF values, next
  <2> DEFINE every == {values(i) : i \in 1 .. Len(snapshots)} \cup {entry}
  <2>11. Published \in Seq(every) /\ Len(Published) = Len(snapshots)
    BY <2>1, <2>10
  <2>12. Published' \in Seq(every) /\ Len(Published') = Len(snapshots) + 1
    BY <2>1, <2>7, <2>8, <2>9
  <2>13. Append(Published, entry) \in Seq(every)
         /\ Len(Append(Published, entry)) = Len(snapshots) + 1
    BY <2>11
  <2>14. ASSUME NEW i \in 1 .. Len(snapshots) + 1
         PROVE  Published'[i] = Append(Published, entry)[i]
    BY <2>1, <2>7, <2>8, <2>9, <2>10, <2>11
  <2> HIDE DEF every
  <2> QED BY <2>11, <2>12, <2>13, <2>14, SeqEqual
<1>7. UNCHANGED <<Decided, arch>>
  BY DEF Publish, Decided, Candidates, Final, Reviewed, Latest, Approved, Archived
<1> QED BY <1>2, <1>3, <1>4, <1>5, <1>6, <1>7 DEF Contract!Publish

\* Every step of the desk is a step of the contract or none: claims appear and
\* are decided, entities are archived, and what is published is published whole.
LEMMA ContractStep ==
  ASSUME TypeOK, TypeOK', [Next]_vars
  PROVE  [Contract!Next]_(Contract!vars)
<1>1. CASE \E key \in PublishKeys : Publish(key)
  BY <1>1, PublishStep DEF Contract!Next
<1>2. CASE \E e \in Subjects : CorrectEntity(e) \/ ArchiveEntity(e)
  <2>1. PICK e \in Subjects, status \in {"active", "archived"} : Revise(e, status)
    BY <1>2 DEF CorrectEntity, ArchiveEntity
  <2> QED BY <2>1, ReviseStep DEF Contract!Next
<1>3. ASSUME UNCHANGED <<revision, snapshots>>,
             \A x \in Extractions : extraction[x] = "persisted" => extraction'[x] = "persisted"
      PROVE  Contract!Decide
  <2>1. Candidates \subseteq Candidates'
    BY <1>3, KnowledgeAssumption DEF Candidates
  <2> QED BY <1>3, <2>1, DecideStep
<1>4. ASSUME NEW x \in Extractions,
             CheckTarget(x) \/ PersistResult(x) \/ AbortExtraction(x)
      PROVE  Contract!Decide
  BY <1>3, <1>4 DEF CheckTarget, PersistResult, AbortExtraction, TypeOK
<1>5. ASSUME UNCHANGED <<revision, snapshots, extraction>>
      PROVE  Contract!Decide
  BY <1>3, <1>5
<1> QED BY <1>1, <1>2, <1>4, <1>5
        DEF Next, vars, PersistAgentReview, ConfirmPack, ReviewClaim, Reconcile, CloseConflict,
            PackSkips, PackPicks, PackCommits, PackAborts, Contract!Next

\* Locks, groups, keys and revisions implement the publication rule.
THEOREM ReviewImplementsContract == Spec => ContractSpec
<1>1. Init => Contract!Init
  <2> SUFFICES ASSUME Init PROVE Contract!Init
    OBVIOUS
  <2>1. Decided = [c \in Claims |-> "absent"]
    BY KnowledgeAssumption DEF Init, Decided, Candidates
  <2>2. {e \in Subjects : Archived(e)} = {}
    BY DEF Init, Archived
  <2>3. Published = <<>>
    BY DEF Init, Published
  <2> QED BY <2>1, <2>2, <2>3 DEF Contract!Init
<1>2. TypeOK /\ TypeOK' /\ [Next]_vars => [Contract!Next]_(Contract!vars)
  BY ContractStep
<1> QED BY <1>1, <1>2, TypeCorrect, PTL DEF Spec, ContractSpec, Contract!Spec

===============================================================================
