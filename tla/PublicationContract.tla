-------------------------- MODULE PublicationContract --------------------------
(***************************************************************************)
(* The publication rule the product promises, with no review log, groups,  *)
(* keys or locks: every candidate is absent, undecided, rejected, or has   *)
(* one approved value; a snapshot takes all the approved values, once      *)
(* nothing is undecided, single-valued predicates have one value and no    *)
(* approved value belongs to an archived entity.  KnowledgeReview          *)
(* implements it.                                                          *)
(***************************************************************************)
EXTENDS Naturals, Sequences

CONSTANTS Claims, Scopes, Subjects, Values, ScopeOf, SubjectOf, Exclusive

VARIABLES
  decided,    \* decided[c]: what the decisions in force say of claim c
  archived,   \* the archived entities
  published   \* the snapshots: sets of claims with their values

vars == <<decided, archived, published>>

Decisions == {"absent", "undecided", "rejected"} \cup Values

TypeOK ==
  /\ decided \in [Claims -> Decisions]
  /\ archived \in SUBSET Subjects
  /\ published \in Seq(SUBSET (Claims \X Values))

Init ==
  /\ decided = [c \in Claims |-> "absent"]
  /\ archived = {}
  /\ published = <<>>

\* Claims are extracted, and decided again and again, never withdrawn.
Decide ==
  /\ decided' \in [Claims -> Decisions]
  /\ \A c \in Claims : decided[c] # "absent" => decided'[c] # "absent"
  /\ UNCHANGED <<archived, published>>

Archive(e) ==
  /\ archived' = archived \cup {e}
  /\ UNCHANGED <<decided, published>>

InForce == {c \in Claims : decided[c] \in Values}

Publish ==
  /\ \A c \in Claims : decided[c] # "undecided"
  /\ InForce # {}
  /\ \A c \in InForce : SubjectOf[ScopeOf[c]] \notin archived
  /\ \A c, d \in InForce : ScopeOf[c] = ScopeOf[d] /\ ScopeOf[c] \in Exclusive
       => decided[c] = decided[d]
  /\ published' = Append(published, {<<c, decided[c]>> : c \in InForce})
  /\ UNCHANGED <<decided, archived>>

Next == Decide \/ (\E e \in Subjects : Archive(e)) \/ Publish

Spec == Init /\ [][Next]_vars

===============================================================================
