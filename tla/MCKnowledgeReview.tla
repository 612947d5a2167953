--------------------------- MODULE MCKnowledgeReview ---------------------------
(* Instances of KnowledgeReview for TLC: claims about one entity. *)
EXTENDS KnowledgeReview, TLC

CONSTANTS c1, c2, c3, s1, e1, x1, x2, va, vb

MCTargetOf == [x \in Extractions |-> e1]
MCSubjectOf == [s \in Scopes |-> e1]

\* One comparison key.
MCScopeOf == [c \in Claims |-> s1]

\* c1 and c2 differ, or are the same candidate value.
MCDiffering == [c \in Claims |-> IF c = c2 THEN vb ELSE va]
MCSame == [c \in Claims |-> va]

\* One claim comes from a later extraction, or all come from one.
MCLateRun == [c \in Claims |-> IF c = c3 THEN x2 ELSE x1]
MCOneRun == [c \in Claims |-> x1]

KeySymmetry == Permutations(ReviewKeys) \cup Permutations(PublishKeys)

===============================================================================
