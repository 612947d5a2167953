-------------------------- MODULE MCKnowledgeExtraction --------------------------
(* Instances of KnowledgeExtraction for TLC. *)
EXTENDS KnowledgeExtraction

MCDistinctIds == [w \in Workers |-> w]

==================================================================================
