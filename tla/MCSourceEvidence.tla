---------------------------- MODULE MCSourceEvidence ----------------------------
(***************************************************************************)
(* Instances of SourceEvidence for TLC.                                    *)
(***************************************************************************)
EXTENDS SourceEvidence, TLC

CONSTANTS overview, news, c1

NewsOnly == c1 :> news

Symmetry == Permutations(Workers) \cup Permutations(Runs)
              \cup Permutations(Candidates) \cup Permutations(Contents)

===============================================================================
