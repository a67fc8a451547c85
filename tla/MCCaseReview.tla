---------------------------- MODULE MCCaseReview ----------------------------
(* CaseReview for TLC: neither items nor approvers have an identity of     *)
(* their own, so states that differ by renaming them are the same.         *)
EXTENDS CaseReview, TLC

Renamings == Permutations(Items) \cup Permutations(Approvers)
=============================================================================
