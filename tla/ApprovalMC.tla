----------------------------- MODULE ApprovalMC -----------------------------
(* Small instances of Approval for TLC. *)
EXTENDS Approval, TLC

ClickSymmetry == Permutations(Clicks)
=============================================================================
