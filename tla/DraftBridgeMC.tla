---------------------------- MODULE DraftBridgeMC ----------------------------
(* Small instances of DraftBridge for TLC. *)
EXTENDS DraftBridge, TLC

ClickSymmetry == Permutations(Clicks)
=============================================================================
