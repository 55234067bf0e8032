---------------------------- MODULE MCCfgJournal ----------------------------
(* Small instances of CfgJournal: see the .cfg files. *)
EXTENDS CfgJournal, TLC

ValueSymmetry == Permutations(VALUES)
=============================================================================
