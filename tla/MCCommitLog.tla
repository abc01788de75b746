----------------------------- MODULE MCCommitLog -----------------------------
(***************************************************************************)
(* Small instances of CommitLog.                                           *)
(***************************************************************************)
EXTENDS CommitLog, TLC

CONSTANTS ann, carl, dora

AllCommands == [c \in Clients |-> {"create", "checkout", "drop", "merge"}]
CommitterSymmetry == Permutations(Committers)
=============================================================================
