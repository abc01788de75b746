-------------------------- MODULE MCBranchLifecycle --------------------------
(***************************************************************************)
(* Small instances of BranchLifecycle: which client runs which commands.   *)
(***************************************************************************)
EXTENDS BranchLifecycle, TLC

CONSTANTS ann, bob

\* One client drops, the others do anything else.
OneDrops == [c \in Clients |-> IF c = ann THEN {"create", "drop"}
                               ELSE {"create", "checkout", "merge"}]
AllMerge == [c \in Clients |-> {"create", "checkout", "merge"}]
=============================================================================
