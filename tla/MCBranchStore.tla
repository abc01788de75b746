---------------------------- MODULE MCBranchStore ----------------------------
(***************************************************************************)
(* Small instances of BranchStore: a shop with users, their orders (gone   *)
(* with the user), notes on an order (kept, detached) and invoices of an   *)
(* order (which keep the order from being deleted).                        *)
(***************************************************************************)
EXTENDS BranchStore, TLC

CONSTANTS users, orders, notes, invoices

ShopFK ==
    [t \in Tables |->
        CASE t = orders   -> [table |-> users,  rule |-> "CASCADE"]
          [] t = notes    -> [table |-> orders, rule |-> "SET NULL"]
          [] t = invoices -> [table |-> orders, rule |-> "RESTRICT"]
          [] OTHER        -> [table |-> Null,   rule |-> "NONE"]]

\* Row 1 of every table, each child referring to row 1 of its parent.
FirstVal == CHOOSE v \in Vals : TRUE
OneRowEach ==
    [k \in Keys |->
        IF k[2] # 1 THEN Absent
        ELSE [val |-> FirstVal, ref |-> IF FK[k[1]].table = Null THEN Null ELSE 1]]

SeqAhead      == [t \in Tables |-> 2]
SeqBehind     == [t \in Tables |-> 1]
AllOverlay    == [t \in Tables |-> "overlay"]
AllPassthrough == [t \in Tables |-> "passthrough"]

\* A branch whose views have all been upgraded: no write asks the listener for
\* anything, and it has nothing to do.  (Its steps are in the merge runs.)
UpgradedSpec == Init /\ [][BranchStatement \/ BaseStatement]_storeVars
=============================================================================
