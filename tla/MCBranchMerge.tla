---------------------------- MODULE MCBranchMerge ----------------------------
(***************************************************************************)
(* Small instances of BranchMerge.  The foreign keys make one chain, so    *)
(* there is one replay order with parents first, and sortTables returns    *)
(* such an order (GraphProofs).                                            *)
(***************************************************************************)
EXTENDS BranchMerge, TLC

CONSTANTS
    users, orders, lines,
    OrdersRule, LinesRule       \* ON DELETE rules of the two foreign keys

ShopFK ==
    [t \in Tables |->
        CASE t = orders -> [table |-> users,  rule |-> OrdersRule]
          [] t = lines  -> [table |-> orders, rule |-> LinesRule]
          [] OTHER      -> [table |-> Null,   rule |-> "NONE"]]

ReplayOrder == SelectSeq(<<users, orders, lines>>, LAMBDA t : t \in Tables)

\* Row 1 of every table refers to row 1 of its parent; TwoUsers adds a user.
FirstVal == CHOOSE v \in Vals : TRUE
OneUser ==
    [k \in Keys |->
        IF k[2] # 1 THEN Absent
        ELSE [val |-> FirstVal, ref |-> IF FK[k[1]].table = Null THEN Null ELSE 1]]
TwoUsers == [OneUser EXCEPT ![users, 2] = [val |-> FirstVal, ref |-> Null]]

SeqAhead   == [t \in Tables |-> IF StartBase[t, 2] # Absent THEN 3 ELSE 2]
SeqBehind  == [t \in Tables |-> 1]
AllOverlay     == [t \in Tables |-> "overlay"]
AllPassthrough == [t \in Tables |-> "passthrough"]
=============================================================================
