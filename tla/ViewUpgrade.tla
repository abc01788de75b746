----------------------------- MODULE ViewUpgrade -----------------------------
(***************************************************************************)
(* What the data plane relies on in the upgrade of views: a view turns     *)
(* into an overlay only after somebody has asked for it, a request may be  *)
(* forgotten at any time, and a view goes back to a passthrough only by    *)
(* the branch going away.  UpgradeListener, which does the upgrades,       *)
(* implements it; BranchStore allows the views of its branch whatever it   *)
(* allows while the branch exists (ServiceIsCovered).                      *)
(***************************************************************************)

CONSTANT Views      \* the branch views

VARIABLES
    upgraded,       \* views that are overlays
    asked           \* passthrough views with a request under way

upgradeVars == <<upgraded, asked>>

TypeOK == upgraded \subseteq Views /\ asked \subseteq Views

Init == upgraded \subseteq Views /\ asked = {}

\* A write through passthrough views, whether or not somebody hears of it.
Ask(vs) ==
    /\ asked' = asked \cup (vs \ upgraded)
    /\ UNCHANGED upgraded

Upgrade(v) ==
    /\ v \in asked
    /\ upgraded' = upgraded \cup {v}
    /\ asked' = asked \ {v}

Forget(vs) ==
    /\ asked' = asked \ vs
    /\ UNCHANGED upgraded

\* The views vs go away.
Remove(vs) ==
    /\ upgraded' = upgraded \ vs
    /\ asked' = asked \ vs

Next ==
    \/ \E v \in Views : Upgrade(v)
    \/ \E vs \in SUBSET Views : Ask(vs) \/ Forget(vs) \/ Remove(vs)

Spec == Init /\ [][Next]_upgradeVars
=============================================================================
