---------------------------- MODULE StableChannel ----------------------------
(***************************************************************************)
(* What the origin promises its queue owners: one sequence of deployment   *)
(* sets, to which a promotion appends in a single step that compares and   *)
(* swaps.  A full replacement compares the whole stable set with its base, *)
(* a partial one only the leaves it selects; everything else it carries    *)
(* over from the set that is stable at that very moment.                   *)
(***************************************************************************)
EXTENDS DeploymentSets, Integers, Sequences

CONSTANT Requests

VARIABLE history    \* the deployment sets that have been stable, in order

StableOf(h) == IF h = <<>> THEN NoSet ELSE h[Len(h)]

(* The set the request was built against is still stable where it matters. *)
Compares(stable, r) ==
    \/ r.expectedBase = stable
    \/ /\ ~Full(r)
       /\ NoSet \notin {r.expectedBase, stable}
       /\ SelectedLeavesUnchanged(r.expectedBase, stable, r)

Promotable(stable, r) ==
    /\ ~HasProblems(r)
    /\ ~AlreadyPresent(stable, r)
    /\ Compares(stable, r)
    /\ Full(r) \/ stable # NoSet

Init == history = <<>>

Promote(r) ==
    /\ Promotable(StableOf(history), r)
    /\ history' = Append(history, Composed(StableOf(history), r))

Next == \E r \in Requests : Promote(r)

Spec == Init /\ [][Next]_history
=============================================================================
