---------------------------- MODULE MCTwoReceivers ----------------------------
(* Two receivers, two published closures and the one of a fresh machine.   *)
EXTENDS TwoReceivers

CONSTANTS a, b, fresh

BothTargets == {a, b}
EveryClosure == {a, b, fresh}

(***************************************************************************)
(* The run by hand may have read the manifest before the last publication: *)
(* nothing but Fetch reads published, so this is as good as a publication  *)
(* at any later moment of that run.  The two targets are interchangeable,  *)
(* so that b is the published one loses nothing.                           *)
(***************************************************************************)
Fetched(c, t) == [Idle EXCEPT !.pc = "look", !.config = c, !.target = t]

InitAfterPublication ==
    /\ Init
    /\ published = b
    /\ hand \in {Idle} \union {Fetched(marker, t) : t \in Targets}

FairSpecAfterPublication ==
    /\ InitAfterPublication /\ [][NextBoth]_both
    /\ FairnessBoth

(***************************************************************************)
(* A machine that runs b while a is published, and one run by hand, under  *)
(* way at the start and never repeated, that was started beside the timer. *)
(***************************************************************************)
OnceByHand ==
    /\ Init /\ published = a /\ marker = b
    /\ hand = Fetched(marker, a)

FairSpecOnceByHand ==
    /\ OnceByHand
    /\ [][NextBoth /\ (hand.pc = "idle" => hand'.pc = "idle")]_both
    /\ FairnessBoth
=============================================================================
