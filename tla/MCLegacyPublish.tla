--------------------------- MODULE MCLegacyPublish ---------------------------
(* Publications for TLC: full ones, and partial ones of one host each.     *)
EXTENDS LegacyPublish, TLC

CONSTANTS h1, h2, pl, a, b

On(x, y) == [l \in Leaves |-> IF l[1] = h1 THEN x ELSE y]

Job(set, hosts) ==
    [candidates |-> set, hosts |-> hosts, planes |-> {}, wellFormed |-> TRUE]

Whole == Job(On(a, a), {})
First == Job(On(b, Absent), {h1})
Second == Job(On(Absent, b), {h2})

AllJobs == {Whole, First, Second, [Whole EXCEPT !.wellFormed = FALSE]}
WholeJobs == {Whole}
PartialJobs == {First, Second}

(* A fleet after its first, full publication, with the partial unit of     *)
(* docs/publisher.md on the timer from then on.                            *)
PartialUnit ==
    /\ \E t \in Times : manifest = Render(Whole.candidates, t)
    /\ signature = manifest
    /\ copies = [d \in Document |-> IF d = manifest THEN 1 ELSE 0]
    /\ rendered = 1
    /\ complete = {manifest}
    /\ publisher = [p \in Publishers |-> Idle]
    /\ receiver = [r \in Receivers |-> [body |-> Missing, accepted |-> manifest]]
    /\ stops = 0

PartialUnitSpec == PartialUnit /\ [][Next]_vars /\ Fairness

SymmetricTimes == Permutations(Times)
=============================================================================
