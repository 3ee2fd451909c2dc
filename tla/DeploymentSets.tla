--------------------------- MODULE DeploymentSets ---------------------------
(***************************************************************************)
(* Deployment sets and promotion requests as data: what src/release.rs     *)
(* selects from a candidate set, composes onto a stable one and compares   *)
(* leaf by leaf.  A leaf is one plane of one host.  A deployment set gives *)
(* every leaf its artifact record, or Absent.  Its ID is a collision-free  *)
(* digest of its contents (release.rs, DeploymentSet::id), so a set stands *)
(* for its own ID here.                                                    *)
(***************************************************************************)

CONSTANTS
    Hosts,      \* host names
    Planes,     \* plane names
    Artifacts,  \* artifact records, provenance and boot image included
    Absent,     \* a host/plane leaf the set does not contain
    NoSet,      \* no deployment set: None of the optional IDs
    Times       \* publishedAt timestamps

ASSUME AbsentAssumption == Absent \notin Artifacts

Leaves == Hosts \X Planes

DeploymentSet == [Leaves -> Artifacts \union {Absent}]

ASSUME NoSetAssumption == NoSet \notin DeploymentSet

(***************************************************************************)
(* A promotion request.  Empty hosts and planes name the whole set;        *)
(* wellFormed is what validate_set, looks_like_timestamp and looks_like_id *)
(* say of the candidates, the timestamp and the expected base, none of     *)
(* which looks at more than one leaf.                                      *)
(***************************************************************************)
Request ==
    [candidates   : DeploymentSet,
     hosts        : SUBSET Hosts,
     planes       : SUBSET Planes,
     expectedBase : DeploymentSet \union {NoSet},
     publishedAt  : Times,
     wellFormed   : BOOLEAN]

LeavesOf(set) == {l \in Leaves : set[l] # Absent}

Full(r) == r.hosts = {} /\ r.planes = {}

(***************************************************************************)
(* select_targets: the leaves a request names, and the problems that make  *)
(* it name none: a selected host or plane the candidates lack, or an empty *)
(* intersection.                                                           *)
(***************************************************************************)
Selected(r) ==
    {l \in LeavesOf(r.candidates) : /\ r.hosts = {} \/ l[1] \in r.hosts
                                    /\ r.planes = {} \/ l[2] \in r.planes}

SelectsNothing(r) ==
    \/ \E h \in r.hosts  : \A l \in LeavesOf(r.candidates) : l[1] # h
    \/ \E p \in r.planes : \A l \in LeavesOf(r.candidates) : l[2] # p
    \/ Selected(r) = {}

HasProblems(r) == ~r.wellFormed \/ SelectsNothing(r)

AgreeOn(leaves, s, t) == \A l \in leaves : s[l] = t[l]

(***************************************************************************)
(* A whole set that differs only outside the candidates counts as already  *)
(* present: the comparison for a full request made leaf by leaf.           *)
(***************************************************************************)
PresentLeafByLeaf(stable, r) ==
    stable # NoSet /\ AgreeOn(Selected(r), stable, r.candidates)

(***************************************************************************)
(* The idempotence test is missing: nothing ever counts as present.        *)
(***************************************************************************)
NeverPresent(stable, r) == FALSE

(***************************************************************************)
(* selection_already_present, on the optional stable set.                  *)
(***************************************************************************)
AlreadyPresent(stable, r) ==
    /\ stable # NoSet
    /\ IF Full(r) THEN stable = r.candidates
                  ELSE AgreeOn(Selected(r), stable, r.candidates)

(***************************************************************************)
(* selected_leaves_unchanged: the leaf-level compare of a stale partial    *)
(* request, between the base it was built against and the stable set.      *)
(***************************************************************************)
SelectedLeavesUnchanged(expected, stable, r) ==
    AgreeOn(Selected(r), expected, stable)

(***************************************************************************)
(* compose_selected for a partial request, the candidates for a full one.  *)
(***************************************************************************)
Composed(stable, r) ==
    IF Full(r) THEN r.candidates
    ELSE [l \in Leaves |-> IF l \in Selected(r) THEN r.candidates[l]
                                                ELSE stable[l]]
=============================================================================
