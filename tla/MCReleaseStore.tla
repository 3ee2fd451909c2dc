--------------------------- MODULE MCReleaseStore ---------------------------
(***************************************************************************)
(* Two promoters on an origin of two hosts with one plane, two artifact    *)
(* records and two timestamps.                                             *)
(***************************************************************************)
EXTENDS ReleaseStore, TLC

CONSTANTS h1, h2, plane, plane2, a, b, t1, t2

Fleet(x, y) == (<<h1, plane>> :> x) @@ (<<h2, plane>> :> y)

Ask(set, hosts, base, at) ==
    [candidates |-> set, hosts |-> hosts, planes |-> {}, expectedBase |-> base,
     publishedAt |-> at, wellFormed |-> TRUE]

MCHosts == {h1, h2}
MCPlanes == {plane}

(* A first set, a host retired, a replacement, and the way back to it.     *)
FullRequests ==
    {Ask(Fleet(a, a), {}, NoSet, t1),
     Ask(Fleet(a, Absent), {}, Fleet(a, a), t2),
     Ask(Fleet(b, a), {}, Fleet(a, a), t1),
     Ask(Fleet(a, a), {}, Fleet(b, a), t2)}

(***************************************************************************)
(* Each host updated on its own from the first set, the first host again   *)
(* from a base that may not have been released, a host the candidates      *)
(* lack, a rebuild that changes nothing, and a partial request without a   *)
(* base.                                                                   *)
(***************************************************************************)
PartialRequests ==
    {Ask(Fleet(b, Absent), {h1}, Fleet(a, a), t2),
     Ask(Fleet(Absent, b), {h2}, Fleet(a, a), t2),
     Ask(Fleet(a, Absent), {h1}, Fleet(b, b), t2),
     Ask(Fleet(b, Absent), {h2}, Fleet(a, a), t1),
     Ask(Fleet(Absent, a), {h2}, Fleet(a, a), t2),
     Ask(Fleet(a, Absent), {h1}, NoSet, t1)}

(***************************************************************************)
(* Two planes of one host: each plane updated alone, one selected with its *)
(* host from the base that has both updates, and candidates that fail      *)
(* validation.                                                             *)
(***************************************************************************)
Planes2(x, y) == (<<h1, plane>> :> x) @@ (<<h1, plane2>> :> y)

AskPlanes(set, hosts, planes, base, at) ==
    [Ask(set, hosts, base, at) EXCEPT !.planes = planes]

MCPlanePair == {plane, plane2}

PlaneRequests ==
    {Ask(Planes2(a, Absent), {}, NoSet, t1),
     AskPlanes(Planes2(b, Absent), {}, {plane}, Planes2(a, Absent), t1),
     AskPlanes(Planes2(Absent, b), {}, {plane2}, Planes2(a, Absent), t2),
     AskPlanes(Planes2(a, a), {h1}, {plane2}, Planes2(b, b), t1),
     [Ask(Planes2(b, a), {}, Planes2(a, Absent), t1) EXCEPT !.wellFormed = FALSE]}

MCRequests == FullRequests \union PartialRequests

MCSymmetry == Permutations(Promoters)
=============================================================================
