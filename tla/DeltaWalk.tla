----------------------------- MODULE DeltaWalk -----------------------------
(***************************************************************************)
(* How a receiver sizes a change (src/delta.rs, and the steps of           *)
(* src/receive.rs around it): it learns its substituters from Nix, tests   *)
(* its own store query on the closure it runs, walks the closure of the    *)
(* target as far as the store lacks it, adds up what the substituters say  *)
(* of the missing paths, and compares the sum with the ceiling.            *)
(*                                                                         *)
(* The store is the machine's: other processes add paths to it, whole      *)
(* closures at a time, while the walk goes on.  Nothing is collected then. *)
(***************************************************************************)
EXTENDS Naturals, FiniteSets, Functions

CONSTANTS
    Paths,           \* store paths
    Target,          \* the signed target
    NoPath,          \* no path of the store
    References,      \* reference graphs: sets of [Paths -> SUBSET Paths]
    Sizes,           \* NarSize functions
    MaxBytes,        \* the largest u64
    Ceilings,        \* maxInplaceDeltaBytes
    NoCeiling,       \* the option's null
    MaxSubstituters  \* how many substituters Nix may be configured with

ASSUME PathsAssumption ==
    Target \in Paths /\ NoPath \notin Paths /\ IsFiniteSet(Paths)
ASSUME ReferencesAssumption == References \subseteq [Paths -> SUBSET Paths]
ASSUME BytesAssumption == MaxBytes \in Nat /\ Sizes \subseteq [Paths -> 0..MaxBytes]
ASSUME CeilingsAssumption ==
    Ceilings \subseteq 0..MaxBytes /\ NoCeiling \notin 0..MaxBytes
ASSUME SubstitutersAssumption == MaxSubstituters \in Nat

VARIABLES
    references,    \* what every path refers to
    size,          \* NarSize of every path
    current,       \* this machine's currentPath, NoPath outside the store
    ceiling,       \* this machine's maxInplaceDeltaBytes
    blind,         \* its store query says "does not exist" of every path
    present,       \* the valid paths of its store
    before,        \* history: the paths valid when the run began
    pc,            \* where the run is
    substituters,  \* how many Nix is configured with
    queue,         \* discovered and not yet looked at
    seen,          \* discovered
    hand,          \* the path whose narinfo is asked for
    asked,         \* how many substituters had no answer for it
    missing,       \* found missing, and counted
    total          \* their bytes

machine == <<references, size, current, ceiling, blind, before>>
walk == <<queue, seen, hand, asked, missing, total>>
vars == <<machine, present, pc, substituters, walk>>

Steps == {"config", "showConfig", "backstop", "walk", "narinfo"}
Verdicts == {"inPlace", "overCeiling", "failed"}

(* A valid path is complete: everything it refers to is valid too.         *)
ClosedUnder(set) == \A p \in set : references[p] \subseteq set

Init ==
    /\ references \in References
    /\ size \in Sizes
    /\ ceiling \in Ceilings \union {NoCeiling}
    /\ blind \in BOOLEAN
    /\ present \in {set \in SUBSET Paths : ClosedUnder(set)}
    /\ current \in present \union {NoPath}
    /\ before = present
    /\ pc = "config"
    /\ substituters = 0
    /\ queue = {Target}
    /\ seen = {Target}
    /\ hand = NoPath
    /\ asked = 0
    /\ missing = {}
    /\ total = 0

-----------------------------------------------------------------------------
(* The substituters, and the backstop.                                     *)

(* nix config show; a Nix that does not know it is asked the older way.    *)
AskConfig ==
    /\ pc = "config"
    /\ \/ pc' = "backstop" /\ substituters' \in 0..MaxSubstituters
       \/ pc' \in {"showConfig", "failed"} /\ UNCHANGED substituters
    /\ UNCHANGED <<machine, present, walk>>

AskShowConfig ==
    /\ pc = "showConfig"
    /\ \/ pc' = "backstop" /\ substituters' \in 0..MaxSubstituters
       \/ pc' = "failed" /\ UNCHANGED substituters
    /\ UNCHANGED <<machine, present, walk>>

(* is_present, when the query says anything of the path at all.            *)
ReadsPresent(p) == p \in present /\ ~blind

(* The query is not tested.                                                *)
TrustQuery ==
    /\ pc = "backstop"
    /\ pc' = "walk"
    /\ UNCHANGED <<machine, present, substituters, walk>>

(***************************************************************************)
(* The closure this machine runs is in its store.  A query that reads it   *)
(* as absent, or that fails, sizes nothing.                                *)
(***************************************************************************)
TestQuery ==
    /\ pc = "backstop"
    /\ \/ (current = NoPath \/ ReadsPresent(current)) /\ pc' = "walk"
       \/ current # NoPath /\ pc' = "failed"
    /\ UNCHANGED <<machine, present, substituters, walk>>

-----------------------------------------------------------------------------
(***************************************************************************)
(* The walk.  The code takes the paths in the order they were discovered;  *)
(* nothing below depends on it.                                            *)
(***************************************************************************)

(* A path that is there is not descended into.                             *)
SkipPresent(p) ==
    /\ pc = "walk" /\ p \in queue
    /\ ReadsPresent(p)
    /\ queue' = queue \ {p}
    /\ UNCHANGED <<machine, present, pc, substituters, seen, hand, asked, missing, total>>

TakeInHand(p) ==
    /\ pc' = "narinfo"
    /\ hand' = p
    /\ asked' = 0
    /\ queue' = queue \ {p}
    /\ UNCHANGED <<machine, present, substituters, seen, missing, total>>

(* Every non-zero exit of path-info counts as absence.                     *)
UnclearMeansAbsent(p) ==
    /\ pc = "walk" /\ p \in queue
    /\ TakeInHand(p)

(* path-info says that the path is not valid, or does not exist.           *)
LookUpMissing(p) ==
    /\ pc = "walk" /\ p \in queue
    /\ ~ReadsPresent(p)
    /\ TakeInHand(p)

(* path-info exits non-zero without saying that the path is absent.        *)
QueryFails(p) ==
    /\ pc = "walk" /\ p \in queue
    /\ pc' = "failed"
    /\ UNCHANGED <<machine, present, substituters, walk>>

(* A sum of u64 that wraps around.                                         *)
WrappingAdd(m, n) == (m + n) % (MaxBytes + 1)

SaturatingAdd(m, n) == IF m + n > MaxBytes THEN MaxBytes ELSE m + n

(* A reference is queued whenever it is met.                               *)
Met(refs) == refs

(* A reference is queued when it is met for the first time.                *)
Discovered(refs) == refs \ seen

(* The next substituter answers with a narinfo that parses.                *)
CountMissing ==
    /\ pc = "narinfo" /\ asked < substituters
    /\ pc' = "walk"
    /\ total' = SaturatingAdd(total, size[hand])
    /\ missing' = missing \union {hand}
    /\ queue' = queue \union Discovered(references[hand])
    /\ seen' = seen \union references[hand]
    /\ hand' = NoPath
    /\ asked' = 0
    /\ UNCHANGED <<machine, present, substituters>>

(* It cannot be reached, or does not have the path.                        *)
AskNextSubstituter ==
    /\ pc = "narinfo" /\ asked < substituters
    /\ asked' = asked + 1
    /\ UNCHANGED <<machine, present, pc, substituters, queue, seen, hand, missing, total>>

(***************************************************************************)
(* Its answer is no narinfo (no NarSize, or one that is not a number), or  *)
(* there is nobody left to ask.                                            *)
(***************************************************************************)
LookupFails ==
    /\ pc = "narinfo"
    /\ pc' = "failed"
    /\ UNCHANGED <<machine, present, substituters, walk>>

(* exceeds_ceiling                                                         *)
Exceeds(bytes) == ceiling # NoCeiling /\ bytes > ceiling

Decide ==
    /\ pc = "walk" /\ queue = {}
    /\ pc' = IF Exceeds(total) THEN "overCeiling" ELSE "inPlace"
    /\ UNCHANGED <<machine, present, substituters, walk>>

-----------------------------------------------------------------------------
(* Somebody else makes paths valid meanwhile.                              *)
StoreGains ==
    /\ pc \in Steps
    /\ \E set \in SUBSET Paths :
          /\ present \subseteq set /\ present # set
          /\ ClosedUnder(set)
          /\ present' = set
    /\ UNCHANGED <<machine, pc, substituters, walk>>

Sizing ==
    \/ AskConfig \/ AskShowConfig \/ TestQuery
    \/ \E p \in Paths : SkipPresent(p) \/ LookUpMissing(p) \/ QueryFails(p)
    \/ CountMissing \/ AskNextSubstituter \/ LookupFails \/ Decide

Next == Sizing \/ StoreGains

Spec == Init /\ [][Next]_vars

(* Every command and every request returns (FETCH_TIMEOUT).                *)
FairSpec == Spec /\ WF_vars(Sizing)

-----------------------------------------------------------------------------
TypeOK ==
    /\ references \in [Paths -> SUBSET Paths]
    /\ size \in [Paths -> 0..MaxBytes]
    /\ current \in Paths \union {NoPath}
    /\ ceiling \in 0..MaxBytes \union {NoCeiling}
    /\ blind \in BOOLEAN
    /\ present \in SUBSET Paths
    /\ before \in SUBSET Paths
    /\ pc \in Steps \union Verdicts
    /\ substituters \in 0..MaxSubstituters
    /\ queue \in SUBSET Paths
    /\ seen \in SUBSET Paths
    /\ hand \in Paths \union {NoPath}
    /\ asked \in 0..substituters
    /\ missing \in SUBSET Paths
    /\ total \in 0..MaxBytes

(* The smallest closed set around a path: its closure.                     *)
ClosureOf(p) ==
    {q \in Paths : \A set \in SUBSET Paths : p \in set /\ ClosedUnder(set) => q \in set}

(* What a store that has the given paths lacks of the target's closure.    *)
Lacking(paths) == ClosureOf(Target) \ paths

Measured == pc \in {"inPlace", "overCeiling"}

(***************************************************************************)
(* delta.rs, compute: the walk stops at every path it finds, and loses     *)
(* nothing by it.  What it counts lies between what the store lacked when  *)
(* the run began and what it lacks at the verdict, and is both of them     *)
(* when nobody touched the store.  (A query that reads everything as       *)
(* absent counts more, never less.)                                        *)
(***************************************************************************)
WalkIsExact ==
    Measured => /\ Lacking(present) \subseteq missing
                /\ missing \subseteq ClosureOf(Target)
                /\ ~blind => missing \subseteq Lacking(before)

Bytes(paths) == SumFunctionOnSet(size, paths)

(***************************************************************************)
(* receive.rs: no machine is asked to be replaced that could have changed  *)
(* in place, and none changes in place beyond its ceiling.  The comparison *)
(* is of u64, the bytes are not: the sum saturates.  (Nix renders no       *)
(* ceiling at the top of u64, and a machine whose currentPath is outside   *)
(* the store has no backstop against a blind query.)                       *)
(***************************************************************************)
VerdictIsRight ==
    ceiling # NoCeiling /\ ceiling < MaxBytes =>
        /\ pc = "inPlace" => Bytes(Lacking(present)) <= ceiling
        /\ pc = "overCeiling" /\ (blind => current # NoPath)
             => Bytes(Lacking(before)) > ceiling

(***************************************************************************)
(* The walk comes to a verdict, however the references run and whatever    *)
(* happens to the store meanwhile: delta.rs queues each path once.         *)
(***************************************************************************)
VerdictReached == <>(pc \in Verdicts)

-----------------------------------------------------------------------------
(* What the walk rests on: the inductive invariant.                        *)

(* A store that is valid stays complete, and only grows.                   *)
StoreIsComplete ==
    /\ ClosedUnder(present)
    /\ before \subseteq present
    /\ current \in before \union {NoPath}

(* A discovered path is queued, in hand, counted, or was found present.    *)
SeenIsAccounted ==
    /\ Target \in seen
    /\ queue \subseteq seen
    /\ missing \subseteq seen
    /\ hand # NoPath => hand \in seen
    /\ seen \subseteq queue \union missing \union present \union {hand}
    /\ \A p \in missing : references[p] \subseteq seen
    /\ pc \in {"config", "showConfig", "backstop"} => queue = {Target} /\ missing = {}

(* Nothing is counted twice: what waits has not been counted.              *)
CountedOnce ==
    /\ queue \intersect missing = {}
    /\ hand \notin queue \union missing

SeenIsClosure == seen \subseteq ClosureOf(Target)

(* A query that sees names as missing only what the store lacked at first. *)
MissingWasLacking ==
    ~blind => /\ missing \intersect before = {}
              /\ hand \notin before

(* Only a machine outside the store walks with a blind query.              *)
BlindStops == blind /\ current # NoPath => pc \in {"config", "showConfig", "backstop", "failed"}

(* A lookup is under way in its own step, and a verdict ends the walk.     *)
OneAtATime ==
    /\ pc = "narinfo" => hand # NoPath
    /\ pc \notin {"narinfo", "failed"} => hand = NoPath /\ asked = 0
    /\ Measured => queue = {}

(* The sum is that of the paths counted so far, or has saturated.          *)
TotalIsBytes == total = IF Bytes(missing) > MaxBytes THEN MaxBytes ELSE Bytes(missing)

(* The verdict is the comparison's.                                        *)
VerdictIsOfTotal ==
    /\ pc = "inPlace" => ~Exceeds(total)
    /\ pc = "overCeiling" => Exceeds(total)

IInv ==
    /\ TypeOK
    /\ StoreIsComplete
    /\ SeenIsAccounted
    /\ CountedOnce
    /\ SeenIsClosure
    /\ MissingWasLacking
    /\ BlindStops
    /\ OneAtATime
    /\ TotalIsBytes
    /\ VerdictIsOfTotal
=============================================================================
