---------------------------- MODULE ReleaseStore ----------------------------
(***************************************************************************)
(* The v4 origin of src/release.rs and the promoters that work on it       *)
(* (src/promote.rs): `nixdeploy promote` and `nixdeploy recover` runs that *)
(* share one directory of immutable releases, one signed promotion journal *)
(* and one mutable stable channel, under one flock.                        *)
(*                                                                         *)
(* Every file operation that other processes can observe is a step of its  *)
(* own.  Between any two steps a run may stop: an I/O error returns        *)
(* without a terminal result, a kill does the same to the store, and the   *)
(* lock goes with the file descriptor either way.                          *)
(***************************************************************************)
EXTENDS DeploymentSets, Integers, Sequences

CONSTANTS
    Promoters,      \* processes that run promote or recover
    Requests,       \* the promotion requests they may be given
    RecoverOnly,    \* the order to run `nixdeploy recover`
    Free,           \* nobody holds the lock
    Missing,        \* no file at a path
    Garbage,        \* bytes that carry no valid signature
    NoBytes,        \* a local variable not assigned yet
    NoOutcome,      \* no terminal result
    MaxGenerations  \* no promotion is submitted past this generation

ASSUME RequestsAssumption == Requests \subseteq Request
ASSUME RecoverOnlyAssumption == RecoverOnly \notin Requests
ASSUME FreeAssumption == Free \notin Promoters
ASSUME MaxGenerationsAssumption == MaxGenerations \in Nat

(***************************************************************************)
(* The bytes of a signed release, and the journal record that names them.  *)
(* digest stands for releaseDigest, the hash of exactly those bytes.       *)
(***************************************************************************)
Bytes ==
    [set         : DeploymentSet,
     parent      : DeploymentSet \union {NoSet},
     publishedAt : Times]

PromotionRecord ==
    [generation : Nat \ {0},
     id         : DeploymentSet,
     previous   : DeploymentSet \union {NoSet},
     digest     : Bytes]

ASSUME MarksAssumption == {Missing, Garbage, NoBytes} \intersect Bytes = {}
ASSUME MissingAssumption == Missing # Garbage

Outcome ==
    [status     : {"promoted", "unchanged", "superseded", "rejected"},
     id         : DeploymentSet \union {NoSet},
     previous   : DeploymentSet \union {NoSet},
     generation : Nat]

ASSUME NoOutcomeAssumption == NoOutcome \notin Outcome

VARIABLES
    releases,    \* releases/<set-id>.json: the bytes, or Missing
    promotions,  \* promotions/<generation>-<set-id>.json: the records
    channel,     \* channels/stable.json
    lock,        \* the holder of .promotion.lock
    pc,          \* where each run stands
    req,         \* what each run was asked to do
    stable,      \* current_id, as promote read it under the lock
    bytes,       \* release_bytes: proposed, then those of the release file
    outcome      \* the outcome; on disk once the run is "done"

vars == <<releases, promotions, channel, lock, pc, req, stable, bytes, outcome>>

store == <<releases, promotions, channel>>
locals == <<stable, bytes>>

LockedSteps == {"recover", "repair", "decide", "release", "record", "publish"}
Steps == {"idle", "waiting", "report", "done"} \union LockedSteps

Init ==
    /\ releases = [s \in DeploymentSet |-> Missing]
    /\ promotions = {}
    /\ channel = Missing
    /\ lock = Free
    /\ pc = [p \in Promoters |-> "idle"]
    /\ req = [p \in Promoters |-> RecoverOnly]
    /\ stable = [p \in Promoters |-> NoSet]
    /\ bytes = [p \in Promoters |-> NoBytes]
    /\ outcome = [p \in Promoters |-> NoOutcome]

-----------------------------------------------------------------------------
(* The journal.                                                            *)

Latest ==
    CHOOSE r \in promotions : \A q \in promotions : q.generation <= r.generation

LatestGeneration == IF promotions = {} THEN 0 ELSE Latest.generation

LatestId == IF promotions = {} THEN NoSet ELSE Latest.id

(***************************************************************************)
(* What latest_record_with_key demands of the sorted journal: generations  *)
(* from 1 without gap or repetition, each record naming the one before.    *)
(***************************************************************************)
JournalVerifies ==
    /\ \A q, r \in promotions : q.generation = r.generation => q = r
    /\ \A r \in promotions :
          IF r.generation = 1
          THEN r.previous = NoSet
          ELSE \E q \in promotions : /\ q.generation = r.generation - 1
                                     /\ q.id = r.previous

(***************************************************************************)
(* What recover_locked demands of the release a record names before it     *)
(* restores it.                                                            *)
(***************************************************************************)
Recoverable(r) ==
    /\ releases[r.id] # Missing
    /\ releases[r.id] = r.digest
    /\ releases[r.id].set = r.id
    /\ releases[r.id].parent = r.previous

(* Only an unreadable channel is repaired, never an outdated one.          *)
UnreadableChannel(r) == channel \in {Missing, Garbage}

NeedsRepair(r) == channel # releases[r.id]

(* The channel's set, when a channel is there and its signature verifies.  *)
StableSet == IF channel = Missing THEN NoSet ELSE channel.set

-----------------------------------------------------------------------------
(* Starting and stopping.                                                  *)

(* The result file belongs to the request, so a new one starts without it. *)
Submit(p) ==
    /\ pc[p] \in {"idle", "done"}
    /\ \E r \in Requests \union {RecoverOnly} :
          /\ r # RecoverOnly => LatestGeneration < MaxGenerations
          /\ req' = [req EXCEPT ![p] = r]
    /\ pc' = [pc EXCEPT ![p] = "waiting"]
    /\ outcome' = [outcome EXCEPT ![p] = NoOutcome]
    /\ UNCHANGED <<store, lock, locals>>

(* flock on one descriptor per run, never contended.                       *)
LockIgnored == TRUE

LockFree == lock = Free

Acquire(p) ==
    /\ pc[p] = "waiting"
    /\ LockFree
    /\ lock' = p
    /\ pc' = [pc EXCEPT ![p] = "recover"]
    /\ UNCHANGED <<store, req, locals, outcome>>

(* An early return that forgets to unlock.                                 *)
KeepLock(p, step) ==
    /\ UNCHANGED lock
    /\ pc' = [pc EXCEPT ![p] = step]
    /\ stable' = [stable EXCEPT ![p] = NoSet]
    /\ bytes' = [bytes EXCEPT ![p] = NoBytes]

(* Every return of promote and recover drops the lock and its locals.      *)
Return(p, step) ==
    /\ lock' = Free
    /\ pc' = [pc EXCEPT ![p] = step]
    /\ stable' = [stable EXCEPT ![p] = NoSet]
    /\ bytes' = [bytes EXCEPT ![p] = NoBytes]

(* A storage or trust failure: no terminal result, nothing written.        *)
Fail(p) ==
    /\ Return(p, "idle")
    /\ UNCHANGED <<store, req, outcome>>

(***************************************************************************)
(* An I/O error at the next step of a run, or the death of its process.    *)
(* A write that took effect before its error was reported is the write     *)
(* followed by this step.                                                  *)
(***************************************************************************)
Abort(p) ==
    /\ pc[p] \notin {"idle", "done"}
    /\ lock' = IF lock = p THEN Free ELSE lock
    /\ pc' = [pc EXCEPT ![p] = "idle"]
    /\ stable' = [stable EXCEPT ![p] = NoSet]
    /\ bytes' = [bytes EXCEPT ![p] = NoBytes]
    /\ outcome' = [outcome EXCEPT ![p] = NoOutcome]
    /\ UNCHANGED <<store, req>>

-----------------------------------------------------------------------------
(* recover_locked, which opens every promote and is all of recover.        *)

Recovered(p) ==
    /\ IF req[p] = RecoverOnly
       THEN Return(p, "done")
       ELSE /\ pc' = [pc EXCEPT ![p] = "decide"]
            /\ UNCHANGED <<lock, locals>>
    /\ UNCHANGED <<releases, promotions, req, outcome>>

RecoverNothing(p) ==
    /\ pc[p] = "recover"
    /\ promotions = {}
    /\ Recovered(p)
    /\ UNCHANGED channel

RecoverIntact(p) ==
    /\ pc[p] = "recover"
    /\ promotions # {}
    /\ JournalVerifies
    /\ Recoverable(Latest)
    /\ ~NeedsRepair(Latest)
    /\ Recovered(p)
    /\ UNCHANGED channel

RecoverStale(p) ==
    /\ pc[p] = "recover"
    /\ promotions # {}
    /\ JournalVerifies
    /\ Recoverable(Latest)
    /\ NeedsRepair(Latest)
    /\ pc' = [pc EXCEPT ![p] = "repair"]
    /\ UNCHANGED <<store, lock, req, locals, outcome>>

RecoverRefuses(p) ==
    /\ pc[p] = "recover"
    /\ promotions # {}
    /\ ~(JournalVerifies /\ Recoverable(Latest))
    /\ Fail(p)

RepairChannel(p) ==
    /\ pc[p] = "repair"
    /\ channel' = releases[Latest.id]
    /\ Recovered(p)

-----------------------------------------------------------------------------
(* The decision, taken on what is read while the lock is held.             *)

Conclude(p, status, id, previous, generation) ==
    /\ outcome' = [outcome EXCEPT ![p] =
                     [status |-> status, id |-> id,
                      previous |-> previous, generation |-> generation]]
    /\ Return(p, "report")
    /\ UNCHANGED <<store, req>>

Deciding(p) == pc[p] = "decide" /\ channel # Garbage

(* Stable does not verify: every path of promote reads it, and fails.      *)
StableUntrusted(p) ==
    /\ pc[p] = "decide"
    /\ channel = Garbage
    /\ Fail(p)

Reject(p) ==
    /\ Deciding(p)
    /\ HasProblems(req[p])
    /\ Conclude(p, "rejected", NoSet, StableSet, 0)

KeepUnchanged(p) ==
    /\ Deciding(p)
    /\ ~HasProblems(req[p])
    /\ AlreadyPresent(StableSet, req[p])
    /\ Conclude(p, "unchanged", StableSet, StableSet, LatestGeneration)

Undecided(p) ==
    /\ Deciding(p)
    /\ ~HasProblems(req[p])
    /\ ~AlreadyPresent(StableSet, req[p])

(* Only a partial request with a base and a stable set may be rebased.     *)
Stale(r) == r.expectedBase # StableSet

Rebasable(r) == ~Full(r) /\ r.expectedBase # NoSet /\ StableSet # NoSet

(* read_release_with_key finds no trusted release of the expected base.    *)
BaseUntrusted(p) ==
    /\ Undecided(p)
    /\ Stale(req[p])
    /\ Rebasable(req[p])
    /\ releases[req[p].expectedBase] = Missing
    /\ Fail(p)

(* Last writer wins: a partial request is never stale.                     *)
RebasesAlways(r) == Rebasable(r) /\ releases[r.expectedBase] # Missing

MayRebase(r) ==
    /\ Rebasable(r)
    /\ releases[r.expectedBase] # Missing
    /\ SelectedLeavesUnchanged(r.expectedBase, StableSet, r)

Supersede(p) ==
    /\ Undecided(p)
    /\ Stale(req[p])
    /\ Rebasable(req[p]) => releases[req[p].expectedBase] # Missing
    /\ ~MayRebase(req[p])
    /\ Conclude(p, "superseded", NoSet, StableSet, 0)

Admitted(p) ==
    /\ Undecided(p)
    /\ Stale(req[p]) => MayRebase(req[p])

RejectWithoutStable(p) ==
    /\ Admitted(p)
    /\ ~Full(req[p])
    /\ StableSet = NoSet
    /\ Conclude(p, "rejected", NoSet, NoSet, 0)

(* Compose and sign; the parent of the release is the stable set.          *)
Compose(p) ==
    /\ Admitted(p)
    /\ Full(req[p]) \/ StableSet # NoSet
    /\ stable' = [stable EXCEPT ![p] = StableSet]
    /\ bytes' = [bytes EXCEPT ![p] =
                   [set         |-> Composed(StableSet, req[p]),
                    parent      |-> StableSet,
                    publishedAt |-> req[p].publishedAt]]
    /\ pc' = [pc EXCEPT ![p] = "release"]
    /\ UNCHANGED <<store, lock, req, outcome>>

-----------------------------------------------------------------------------
(* The writes: release, record, channel, and the caller's result file.     *)

WriteRelease(p) ==
    /\ pc[p] = "release"
    /\ releases[bytes[p].set] = Missing
    /\ releases' = [releases EXCEPT ![bytes[p].set] = bytes[p]]
    /\ pc' = [pc EXCEPT ![p] = "record"]
    /\ UNCHANGED <<promotions, channel, lock, req, locals, outcome>>

(* The journal is given the digest of the bytes proposed, not of the file. *)
ProposedBytes(p) == bytes[p]

ExistingBytes(p) == releases[bytes[p].set]

(* The release is on disk already: its existing bytes are the ones used.   *)
ReuseRelease(p) ==
    /\ pc[p] = "release"
    /\ releases[bytes[p].set] # Missing
    /\ bytes' = [bytes EXCEPT ![p] = ExistingBytes(p)]
    /\ pc' = [pc EXCEPT ![p] = "record"]
    /\ UNCHANGED <<store, lock, req, stable, outcome>>

(* Generations counted from zero.                                          *)
GenerationFromZero == IF promotions = {} THEN 0 ELSE Latest.generation + 1

NextGeneration == LatestGeneration + 1

(* The error of writing the record is dropped, and the run goes on.        *)
RecordErrorIgnored(p) ==
    /\ pc[p] = "record"
    /\ outcome' = [outcome EXCEPT ![p] =
                     [status |-> "promoted", id |-> bytes[p].set,
                      previous |-> stable[p], generation |-> NextGeneration]]
    /\ pc' = [pc EXCEPT ![p] = "publish"]
    /\ UNCHANGED <<store, lock, req, locals>>

WriteRecord(p) ==
    /\ pc[p] = "record"
    /\ promotions' = promotions \union
          {[generation |-> NextGeneration, id |-> bytes[p].set,
            previous |-> stable[p], digest |-> bytes[p]]}
    /\ outcome' = [outcome EXCEPT ![p] =
                     [status |-> "promoted", id |-> bytes[p].set,
                      previous |-> stable[p], generation |-> NextGeneration]]
    /\ pc' = [pc EXCEPT ![p] = "publish"]
    /\ UNCHANGED <<releases, channel, lock, req, locals>>

PublishChannel(p) ==
    /\ pc[p] = "publish"
    /\ channel' = bytes[p]
    /\ Return(p, "report")
    /\ UNCHANGED <<releases, promotions, req, outcome>>

(* promote.rs writes the result file after the store has dropped the lock. *)
WriteResult(p) ==
    /\ pc[p] = "report"
    /\ pc' = [pc EXCEPT ![p] = "done"]
    /\ UNCHANGED <<store, lock, req, locals, outcome>>

-----------------------------------------------------------------------------
(***************************************************************************)
(* The channel is the one mutable file of the origin.  Something outside   *)
(* the program removes it, or leaves bytes that do not verify, while no    *)
(* run holds the lock.                                                     *)
(***************************************************************************)
DamageChannel ==
    /\ lock = Free
    /\ channel' \in {Missing, Garbage}
    /\ UNCHANGED <<releases, promotions, lock, pc, req, locals, outcome>>

Recover(p) ==
    \/ RecoverNothing(p)
    \/ RecoverIntact(p)
    \/ RecoverStale(p)
    \/ RecoverRefuses(p)
    \/ RepairChannel(p)

Decide(p) ==
    \/ StableUntrusted(p)
    \/ Reject(p)
    \/ KeepUnchanged(p)
    \/ BaseUntrusted(p)
    \/ Supersede(p)
    \/ RejectWithoutStable(p)
    \/ Compose(p)

Write(p) ==
    \/ WriteRelease(p)
    \/ ReuseRelease(p)
    \/ WriteRecord(p)
    \/ PublishChannel(p)
    \/ WriteResult(p)

Run(p) == Recover(p) \/ Decide(p) \/ Write(p)

Next ==
    \/ \E p \in Promoters : Submit(p) \/ Acquire(p) \/ Run(p) \/ Abort(p)
    \/ DamageChannel

Spec == Init /\ [][Next]_vars

(***************************************************************************)
(* A run that can take its next step is scheduled; a flock that is freed   *)
(* again and again is eventually granted to each waiter.  Nothing obliges  *)
(* a queue owner to submit, and nothing obliges a run to fail.             *)
(***************************************************************************)
FairSpec ==
    /\ Spec
    /\ \A p \in Promoters : WF_vars(Run(p)) /\ SF_vars(Acquire(p))
-----------------------------------------------------------------------------
(***************************************************************************)
(* The types, and that the lock is held by exactly the run that is inside. *)
(***************************************************************************)
TypeOK ==
    /\ releases \in [DeploymentSet -> Bytes \union {Missing}]
    /\ promotions \subseteq PromotionRecord
    /\ channel \in Bytes \union {Missing, Garbage}
    /\ lock \in Promoters \union {Free}
    /\ pc \in [Promoters -> Steps]
    /\ req \in [Promoters -> Requests \union {RecoverOnly}]
    /\ stable \in [Promoters -> DeploymentSet \union {NoSet}]
    /\ bytes \in [Promoters -> Bytes \union {NoBytes}]
    /\ outcome \in [Promoters -> Outcome \union {NoOutcome}]

(***************************************************************************)
(* The journal a crash, a retry or a race of promoters leaves behind is    *)
(* one that latest_record_with_key accepts: contiguous generations, one    *)
(* record each, and every record continuing the one before it.             *)
(***************************************************************************)
JournalIsChain == JournalVerifies

(***************************************************************************)
(* Every record's release is on disk, names the record's set and has the   *)
(* bytes the record's digest commits to: the journal and the releases are  *)
(* enough to rebuild the channel, whichever run wrote the file first.      *)
(***************************************************************************)
JournalIsBacked ==
    \A r \in promotions : releases[r.id] = r.digest /\ r.digest.set = r.id

(***************************************************************************)
(* The channel never runs ahead of the journal: a host can only read a     *)
(* release the journal has recorded, so recovery never takes back what a   *)
(* host may have activated.                                                *)
(***************************************************************************)
ChannelIsJournaled ==
    channel \notin {Missing, Garbage} =>
        \E r \in promotions : channel = r.digest

(***************************************************************************)
(* No promotion is empty: a retry of what is already stable, after a crash *)
(* at any point, never adds a generation.                                  *)
(***************************************************************************)
EveryGenerationMoves == \A r \in promotions : r.id # r.previous

(***************************************************************************)
(* A terminal success tells the truth for good: the journal holds, at the  *)
(* generation reported, a set with every leaf the request selected (and    *)
(* nothing else, for a full request), whatever happened since.             *)
(***************************************************************************)
Carries(set, r) ==
    /\ AgreeOn(Selected(r), set, r.candidates)
    /\ Full(r) => set = r.candidates

SuccessIsJournaled ==
    \A p \in Promoters :
        /\ pc[p] \in {"report", "done"}
        /\ outcome[p] # NoOutcome
        /\ outcome[p].status \in {"promoted", "unchanged"}
        => \E r \in promotions : /\ r.generation = outcome[p].generation
                                 /\ r.id = outcome[p].id
                                 /\ Carries(r.id, req[p])

(***************************************************************************)
(* A new generation changes only leaves its own request selected, each     *)
(* from the value it had in the base that request was built against, and   *)
(* gives them the candidates' values: no promotion overwrites work its     *)
(* author had not seen, in any order of races, crashes and stale requests. *)
(***************************************************************************)
ComparesAndSwaps(p, r) ==
    \A l \in Leaves :
        r.id[l] # LatestId[l] =>
            /\ Full(req[p]) \/ l \in Selected(req[p])
            /\ r.id[l] = req[p].candidates[l]
            /\ LatestId[l] = req[p].expectedBase[l]

NoLostUpdate ==
    [][\A r \in promotions' \ promotions :
         promotions # {} =>
            \E p \in Promoters : pc[p] = "record" /\ ComparesAndSwaps(p, r)
      ]_promotions

(***************************************************************************)
(* Whenever a run writes the channel, it writes the newest generation the  *)
(* journal holds: no slow or recovering run puts an older set back.        *)
(***************************************************************************)
ChannelGetsNewest ==
    [][channel' \notin {Missing, Garbage} => channel' = Latest.digest]_channel

(***************************************************************************)
(* Every run that waits for the lock ends, with a terminal result or with  *)
(* an error: no path out of the critical section keeps the lock.           *)
(***************************************************************************)
EveryRunEnds ==
    \A p \in Promoters : pc[p] = "waiting" ~> pc[p] \in {"idle", "done"}

(***************************************************************************)
(* The origin implements the atomic channel of StableChannel: its history  *)
(* is the journal read in order of generation, and a promotion takes       *)
(* effect at the single step that links its record into the journal.  A    *)
(* run that rejects, supersedes, fails or recovers changes nothing.        *)
(***************************************************************************)
History ==
    [n \in 1..LatestGeneration |->
        (CHOOSE r \in promotions : r.generation = n).id]

Abstract == INSTANCE StableChannel WITH history <- History

ImplementsStableChannel == Abstract!Spec

-----------------------------------------------------------------------------
(***************************************************************************)
(* The inductive invariant: what each step of a run may rely on.           *)
(***************************************************************************)

(* The lock is held by the one run that is inside.                         *)
LockedRunIsAlone ==
    \A p \in Promoters : pc[p] \in LockedSteps <=> lock = p

HasNewest ==
    promotions # {} =>
        \E r \in promotions : \A q \in promotions : q.generation <= r.generation

ReleasesAreLocated ==
    \A s \in DeploymentSet : releases[s] # Missing => releases[s].set = s

(* What recovery leaves for the run that continues after it.               *)
Settled ==
    IF promotions = {} THEN channel \in {Missing, Garbage}
                       ELSE channel = Latest.digest

(* The locals of a run that has composed a release.                        *)
Composing(p) ==
    /\ bytes[p] \in Bytes
    /\ stable[p] = LatestId
    /\ bytes[p].set = Composed(stable[p], req[p])
    /\ Full(req[p]) \/ stable[p] # NoSet
    /\ ~AlreadyPresent(stable[p], req[p])
    /\ \/ req[p].expectedBase = stable[p]
       \/ /\ ~Full(req[p])
          /\ NoSet \notin {req[p].expectedBase, stable[p]}
          /\ SelectedLeavesUnchanged(req[p].expectedBase, stable[p], req[p])

Succeeded(p) ==
    /\ outcome[p] # NoOutcome
    /\ outcome[p].status \in {"promoted", "unchanged"}
    => \E r \in promotions : /\ r.generation = outcome[p].generation
                             /\ r.id = outcome[p].id
                             /\ Carries(r.id, req[p])

RunInv(p) ==
    /\ pc[p] \in {"waiting", "recover", "repair"} => outcome[p] = NoOutcome
    /\ pc[p] = "repair" => promotions # {}
    /\ pc[p] \in {"decide", "release", "record", "publish", "report"} =>
          req[p] \in Requests
    /\ pc[p] \in {"decide", "release", "record"} => Settled
    /\ pc[p] \in {"release", "record"} => Composing(p) /\ ~HasProblems(req[p])
    /\ pc[p] = "record" => releases[bytes[p].set] = bytes[p]
    /\ pc[p] = "publish" => promotions # {} /\ bytes[p] = Latest.digest
    /\ pc[p] \in {"publish", "report", "done"} => Succeeded(p)

IInv ==
    /\ TypeOK
    /\ LockedRunIsAlone
    /\ HasNewest
    /\ JournalVerifies
    /\ JournalIsBacked
    /\ EveryGenerationMoves
    /\ ReleasesAreLocated
    /\ ChannelIsJournaled
    /\ \A p \in Promoters : RunInv(p)

(***************************************************************************)
(* What docs/release-system.md says of recover: it restores stable from    *)
(* the exact immutable release named by the newest record of the journal.  *)
(***************************************************************************)
NewestIsRecoverable == promotions # {} => Recoverable(Latest)
=============================================================================
