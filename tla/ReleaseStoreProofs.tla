------------------------- MODULE ReleaseStoreProofs -------------------------
(***************************************************************************)
(* The safety of the origin for every fleet, every set of requests and     *)
(* every number of promoters.                                              *)
(***************************************************************************)
EXTENDS ReleaseStore, SequenceTheorems, TLAPS

LEMMA LatestFact ==
    ASSUME HasNewest, promotions # {}
    PROVE  /\ Latest \in promotions
           /\ \A q \in promotions : q.generation <= Latest.generation
BY DEF HasNewest, Latest

LEMMA SameJournal ==
    ASSUME promotions' = promotions
    PROVE  /\ Latest' = Latest
           /\ LatestId' = LatestId
           /\ LatestGeneration' = LatestGeneration
BY DEF Latest, LatestId, LatestGeneration

LEMMA LatestType ==
    ASSUME TypeOK, HasNewest
    PROVE  /\ LatestGeneration \in Nat
           /\ LatestId \in DeploymentSet \union {NoSet}
           /\ promotions # {} => /\ Latest \in promotions
                                 /\ Latest \in PromotionRecord
BY LatestFact DEF TypeOK, LatestGeneration, LatestId, PromotionRecord

LEMMA ComposedType ==
    ASSUME NEW r \in Request, NEW s \in DeploymentSet \union {NoSet},
           Full(r) \/ s # NoSet
    PROVE  Composed(s, r) \in DeploymentSet
BY DEF Composed, Request, DeploymentSet

LEMMA NewLatest ==
    ASSUME TypeOK, HasNewest, NEW rec \in PromotionRecord,
           rec.generation = LatestGeneration + 1,
           promotions' = promotions \union {rec}
    PROVE  /\ HasNewest'
           /\ Latest' = rec
           /\ promotions' # {}
           /\ \A q \in promotions : q.generation < rec.generation
<1>1. \A q \in promotions : q.generation < rec.generation
  <2>1. CASE promotions = {}
    BY <2>1
  <2>2. CASE promotions # {}
    BY <2>2, LatestFact DEF LatestGeneration, TypeOK, PromotionRecord
  <2> QED
    BY <2>1, <2>2
<1>2. \A q \in promotions' : q.generation <= rec.generation
  BY <1>1 DEF TypeOK, PromotionRecord
<1>3. HasNewest'
  BY <1>2 DEF HasNewest
<1>4. \A r \in promotions' :
        (\A q \in promotions' : q.generation <= r.generation) => r = rec
  BY <1>1 DEF TypeOK, PromotionRecord
<1>5. Latest' = rec
  BY <1>2, <1>4 DEF Latest
<1> QED
  BY <1>1, <1>3, <1>5

(***************************************************************************)
(* What the invariant says of the files holds as long as no file changes,  *)
(* and what it says of a run holds as long as its own locals do not.       *)
(***************************************************************************)
StoreInv ==
    /\ HasNewest
    /\ JournalVerifies
    /\ JournalIsBacked
    /\ EveryGenerationMoves
    /\ ReleasesAreLocated
    /\ ChannelIsJournaled

LEMMA StoreKept ==
    ASSUME StoreInv, UNCHANGED store
    PROVE  StoreInv'
BY DEF StoreInv, store, HasNewest, JournalVerifies, JournalIsBacked,
       EveryGenerationMoves, ReleasesAreLocated, ChannelIsJournaled

LEMMA RunKept ==
    ASSUME NEW p \in Promoters, RunInv(p), UNCHANGED store,
           pc'[p] = pc[p], req'[p] = req[p], stable'[p] = stable[p],
           bytes'[p] = bytes[p], outcome'[p] = outcome[p]
    PROVE  RunInv(p)'
<1>1. /\ releases' = releases
      /\ promotions' = promotions
      /\ channel' = channel
  BY DEF store
<1>2. Latest' = Latest /\ LatestId' = LatestId
  BY <1>1, SameJournal
<1>3. Settled' = Settled
  BY <1>1, <1>2 DEF Settled
<1>4. Composing(p)' = Composing(p)
  BY <1>2 DEF Composing
<1>5. Succeeded(p)' = Succeeded(p)
  BY <1>1 DEF Succeeded
<1> QED
  BY <1>1, <1>2, <1>3, <1>4, <1>5 DEF RunInv

LEMMA OutsideKept ==
    ASSUME NEW p \in Promoters, RunInv(p), pc[p] \in Steps \ LockedSteps,
           promotions \subseteq promotions',
           pc'[p] = pc[p], req'[p] = req[p], outcome'[p] = outcome[p]
    PROVE  RunInv(p)'
<1>1. Succeeded(p) => Succeeded(p)'
  BY DEF Succeeded
<1> QED
  BY <1>1 DEF RunInv, Steps, LockedSteps

(***************************************************************************)
(* The steps that leave the files alone and let the run of p return.       *)
(***************************************************************************)
LEMMA ReturnStep ==
    ASSUME IInv, NEW p \in Promoters, pc[p] \in LockedSteps,
           NEW step \in {"idle", "report", "done"}, Return(p, step),
           UNCHANGED <<store, req>>,
           \A q \in Promoters \ {p} : outcome'[q] = outcome[q],
           outcome' \in [Promoters -> Outcome \union {NoOutcome}],
           RunInv(p)'
    PROVE  IInv'
<1> USE DEF IInv
<1>1. /\ releases' = releases
      /\ promotions' = promotions
      /\ channel' = channel
  BY DEF store
<1>2. TypeOK'
  BY <1>1 DEF TypeOK, Return, Steps
<1>3. LockedRunIsAlone'
  BY FreeAssumption DEF LockedRunIsAlone, TypeOK, Return, LockedSteps
<1>4. StoreInv'
  BY StoreKept DEF StoreInv
<1>5. ASSUME NEW q \in Promoters, q # p
      PROVE  RunInv(q)'
  <2>1. /\ pc'[q] = pc[q]
        /\ req'[q] = req[q]
        /\ stable'[q] = stable[q]
        /\ bytes'[q] = bytes[q]
        /\ outcome'[q] = outcome[q]
    BY <1>5 DEF Return, TypeOK
  <2> QED
    BY <1>5, <2>1, RunKept
<1> QED
  BY <1>2, <1>3, <1>4, <1>5 DEF StoreInv

LEMMA FailStep ==
    ASSUME IInv, NEW p \in Promoters, pc[p] \in LockedSteps, Fail(p)
    PROVE  IInv'
<1>1. RunInv(p)'
  BY DEF RunInv, Fail, Return, IInv, TypeOK
<1> QED
  BY <1>1, ReturnStep DEF Fail, IInv, TypeOK

LEMMA ConcludeStep ==
    ASSUME IInv, NEW p \in Promoters, pc[p] = "decide",
           NEW status \in {"unchanged", "superseded", "rejected"},
           NEW id \in DeploymentSet \union {NoSet},
           NEW previous \in DeploymentSet \union {NoSet},
           NEW generation \in Nat,
           Conclude(p, status, id, previous, generation),
           status = "unchanged" =>
               \E r \in promotions : /\ r.generation = generation
                                     /\ r.id = id
                                     /\ Carries(r.id, req[p])
    PROVE  IInv'
<1> DEFINE o == [status |-> status, id |-> id,
                 previous |-> previous, generation |-> generation]
<1>1. o \in Outcome
  BY DEF Outcome
<1>2. /\ outcome' = [outcome EXCEPT ![p] = o]
      /\ outcome' \in [Promoters -> Outcome \union {NoOutcome}]
  BY <1>1 DEF Conclude, IInv, TypeOK
<1>3. /\ pc'[p] = "report"
      /\ req' = req
      /\ promotions' = promotions
      /\ req[p] \in Requests
  BY DEF Conclude, Return, store, IInv, TypeOK, RunInv
<1>4. Succeeded(p)'
  BY <1>2, <1>3 DEF Succeeded, IInv, TypeOK
<1>5. RunInv(p)'
  BY <1>3, <1>4 DEF RunInv
<1> QED
  BY <1>2, <1>5, ReturnStep DEF Conclude, LockedSteps, IInv, TypeOK

(***************************************************************************)
(* A decision reads the set of the newest record, because recovery has     *)
(* just put that record's bytes on the channel.                            *)
(***************************************************************************)
LEMMA StableIsLatest ==
    ASSUME IInv, NEW p \in Promoters, Deciding(p)
    PROVE  /\ StableSet = LatestId
           /\ StableSet \in DeploymentSet \union {NoSet}
           /\ StableSet # NoSet => promotions # {}
<1> USE DEF IInv
<1>1. Settled /\ pc[p] = "decide" /\ channel # Garbage
  BY DEF Deciding, RunInv
<1>2. CASE promotions = {}
  BY <1>1, <1>2 DEF Settled, StableSet, LatestId
<1>3. CASE promotions # {}
  <2>1. Latest \in promotions /\ Latest \in PromotionRecord
    BY <1>3, LatestType
  <2>2. channel = Latest.digest /\ channel \in Bytes /\ channel.set = Latest.id
    BY <1>1, <1>3, <2>1 DEF Settled, JournalIsBacked, PromotionRecord
  <2> QED
    BY <1>3, <2>1, <2>2, MarksAssumption
       DEF StableSet, LatestId, PromotionRecord
<1> QED
  BY <1>2, <1>3

LEMMA RequestType ==
    ASSUME IInv, NEW p \in Promoters,
           pc[p] \in {"decide", "release", "record", "publish", "report"}
    PROVE  req[p] \in Requests /\ req[p] \in Request
BY RequestsAssumption DEF IInv, RunInv

LEMMA SubmitStep ==
    ASSUME IInv, NEW p \in Promoters, Submit(p)
    PROVE  IInv'
<1> USE DEF IInv
<1>1. TypeOK'
  BY DEF TypeOK, Submit, store, locals, Steps
<1>2. LockedRunIsAlone'
  BY DEF LockedRunIsAlone, TypeOK, Submit, LockedSteps
<1>3. StoreInv'
  BY StoreKept DEF StoreInv, Submit
<1>4. RunInv(p)'
  BY DEF RunInv, Submit, TypeOK
<1>5. ASSUME NEW q \in Promoters, q # p
      PROVE  RunInv(q)'
  BY <1>5, RunKept DEF Submit, TypeOK, locals
<1> QED
  BY <1>1, <1>2, <1>3, <1>4, <1>5 DEF StoreInv

LEMMA AcquireStep ==
    ASSUME IInv, NEW p \in Promoters, Acquire(p)
    PROVE  IInv'
<1> USE DEF IInv
<1>1. TypeOK'
  BY DEF TypeOK, Acquire, store, locals, Steps, LockedSteps
<1>2. LockedRunIsAlone'
  BY FreeAssumption DEF LockedRunIsAlone, TypeOK, Acquire, LockFree, LockedSteps
<1>3. StoreInv'
  BY StoreKept DEF StoreInv, Acquire
<1>4. RunInv(p)'
  BY DEF RunInv, Acquire, TypeOK
<1>5. ASSUME NEW q \in Promoters, q # p
      PROVE  RunInv(q)'
  BY <1>5, RunKept DEF Acquire, TypeOK, locals
<1> QED
  BY <1>1, <1>2, <1>3, <1>4, <1>5 DEF StoreInv

LEMMA AbortStep ==
    ASSUME IInv, NEW p \in Promoters, Abort(p)
    PROVE  IInv'
<1> USE DEF IInv
<1>1. TypeOK'
  BY DEF TypeOK, Abort, store, Steps
<1>2. LockedRunIsAlone'
  BY FreeAssumption DEF LockedRunIsAlone, TypeOK, Abort, LockedSteps
<1>3. StoreInv'
  BY StoreKept DEF StoreInv, Abort
<1>4. RunInv(p)'
  BY DEF RunInv, Abort, TypeOK
<1>5. ASSUME NEW q \in Promoters, q # p
      PROVE  RunInv(q)'
  BY <1>5, RunKept DEF Abort, TypeOK
<1> QED
  BY <1>1, <1>2, <1>3, <1>4, <1>5 DEF StoreInv

(***************************************************************************)
(* recover_locked goes on, having left the newest record's bytes behind.   *)
(***************************************************************************)
LEMMA RecoveredStep ==
    ASSUME IInv, NEW p \in Promoters, pc[p] \in {"recover", "repair"},
           Recovered(p), Settled', StoreInv',
           channel' \in Bytes \union {Missing, Garbage}
    PROVE  IInv'
<1> USE DEF IInv
<1>1. /\ releases' = releases
      /\ promotions' = promotions
      /\ req' = req
      /\ outcome' = outcome
      /\ outcome[p] = NoOutcome
      /\ lock = p
  BY DEF Recovered, RunInv, LockedRunIsAlone, LockedSteps
<1>2. TypeOK'
  BY <1>1 DEF TypeOK, Recovered, Return, locals, Steps, LockedSteps
<1>3. LockedRunIsAlone'
  BY <1>1, FreeAssumption
     DEF LockedRunIsAlone, TypeOK, Recovered, Return, LockedSteps
<1>4. Succeeded(p)'
  BY <1>1 DEF Succeeded
<1>5. RunInv(p)'
  BY <1>1, <1>4 DEF RunInv, Recovered, Return, TypeOK
<1>6. ASSUME NEW q \in Promoters, q # p
      PROVE  RunInv(q)'
  <2>1. pc[q] \in Steps \ LockedSteps /\ pc'[q] = pc[q]
    BY <1>1, <1>6 DEF LockedRunIsAlone, TypeOK, Recovered, Return
  <2> QED
    BY <1>1, <2>1, OutsideKept
<1> QED
  BY <1>2, <1>3, <1>5, <1>6 DEF StoreInv

LEMMA RecoverStep ==
    ASSUME IInv, NEW p \in Promoters, Recover(p)
    PROVE  IInv'
<1> USE DEF IInv
<1>1. CASE RecoverNothing(p)
  <2>1. UNCHANGED store /\ StoreInv' /\ pc[p] = "recover" /\ Recovered(p)
    BY <1>1, StoreKept DEF RecoverNothing, Recovered, store, StoreInv
  <2>2. Settled'
    <3>1. channel \in {Missing, Garbage}
      BY <1>1 DEF RecoverNothing, ChannelIsJournaled
    <3> QED
      BY <1>1, <2>1, <3>1 DEF RecoverNothing, Settled, store
  <2> QED
    BY <2>1, <2>2, RecoveredStep DEF store, TypeOK
<1>2. CASE RecoverIntact(p)
  <2>1. UNCHANGED store /\ StoreInv' /\ pc[p] = "recover" /\ Recovered(p)
    BY <1>2, StoreKept DEF RecoverIntact, Recovered, store, StoreInv
  <2>2. Settled'
    <3>1. promotions # {} /\ channel = Latest.digest
      BY <1>2 DEF RecoverIntact, Recoverable, NeedsRepair
    <3> QED
      BY <2>1, <3>1, SameJournal DEF Settled, store
  <2> QED
    BY <2>1, <2>2, RecoveredStep DEF store, TypeOK
<1>3. CASE RecoverStale(p)
  <2>1. TypeOK'
    BY <1>3 DEF TypeOK, RecoverStale, store, locals, Steps, LockedSteps
  <2>2. LockedRunIsAlone'
    BY <1>3 DEF LockedRunIsAlone, TypeOK, RecoverStale, LockedSteps
  <2>3. StoreInv'
    BY <1>3, StoreKept DEF StoreInv, RecoverStale
  <2>4. RunInv(p)'
    BY <1>3 DEF RunInv, RecoverStale, TypeOK, store
  <2>5. ASSUME NEW q \in Promoters, q # p
        PROVE  RunInv(q)'
    BY <1>3, <2>5, RunKept DEF RecoverStale, TypeOK, locals
  <2> QED
    BY <2>1, <2>2, <2>3, <2>4, <2>5 DEF StoreInv
<1>4. CASE RecoverRefuses(p)
  BY <1>4, FailStep DEF RecoverRefuses, LockedSteps
<1>5. CASE RepairChannel(p)
  <2>1. /\ releases' = releases
        /\ promotions' = promotions
        /\ promotions # {}
    BY <1>5 DEF RepairChannel, Recovered, RunInv
  <2>2. /\ Latest \in promotions
        /\ Latest \in PromotionRecord
        /\ channel' = Latest.digest
    BY <1>5, <2>1, LatestType DEF RepairChannel, JournalIsBacked
  <2>3. Settled'
    BY <2>1, <2>2, SameJournal DEF Settled
  <2>4. StoreInv'
    BY <2>1, <2>2 DEF StoreInv, HasNewest, JournalVerifies, JournalIsBacked,
         EveryGenerationMoves, ReleasesAreLocated, ChannelIsJournaled
  <2> QED
    BY <1>5, <2>2, <2>3, <2>4, RecoveredStep
       DEF RepairChannel, PromotionRecord
<1> QED
  BY <1>1, <1>2, <1>3, <1>4, <1>5 DEF Recover

LEMMA ComposeStep ==
    ASSUME IInv, NEW p \in Promoters, Compose(p)
    PROVE  IInv'
<1> USE DEF IInv
<1> DEFINE set == Composed(StableSet, req[p])
           doc == [set |-> set, parent |-> StableSet,
                   publishedAt |-> req[p].publishedAt]
<1>1. Deciding(p) /\ pc[p] = "decide" /\ ~HasProblems(req[p])
  BY DEF Compose, Admitted, Undecided, Deciding
<1>2. req[p] \in Requests /\ req[p] \in Request
  BY <1>1, RequestType
<1>3. StableSet = LatestId /\ StableSet \in DeploymentSet \union {NoSet}
  BY <1>1, StableIsLatest
<1>4. Full(req[p]) \/ StableSet # NoSet
  BY DEF Compose
<1>5. set \in DeploymentSet
  BY <1>2, <1>3, <1>4, ComposedType
<1>6. doc \in Bytes
  BY <1>2, <1>3, <1>5 DEF Bytes, Request
<1>7. /\ bytes' = [bytes EXCEPT ![p] = doc]
      /\ stable' = [stable EXCEPT ![p] = StableSet]
      /\ pc' = [pc EXCEPT ![p] = "release"]
      /\ UNCHANGED <<store, lock, req, outcome>>
  BY DEF Compose
<1>8. TypeOK'
  BY <1>3, <1>6, <1>7 DEF TypeOK, store, Steps, LockedSteps
<1>9. LockedRunIsAlone'
  BY <1>1, <1>7 DEF LockedRunIsAlone, TypeOK, LockedSteps
<1>10. StoreInv'
  BY <1>7, StoreKept DEF StoreInv
<1>11. /\ bytes'[p] = doc
       /\ stable'[p] = StableSet
       /\ req'[p] = req[p]
       /\ pc'[p] = "release"
  BY <1>7 DEF TypeOK
<1>12. Latest' = Latest /\ LatestId' = LatestId
  BY <1>7, SameJournal DEF store
<1>13. Composing(p)'
  <2>1. /\ bytes'[p] \in Bytes
        /\ stable'[p] = LatestId'
        /\ bytes'[p].set = Composed(stable'[p], req'[p])
        /\ Full(req'[p]) \/ stable'[p] # NoSet
    BY <1>3, <1>4, <1>6, <1>11, <1>12
  <2>2. ~AlreadyPresent(stable'[p], req'[p])
    BY <1>11 DEF Compose, Admitted, Undecided
  <2>3. \/ req[p].expectedBase = StableSet
        \/ /\ ~Full(req[p])
           /\ NoSet \notin {req[p].expectedBase, StableSet}
           /\ SelectedLeavesUnchanged(req[p].expectedBase, StableSet, req[p])
    BY DEF Compose, Admitted, Stale, MayRebase, Rebasable
  <2> QED
    BY <1>11, <2>1, <2>2, <2>3 DEF Composing
<1>14. Settled'
  <2>1. Settled
    BY <1>1 DEF RunInv
  <2> QED
    BY <1>7, <1>12, <2>1 DEF Settled, store
<1>15. RunInv(p)'
  BY <1>1, <1>2, <1>11, <1>13, <1>14 DEF RunInv
<1>16. ASSUME NEW q \in Promoters, q # p
       PROVE  RunInv(q)'
  BY <1>7, <1>16, RunKept DEF TypeOK
<1> QED
  BY <1>8, <1>9, <1>10, <1>15, <1>16 DEF StoreInv

LEMMA DecideStep ==
    ASSUME IInv, NEW p \in Promoters, Decide(p)
    PROVE  IInv'
<1>1. CASE Deciding(p)
  <2> USE <1>1
  <2>1. /\ pc[p] = "decide"
        /\ StableSet = LatestId
        /\ StableSet \in DeploymentSet \union {NoSet}
        /\ LatestGeneration \in Nat
        /\ NoSet \in DeploymentSet \union {NoSet}
        /\ 0 \in Nat
    BY StableIsLatest, LatestType DEF Deciding, IInv
  <2>2. CASE Reject(p)
    BY <2>1, <2>2, ConcludeStep DEF Reject
  <2>3. CASE KeepUnchanged(p)
    <3>1. /\ promotions # {}
          /\ Latest \in promotions
          /\ StableSet = Latest.id
          /\ LatestGeneration = Latest.generation
      BY <2>1, <2>3, StableIsLatest, LatestType
         DEF IInv, KeepUnchanged, AlreadyPresent, LatestId, LatestGeneration
    <3>2. Carries(StableSet, req[p])
      BY <2>3 DEF KeepUnchanged, AlreadyPresent, Carries, AgreeOn
    <3> QED
      BY <2>1, <2>3, <3>1, <3>2, ConcludeStep DEF KeepUnchanged
  <2>4. CASE Supersede(p)
    BY <2>1, <2>4, ConcludeStep DEF Supersede
  <2>5. CASE RejectWithoutStable(p)
    BY <2>1, <2>5, ConcludeStep DEF RejectWithoutStable
  <2>6. CASE BaseUntrusted(p)
    BY <2>1, <2>6, FailStep DEF BaseUntrusted, LockedSteps
  <2>7. CASE Compose(p)
    BY <2>7, ComposeStep
  <2>8. CASE StableUntrusted(p)
    BY <2>8 DEF StableUntrusted, Deciding
  <2> QED
    BY <2>2, <2>3, <2>4, <2>5, <2>6, <2>7, <2>8 DEF Decide
<1>2. CASE ~Deciding(p)
  <2>1. StableUntrusted(p)
    BY <1>2 DEF Decide, Reject, KeepUnchanged, Undecided, Admitted, BaseUntrusted,
         Supersede, RejectWithoutStable, Compose
  <2> QED
    BY <2>1, FailStep DEF StableUntrusted, LockedSteps
<1> QED
  BY <1>1, <1>2

(***************************************************************************)
(* A composition that is not already present is a different set, so a      *)
(* promotion always moves the channel.                                     *)
(***************************************************************************)
LEMMA ComposedMoves ==
    ASSUME NEW r \in Request, NEW s \in DeploymentSet \union {NoSet},
           Full(r) \/ s # NoSet, ~AlreadyPresent(s, r)
    PROVE  Composed(s, r) # s
<1>1. CASE s = NoSet
  BY <1>1, ComposedType, NoSetAssumption
<1>2. CASE s # NoSet /\ Full(r)
  BY <1>2 DEF AlreadyPresent, Composed
<1>3. CASE s # NoSet /\ ~Full(r)
  <2>1. PICK l \in Selected(r) : s[l] # r.candidates[l]
    BY <1>3 DEF AlreadyPresent, AgreeOn
  <2>2. l \in Leaves
    BY DEF Selected, LeavesOf
  <2> QED
    BY <1>3, <2>1, <2>2 DEF Composed
<1> QED
  BY <1>1, <1>2, <1>3

(* The composition holds what the request selected.                        *)
LEMMA ComposedCarries ==
    ASSUME NEW r \in Request, NEW s
    PROVE  Carries(Composed(s, r), r)
BY DEF Carries, Composed, AgreeOn, Selected, LeavesOf

(***************************************************************************)
(* A step of the lock holder p: every other run is outside.                *)
(***************************************************************************)
LEMMA OthersOutside ==
    ASSUME IInv, NEW p \in Promoters, pc[p] \in LockedSteps,
           promotions \subseteq promotions', req' = req,
           \A q \in Promoters \ {p} : pc'[q] = pc[q] /\ outcome'[q] = outcome[q]
    PROVE  \A q \in Promoters \ {p} : RunInv(q)'
<1> SUFFICES ASSUME NEW q \in Promoters \ {p} PROVE RunInv(q)'
  OBVIOUS
<1>1. pc[q] \in Steps \ LockedSteps
  BY DEF IInv, LockedRunIsAlone, TypeOK
<1> QED
  BY <1>1, OutsideKept DEF IInv

LEMMA ReleaseStep ==
    ASSUME IInv, NEW p \in Promoters, WriteRelease(p) \/ ReuseRelease(p)
    PROVE  IInv'
<1> USE DEF IInv
<1>1. /\ pc[p] = "release"
      /\ bytes[p] \in Bytes
      /\ bytes[p].set \in DeploymentSet
      /\ stable[p] = LatestId
      /\ Composing(p)
      /\ Settled
      /\ ~HasProblems(req[p])
      /\ req[p] \in Requests
  BY DEF WriteRelease, ReuseRelease, RunInv, Composing, Bytes
<1>2. /\ promotions' = promotions
      /\ channel' = channel
      /\ lock' = lock
      /\ req' = req
      /\ stable' = stable
      /\ outcome' = outcome
      /\ pc' = [pc EXCEPT ![p] = "record"]
  BY DEF WriteRelease, ReuseRelease, store, locals
<1>3. /\ releases' \in [DeploymentSet -> Bytes \union {Missing}]
      /\ bytes' \in [Promoters -> Bytes \union {NoBytes}]
      /\ bytes'[p] \in Bytes
      /\ bytes'[p].set = bytes[p].set
      /\ releases'[bytes[p].set] = bytes'[p]
      /\ \A q \in Promoters \ {p} : bytes'[q] = bytes[q]
      /\ \A s \in DeploymentSet : releases[s] # Missing => releases'[s] = releases[s]
      /\ ReleasesAreLocated'
  <2>1. CASE WriteRelease(p)
    BY <1>1, <2>1 DEF WriteRelease, locals, TypeOK, ReleasesAreLocated
  <2>2. CASE ReuseRelease(p)
    <3>1. /\ releases[bytes[p].set] \in Bytes
          /\ releases[bytes[p].set].set = bytes[p].set
      BY <1>1, <2>2 DEF ReuseRelease, TypeOK, ReleasesAreLocated
    <3> QED
      BY <1>1, <2>2, <3>1
         DEF ReuseRelease, ExistingBytes, store, TypeOK, ReleasesAreLocated
  <2> QED
    BY <2>1, <2>2
<1>4. TypeOK'
  BY <1>2, <1>3 DEF TypeOK, Steps, LockedSteps
<1>5. LockedRunIsAlone'
  BY <1>1, <1>2 DEF LockedRunIsAlone, TypeOK, LockedSteps
<1>6. /\ Latest' = Latest
      /\ LatestId' = LatestId
  BY <1>2, SameJournal
<1>7. JournalIsBacked'
  <2>1. \A r \in promotions : r.id \in DeploymentSet /\ r.digest \in Bytes
    BY DEF TypeOK, PromotionRecord
  <2> QED
    BY <1>2, <1>3, <2>1, MarksAssumption DEF JournalIsBacked
<1>8. StoreInv'
  BY <1>2, <1>3, <1>7 DEF StoreInv, HasNewest, JournalVerifies,
       EveryGenerationMoves, ChannelIsJournaled
<1>9. Composing(p)'
  BY <1>1, <1>2, <1>3, <1>6 DEF Composing
<1>10. Settled'
  BY <1>1, <1>2, <1>6 DEF Settled
<1>11. RunInv(p)'
  BY <1>1, <1>2, <1>3, <1>9, <1>10 DEF RunInv, TypeOK
<1>12. \A q \in Promoters \ {p} : RunInv(q)'
  BY <1>1, <1>2, OthersOutside DEF TypeOK, LockedSteps
<1> QED
  BY <1>4, <1>5, <1>8, <1>11, <1>12 DEF StoreInv

LEMMA RecordStep ==
    ASSUME IInv, NEW p \in Promoters, WriteRecord(p)
    PROVE  IInv'
<1> USE DEF IInv
<1> DEFINE rec == [generation |-> NextGeneration, id |-> bytes[p].set,
                   previous |-> stable[p], digest |-> bytes[p]]
           o == [status |-> "promoted", id |-> bytes[p].set,
                 previous |-> stable[p], generation |-> NextGeneration]
<1>1. /\ pc[p] = "record"
      /\ bytes[p] \in Bytes
      /\ bytes[p].set \in DeploymentSet
      /\ stable[p] = LatestId
      /\ stable[p] \in DeploymentSet \union {NoSet}
      /\ Composing(p)
      /\ releases[bytes[p].set] = bytes[p]
      /\ req[p] \in Requests
      /\ req[p] \in Request
  BY RequestsAssumption
     DEF WriteRecord, RunInv, Composing, Bytes, TypeOK
<1>2. /\ promotions' = promotions \union {rec}
      /\ outcome' = [outcome EXCEPT ![p] = o]
      /\ pc' = [pc EXCEPT ![p] = "publish"]
      /\ UNCHANGED <<releases, channel, lock, req, stable, bytes>>
  BY DEF WriteRecord, locals
<1>3. LatestGeneration \in Nat /\ NextGeneration = LatestGeneration + 1
  BY LatestType DEF NextGeneration
<1>4. rec \in PromotionRecord /\ o \in Outcome
  BY <1>1, <1>3 DEF PromotionRecord, Outcome
<1>5. /\ HasNewest'
      /\ Latest' = rec
      /\ promotions' # {}
      /\ \A q \in promotions : q.generation < rec.generation
  BY <1>2, <1>3, <1>4, NewLatest
<1>6. TypeOK'
  BY <1>2, <1>4 DEF TypeOK, Steps, LockedSteps
<1>7. LockedRunIsAlone'
  BY <1>1, <1>2 DEF LockedRunIsAlone, TypeOK, LockedSteps
<1>8. JournalVerifies'
  <2>1. \A q, r \in promotions' : q.generation = r.generation => q = r
    BY <1>2, <1>5 DEF JournalVerifies, TypeOK, PromotionRecord
  <2>2. CASE promotions = {}
    BY <1>1, <1>2, <1>3, <2>1, <2>2
       DEF JournalVerifies, LatestId, LatestGeneration
  <2>3. CASE promotions # {}
    <3>1. /\ Latest \in promotions
          /\ Latest \in PromotionRecord
          /\ rec.previous = Latest.id
          /\ rec.generation = Latest.generation + 1
      BY <1>1, <1>3, <2>3, LatestType DEF LatestId, LatestGeneration
    <3>2. /\ rec.generation # 1
          /\ Latest \in promotions'
          /\ Latest.generation = rec.generation - 1
      BY <1>2, <3>1 DEF PromotionRecord
    <3> QED
      BY <1>2, <2>1, <3>1, <3>2 DEF JournalVerifies
  <2> QED
    BY <2>2, <2>3
<1>9. JournalIsBacked' /\ ReleasesAreLocated' /\ ChannelIsJournaled'
  BY <1>1, <1>2 DEF JournalIsBacked, ReleasesAreLocated, ChannelIsJournaled
<1>10. EveryGenerationMoves'
  <2>1. bytes[p].set # stable[p]
    BY <1>1, ComposedMoves DEF Composing
  <2> QED
    BY <1>2, <2>1 DEF EveryGenerationMoves
<1>11. Succeeded(p)'
  <2>1. Carries(rec.id, req[p])
    BY <1>1, ComposedCarries DEF Composing
  <2>2. outcome'[p] = o /\ rec \in promotions' /\ req' = req
    BY <1>2 DEF TypeOK
  <2> QED
    BY <2>1, <2>2 DEF Succeeded
<1>12. RunInv(p)'
  BY <1>1, <1>2, <1>5, <1>11 DEF RunInv, TypeOK
<1>13. \A q \in Promoters \ {p} : RunInv(q)'
  BY <1>1, <1>2, OthersOutside DEF TypeOK, LockedSteps
<1> QED
  BY <1>5, <1>6, <1>7, <1>8, <1>9, <1>10, <1>12, <1>13

LEMMA PublishStep ==
    ASSUME IInv, NEW p \in Promoters, PublishChannel(p)
    PROVE  IInv'
<1> USE DEF IInv
<1>1. /\ pc[p] = "publish"
      /\ promotions # {}
      /\ bytes[p] = Latest.digest
      /\ Succeeded(p)
      /\ req[p] \in Requests
  BY DEF PublishChannel, RunInv
<1>2. /\ Latest \in promotions
      /\ bytes[p] \in Bytes
  BY <1>1, LatestType DEF PromotionRecord
<1>3. /\ channel' = bytes[p]
      /\ Return(p, "report")
      /\ UNCHANGED <<releases, promotions, req, outcome>>
  BY DEF PublishChannel
<1>4. TypeOK'
  BY <1>2, <1>3 DEF TypeOK, Return, Steps
<1>5. LockedRunIsAlone'
  BY <1>1, <1>3, FreeAssumption DEF LockedRunIsAlone, TypeOK, Return, LockedSteps
<1>6. StoreInv'
  BY <1>1, <1>2, <1>3 DEF StoreInv, HasNewest, JournalVerifies, JournalIsBacked,
       EveryGenerationMoves, ReleasesAreLocated, ChannelIsJournaled
<1>7. RunInv(p)'
  BY <1>1, <1>3 DEF RunInv, Return, TypeOK, Succeeded
<1>8. \A q \in Promoters \ {p} : RunInv(q)'
  BY <1>1, <1>3, OthersOutside DEF TypeOK, Return, LockedSteps
<1> QED
  BY <1>4, <1>5, <1>6, <1>7, <1>8 DEF StoreInv

LEMMA ResultStep ==
    ASSUME IInv, NEW p \in Promoters, WriteResult(p)
    PROVE  IInv'
<1> USE DEF IInv
<1>1. TypeOK'
  BY DEF TypeOK, WriteResult, store, locals, Steps
<1>2. LockedRunIsAlone'
  BY DEF LockedRunIsAlone, TypeOK, WriteResult, LockedSteps
<1>3. StoreInv'
  BY StoreKept DEF StoreInv, WriteResult
<1>4. RunInv(p)'
  BY DEF RunInv, WriteResult, TypeOK, Succeeded, store
<1>5. ASSUME NEW q \in Promoters, q # p
      PROVE  RunInv(q)'
  BY <1>5, RunKept DEF WriteResult, TypeOK, locals
<1> QED
  BY <1>1, <1>2, <1>3, <1>4, <1>5 DEF StoreInv

LEMMA DamageStep ==
    ASSUME IInv, DamageChannel
    PROVE  IInv'
<1> USE DEF IInv
<1>1. TypeOK' /\ LockedRunIsAlone'
  BY DEF TypeOK, LockedRunIsAlone, DamageChannel, locals
<1>2. StoreInv'
  BY DEF StoreInv, DamageChannel, HasNewest, JournalVerifies, JournalIsBacked,
     EveryGenerationMoves, ReleasesAreLocated, ChannelIsJournaled
<1>3. ASSUME NEW q \in Promoters
      PROVE  RunInv(q)'
  <2>1. pc[q] \in Steps \ LockedSteps
    BY FreeAssumption DEF DamageChannel, LockedRunIsAlone, TypeOK
  <2> QED
    BY <2>1, OutsideKept DEF DamageChannel
<1> QED
  BY <1>1, <1>2, <1>3 DEF StoreInv

-----------------------------------------------------------------------------
(***************************************************************************)
(* The invariant, and the safety properties it yields.                     *)
(***************************************************************************)
LEMMA InvInit == Init => IInv
<1> SUFFICES ASSUME Init PROVE IInv
  OBVIOUS
<1>1. TypeOK /\ LockedRunIsAlone
  BY FreeAssumption DEF Init, TypeOK, LockedRunIsAlone, Steps, LockedSteps
<1>2. StoreInv
  BY DEF Init, StoreInv, HasNewest, JournalVerifies, JournalIsBacked,
     EveryGenerationMoves, ReleasesAreLocated, ChannelIsJournaled
<1>3. \A p \in Promoters : RunInv(p)
  BY DEF Init, RunInv
<1> QED
  BY <1>1, <1>2, <1>3 DEF IInv, StoreInv

LEMMA InvNext == IInv /\ [Next]_vars => IInv'
<1> SUFFICES ASSUME IInv, [Next]_vars PROVE IInv'
  OBVIOUS
<1>1. ASSUME NEW p \in Promoters, Submit(p) PROVE IInv'
  BY <1>1, SubmitStep
<1>2. ASSUME NEW p \in Promoters, Acquire(p) PROVE IInv'
  BY <1>2, AcquireStep
<1>3. ASSUME NEW p \in Promoters, Recover(p) PROVE IInv'
  BY <1>3, RecoverStep
<1>4. ASSUME NEW p \in Promoters, Decide(p) PROVE IInv'
  BY <1>4, DecideStep
<1>5. ASSUME NEW p \in Promoters, Write(p) PROVE IInv'
  BY <1>5, ReleaseStep, RecordStep, PublishStep, ResultStep DEF Write
<1>6. ASSUME NEW p \in Promoters, Abort(p) PROVE IInv'
  BY <1>6, AbortStep
<1>7. CASE DamageChannel
  BY <1>7, DamageStep
<1>8. CASE UNCHANGED vars
  <2>1. /\ UNCHANGED store
        /\ lock' = lock
        /\ pc' = pc
        /\ req' = req
        /\ stable' = stable
        /\ bytes' = bytes
        /\ outcome' = outcome
    BY <1>8 DEF vars, store
  <2>2. TypeOK' /\ LockedRunIsAlone'
    BY <2>1 DEF IInv, TypeOK, LockedRunIsAlone, store
  <2>3. StoreInv'
    BY <2>1, StoreKept DEF IInv, StoreInv
  <2>4. \A p \in Promoters : RunInv(p)'
    BY <2>1, RunKept DEF IInv
  <2> QED
    BY <2>2, <2>3, <2>4 DEF IInv, StoreInv
<1> QED
  BY <1>1, <1>2, <1>3, <1>4, <1>5, <1>6, <1>7, <1>8 DEF Next, Run

(***************************************************************************)
(* The inductive invariant holds in every reachable state of the origin.   *)
(***************************************************************************)
THEOREM Invariance == Spec => []IInv
BY InvInit, InvNext, PTL DEF Spec

(***************************************************************************)
(* Every variable keeps its type, for any fleet and any promoters.         *)
(***************************************************************************)
THEOREM TypeCorrect == Spec => []TypeOK
<1>1. IInv => TypeOK
  BY DEF IInv
<1> QED
  BY <1>1, Invariance, PTL

(***************************************************************************)
(* latest_record_with_key always accepts the journal: whatever crashes,    *)
(* retries and races, generations are contiguous and each record continues *)
(* the one before it.                                                      *)
(***************************************************************************)
THEOREM ChainAlways == Spec => []JournalIsChain
<1>1. IInv => JournalIsChain
  BY DEF IInv, JournalIsChain
<1> QED
  BY <1>1, Invariance, PTL

(***************************************************************************)
(* The releases on disk always match the digests the journal commits to.   *)
(***************************************************************************)
THEOREM BackedAlways == Spec => []JournalIsBacked
<1>1. IInv => JournalIsBacked
  BY DEF IInv
<1> QED
  BY <1>1, Invariance, PTL

(***************************************************************************)
(* Hosts only ever read releases the journal has recorded.                 *)
(***************************************************************************)
THEOREM JournaledAlways == Spec => []ChannelIsJournaled
<1>1. IInv => ChannelIsJournaled
  BY DEF IInv
<1> QED
  BY <1>1, Invariance, PTL

(***************************************************************************)
(* No retry adds a generation for what is already stable.                  *)
(***************************************************************************)
THEOREM MovesAlways == Spec => []EveryGenerationMoves
<1>1. IInv => EveryGenerationMoves
  BY DEF IInv
<1> QED
  BY <1>1, Invariance, PTL

(***************************************************************************)
(* A terminal success always names a journaled generation that carries     *)
(* what its request selected.                                              *)
(***************************************************************************)
THEOREM SuccessAlways == Spec => []SuccessIsJournaled
<1>1. IInv => SuccessIsJournaled
  BY DEF IInv, SuccessIsJournaled, RunInv, Succeeded
<1> QED
  BY <1>1, Invariance, PTL

(***************************************************************************)
(* Of all the conditions recovery demands of the newest record, only one   *)
(* can fail: the parent inside the release.  So a wedged origin is always  *)
(* one whose newest release was first written on another base.             *)
(***************************************************************************)
OnlyTheParentCanFail ==
    promotions # {} =>
        (Recoverable(Latest) <=> releases[Latest.id].parent = Latest.previous)

(* recover_locked: an origin it refuses was refused for the parent inside  *)
(* the newest release and for nothing else.                                *)
THEOREM WedgeHasOneCause == Spec => []OnlyTheParentCanFail
<1>1. IInv => OnlyTheParentCanFail
  <2> SUFFICES ASSUME IInv, promotions # {}
               PROVE  Recoverable(Latest) <=>
                          releases[Latest.id].parent = Latest.previous
    BY DEF OnlyTheParentCanFail
  <2>1. Latest \in promotions /\ Latest.digest \in Bytes
    BY LatestType DEF IInv, PromotionRecord
  <2>2. /\ releases[Latest.id] = Latest.digest
        /\ Latest.digest.set = Latest.id
    BY <2>1 DEF IInv, JournalIsBacked
  <2> QED
    BY <2>1, <2>2, MarksAssumption DEF Recoverable
<1> QED
  BY <1>1, Invariance, PTL

(***************************************************************************)
(* Only the record step adds to the journal.                               *)
(***************************************************************************)
LEMMA JournalGrows ==
    ASSUME [Next]_vars
    PROVE  promotions' = promotions \/ \E p \in Promoters : WriteRecord(p)
BY DEF Next, vars, store, Submit, Acquire, Run, Recover, Decide, Write, Abort,
   DamageChannel, RecoverNothing, RecoverIntact, RecoverStale, RecoverRefuses,
   RepairChannel, Recovered, Fail, StableUntrusted, Reject, KeepUnchanged,
   BaseUntrusted, Supersede, RejectWithoutStable, Compose, Conclude,
   WriteRelease, ReuseRelease, PublishChannel, WriteResult

(***************************************************************************)
(* A promotion changes only leaves its request selected, each from the     *)
(* value its base had: no update is lost to a stale or racing request.     *)
(***************************************************************************)
THEOREM NoUpdateLost == Spec => NoLostUpdate
<1> DEFINE A == \A r \in promotions' \ promotions :
                  promotions # {} =>
                    \E p \in Promoters : pc[p] = "record" /\ ComparesAndSwaps(p, r)
<1>1. IInv /\ [Next]_vars => [A]_promotions
  <2> SUFFICES ASSUME IInv, [Next]_vars,
                      NEW r \in promotions' \ promotions, promotions # {}
               PROVE  \E p \in Promoters : pc[p] = "record" /\ ComparesAndSwaps(p, r)
    OBVIOUS
  <2>1. PICK p \in Promoters : WriteRecord(p)
    BY JournalGrows
  <2>2. /\ pc[p] = "record"
        /\ r.id = bytes[p].set
        /\ Composing(p)
        /\ req[p] \in Request
    BY <2>1, RequestsAssumption DEF WriteRecord, IInv, RunInv
  <2>3. /\ r.id = Composed(LatestId, req[p])
        /\ \/ req[p].expectedBase = LatestId
           \/ /\ ~Full(req[p])
              /\ SelectedLeavesUnchanged(req[p].expectedBase, LatestId, req[p])
    BY <2>2 DEF Composing
  <2>4. ComparesAndSwaps(p, r)
    BY <2>2, <2>3
       DEF ComparesAndSwaps, Composed, SelectedLeavesUnchanged, AgreeOn
  <2> QED
    BY <2>2, <2>4
<1>2. Spec => [][A]_promotions
  BY <1>1, Invariance, PTL DEF Spec
<1> QED
  BY <1>2 DEF NoLostUpdate

(***************************************************************************)
(* A run that writes the channel writes the newest journaled generation.   *)
(***************************************************************************)
THEOREM NewestAlways == Spec => ChannelGetsNewest
<1> DEFINE A == channel' \notin {Missing, Garbage} => channel' = Latest.digest
<1>1. IInv /\ [Next]_vars => [A]_channel
  <2> SUFFICES ASSUME IInv, [Next]_vars, channel' # channel
               PROVE  channel' \in {Missing, Garbage} \/ channel' = Latest.digest
    OBVIOUS
  <2>1. \/ \E p \in Promoters : RepairChannel(p) \/ PublishChannel(p)
        \/ DamageChannel
    BY DEF Next, vars, store, Submit, Acquire, Run, Recover, Decide, Write, Abort,
       RecoverNothing, RecoverIntact, RecoverStale, RecoverRefuses, Fail,
       StableUntrusted, Reject, KeepUnchanged, BaseUntrusted, Supersede,
       RejectWithoutStable, Compose, Conclude, WriteRelease, ReuseRelease,
       WriteRecord, WriteResult
  <2>2. ASSUME NEW p \in Promoters, RepairChannel(p)
        PROVE  channel' = Latest.digest
    <3>1. promotions # {}
      BY <2>2 DEF RepairChannel, IInv, RunInv
    <3> QED
      BY <2>2, <3>1, LatestType DEF RepairChannel, IInv, JournalIsBacked
  <2>3. ASSUME NEW p \in Promoters, PublishChannel(p)
        PROVE  channel' = Latest.digest
    BY <2>3 DEF PublishChannel, IInv, RunInv
  <2> QED
    BY <2>1, <2>2, <2>3 DEF DamageChannel
<1>2. Spec => [][A]_channel
  BY <1>1, Invariance, PTL DEF Spec
<1> QED
  BY <1>2 DEF ChannelGetsNewest

-----------------------------------------------------------------------------
(***************************************************************************)
(* The origin implements the atomic channel.  History can be read off the  *)
(* journal because every generation up to the newest is there.             *)
(***************************************************************************)
Contiguous ==
    \A n \in 1..LatestGeneration : \E r \in promotions : r.generation = n

RecordAt(n) == CHOOSE r \in promotions : r.generation = n

LEMMA RecordAtFact ==
    ASSUME IInv, Contiguous, NEW n \in 1..LatestGeneration
    PROVE  /\ RecordAt(n) \in promotions
           /\ RecordAt(n).generation = n
           /\ RecordAt(n).id \in DeploymentSet
BY DEF Contiguous, RecordAt, IInv, TypeOK, PromotionRecord

LEMMA RecordedGeneration ==
    ASSUME IInv, NEW p \in Promoters, WriteRecord(p)
    PROVE  /\ LatestGeneration \in Nat
           /\ LatestGeneration' = LatestGeneration + 1
           /\ Latest' \in promotions'
           /\ promotions \subseteq promotions'
           /\ Latest'.generation = LatestGeneration + 1
           /\ Latest'.id = Composed(LatestId, req[p])
<1> DEFINE rec == [generation |-> NextGeneration, id |-> bytes[p].set,
                   previous |-> stable[p], digest |-> bytes[p]]
<1>1. LatestGeneration \in Nat
  BY LatestType DEF IInv
<1>2. Composing(p) /\ stable[p] \in DeploymentSet \union {NoSet}
  BY DEF IInv, RunInv, WriteRecord, TypeOK
<1>3. rec \in PromotionRecord
  BY <1>1, <1>2 DEF PromotionRecord, NextGeneration, Composing, Bytes
<1>4. promotions' = promotions \union {rec}
  BY DEF WriteRecord
<1>5. Latest' = rec /\ promotions' # {}
  BY <1>1, <1>3, <1>4, NewLatest DEF IInv, NextGeneration
<1> QED
  BY <1>1, <1>2, <1>4, <1>5 DEF LatestGeneration, NextGeneration, Composing

LEMMA ContiguousStep == IInv /\ Contiguous /\ [Next]_vars => Contiguous'
<1> SUFFICES ASSUME IInv, Contiguous, [Next]_vars PROVE Contiguous'
  OBVIOUS
<1>1. CASE promotions' = promotions
  BY <1>1, SameJournal DEF Contiguous
<1>2. ASSUME NEW p \in Promoters, WriteRecord(p) PROVE Contiguous'
  BY <1>2, RecordedGeneration DEF Contiguous
<1> QED
  BY <1>1, <1>2, JournalGrows

LEMMA ContiguousAlways == Spec => []Contiguous
<1>1. Init => Contiguous
  BY DEF Init, Contiguous, LatestGeneration
<1> QED
  BY <1>1, ContiguousStep, Invariance, PTL DEF Spec

LEMMA HistoryFact ==
    ASSUME IInv, Contiguous
    PROVE  /\ History \in Seq(DeploymentSet)
           /\ Len(History) = LatestGeneration
           /\ Abstract!StableOf(History) = LatestId
<1>1. LatestGeneration \in Nat
  BY LatestType DEF IInv
<1>2. History = [n \in 1..LatestGeneration |-> RecordAt(n).id]
  BY DEF History, RecordAt
<1>3. /\ History \in Seq(DeploymentSet)
      /\ Len(History) = LatestGeneration
  BY <1>1, <1>2, RecordAtFact
<1>4. CASE promotions = {}
  BY <1>3, <1>4 DEF Abstract!StableOf, LatestId, LatestGeneration
<1>5. CASE promotions # {}
  <2>1. /\ Latest \in promotions
        /\ LatestGeneration = Latest.generation
        /\ LatestGeneration \in 1..LatestGeneration
    BY <1>5, LatestType DEF IInv, LatestGeneration, PromotionRecord
  <2>2. RecordAt(LatestGeneration) = Latest
    BY <2>1, RecordAtFact DEF IInv, JournalVerifies
  <2> QED
    BY <1>1, <1>2, <1>3, <1>5, <2>1, <2>2 DEF Abstract!StableOf, LatestId
<1> QED
  BY <1>3, <1>4, <1>5

(* Both specifications read the same requests in the same way.             *)
LEMMA SameData ==
    ASSUME NEW r, NEW s, NEW t
    PROVE  /\ Abstract!Full(r) <=> Full(r)
           /\ Abstract!HasProblems(r) <=> HasProblems(r)
           /\ Abstract!AlreadyPresent(s, r) <=> AlreadyPresent(s, r)
           /\ Abstract!SelectedLeavesUnchanged(s, t, r)
                 <=> SelectedLeavesUnchanged(s, t, r)
           /\ Abstract!Composed(s, r) = Composed(s, r)
<1>1. Abstract!Leaves = Leaves
  BY DEF Abstract!Leaves, Leaves
<1>2. \A set : Abstract!LeavesOf(set) = LeavesOf(set)
  BY <1>1 DEF Abstract!LeavesOf, LeavesOf
<1>3. Abstract!Full(r) <=> Full(r)
  BY DEF Abstract!Full, Full
<1>4. Abstract!Selected(r) = Selected(r)
  BY <1>2 DEF Abstract!Selected, Selected
<1>5. Abstract!HasProblems(r) <=> HasProblems(r)
  BY <1>2, <1>4
     DEF Abstract!HasProblems, HasProblems, Abstract!SelectsNothing, SelectsNothing
<1>6. /\ Abstract!AlreadyPresent(s, r) <=> AlreadyPresent(s, r)
      /\ Abstract!SelectedLeavesUnchanged(s, t, r)
            <=> SelectedLeavesUnchanged(s, t, r)
  BY <1>3, <1>4
     DEF Abstract!AlreadyPresent, AlreadyPresent, Abstract!AgreeOn, AgreeOn,
         Abstract!SelectedLeavesUnchanged, SelectedLeavesUnchanged
<1>7. Abstract!Composed(s, r) = Composed(s, r)
  BY <1>1, <1>3, <1>4 DEF Abstract!Composed, Composed
<1> QED
  BY <1>3, <1>5, <1>6, <1>7

(* Writing a record is the abstract promotion of the run's request.        *)
LEMMA RecordIsPromotion ==
    ASSUME IInv, IInv', Contiguous, Contiguous', NEW p \in Promoters, WriteRecord(p)
    PROVE  req[p] \in Requests /\ Abstract!Promote(req[p])
<1>1. /\ req[p] \in Requests
      /\ Composing(p)
      /\ ~HasProblems(req[p])
  BY DEF WriteRecord, IInv, RunInv
<1>2. Abstract!Promotable(LatestId, req[p])
  BY <1>1, SameData DEF Composing, Abstract!Promotable, Abstract!Compares
<1>3. /\ History \in Seq(DeploymentSet)
      /\ Len(History) = LatestGeneration
      /\ Abstract!StableOf(History) = LatestId
  BY HistoryFact
<1>4. /\ LatestGeneration \in Nat
      /\ LatestGeneration' = LatestGeneration + 1
      /\ Latest' \in promotions'
      /\ promotions \subseteq promotions'
      /\ Latest'.generation = LatestGeneration + 1
      /\ Latest'.id = Composed(LatestId, req[p])
  BY RecordedGeneration
<1>5. \A n \in 1..(LatestGeneration + 1) :
        /\ RecordAt(n)' \in promotions'
        /\ RecordAt(n)'.generation = n
  BY <1>4 DEF Contiguous, RecordAt
<1>6. ASSUME NEW n \in 1..LatestGeneration
      PROVE  RecordAt(n)' = RecordAt(n)
  <2>1. RecordAt(n) \in promotions' /\ RecordAt(n).generation = n
    BY <1>4, RecordAtFact
  <2>2. RecordAt(n)' \in promotions' /\ RecordAt(n)'.generation = n
    BY <1>4, <1>5
  <2> QED
    BY <2>1, <2>2 DEF IInv, JournalVerifies
<1>7. RecordAt(LatestGeneration)' = Latest'
  <2>1. \A r \in promotions' : r.generation = LatestGeneration' => r = Latest'
    BY <1>4 DEF IInv, JournalVerifies
  <2> QED
    BY <1>4, <2>1 DEF RecordAt
<1>8. History' = [n \in 1..LatestGeneration' |-> RecordAt(n)'.id]
  BY DEF History, RecordAt
<1>9. History = [n \in 1..LatestGeneration |-> RecordAt(n).id]
  BY DEF History, RecordAt
<1>10. History' = Append(History, Composed(LatestId, req[p]))
  <2>1. \A n \in 1..LatestGeneration : History'[n] = History[n]
    BY <1>4, <1>6, <1>8, <1>9
  <2>2. History'[LatestGeneration'] = Composed(LatestId, req[p])
    BY <1>4, <1>7 DEF History, RecordAt
  <2>3. \A n \in 1..LatestGeneration' : RecordAt(n)'.id \in DeploymentSet
    BY <1>4, <1>5 DEF IInv, TypeOK, PromotionRecord
  <2>4. /\ History' \in Seq(DeploymentSet)
        /\ Len(History') = LatestGeneration + 1
    BY <1>4, <1>8, <2>3
  <2>5. Composed(LatestId, req[p]) \in DeploymentSet
    BY <1>4 DEF IInv, TypeOK, PromotionRecord
  <2> DEFINE extended == Append(History, Composed(LatestId, req[p]))
  <2>6. /\ extended \in Seq(DeploymentSet)
        /\ Len(extended) = LatestGeneration + 1
        /\ \A n \in 1..LatestGeneration : extended[n] = History[n]
        /\ extended[LatestGeneration + 1] = Composed(LatestId, req[p])
    BY <1>3, <2>5, AppendProperties
  <2>7. \A n \in 1..Len(History') : History'[n] = extended[n]
    BY <1>4, <2>1, <2>2, <2>4, <2>6
  <2> HIDE DEF extended
  <2>8. History' = extended
    BY <2>4, <2>6, <2>7, SeqEqual
  <2> QED
    BY <2>8 DEF extended
<1> QED
  BY <1>1, <1>2, <1>3, <1>10, SameData DEF Abstract!Promote

(***************************************************************************)
(* Every behaviour of the origin is one of the atomic channel: promotions  *)
(* take effect one at a time, each at its record step, and nothing else    *)
(* that any run does can be seen in the history.                           *)
(***************************************************************************)
THEOREM Refinement == Spec => ImplementsStableChannel
<1>1. Init => Abstract!Init
  BY DEF Init, Abstract!Init, History, LatestGeneration
<1>2. IInv /\ IInv' /\ Contiguous /\ Contiguous' /\ [Next]_vars
        => [Abstract!Next]_History
  <2> SUFFICES ASSUME IInv, IInv', Contiguous, Contiguous', [Next]_vars
               PROVE  [Abstract!Next]_History
    OBVIOUS
  <2>1. CASE promotions' = promotions
    BY <2>1, SameJournal DEF History
  <2>2. ASSUME NEW p \in Promoters, WriteRecord(p)
        PROVE  Abstract!Next
    BY <2>2, RecordIsPromotion DEF Abstract!Next
  <2> QED
    BY <2>1, <2>2, JournalGrows
<1> QED
  BY <1>1, <1>2, Invariance, ContiguousAlways, PTL
     DEF Spec, ImplementsStableChannel, Abstract!Spec

-----------------------------------------------------------------------------
(***************************************************************************)
(* The safety half of EveryRunEnds.  From the queue for the lock to its    *)
(* return a run has at most StepsToReturn of its place left, each step of  *)
(* its own uses one up and nobody else's gives it one back; and whoever    *)
(* holds the lock gives it back, in person or by dying: it is never taken  *)
(* over.                                                                   *)
(***************************************************************************)
StepsToReturn ==
    [idle |-> 0, done |-> 0, report |-> 1, publish |-> 2, record |-> 3, release |-> 4,
     decide |-> 5, repair |-> 6, recover |-> 7, waiting |-> 8]

PromotionIsFinite(p) ==
    /\ StepsToReturn[pc[p]] \in 0..8
    /\ pc[p] \in LockedSteps => StepsToReturn[pc[p]] \in 2..7 /\ lock = p
    /\ Acquire(p) \/ Run(p) => StepsToReturn[pc'[p]] < StepsToReturn[pc[p]]
    /\ pc[p] \notin {"idle", "done"} => StepsToReturn[pc'[p]] <= StepsToReturn[pc[p]]
    /\ lock = p /\ lock' # p => lock' = Free /\ StepsToReturn[pc'[p]] < 2

EveryPromotionIsFinite == [][\A p \in Promoters : PromotionIsFinite(p)]_vars

(* Where each step of a run goes, and what it does to the lock.            *)
LEMMA WhereRunsGo ==
    ASSUME IInv, NEW p \in Promoters, Run(p)
    PROVE  \/ pc[p] = "recover" /\ pc'[p] \in {"idle", "done", "decide", "repair"}
           \/ pc[p] = "repair" /\ pc'[p] \in {"done", "decide"}
           \/ pc[p] = "decide" /\ pc'[p] \in {"idle", "report", "release"}
           \/ pc[p] = "release" /\ pc'[p] = "record"
           \/ pc[p] = "record" /\ pc'[p] = "publish"
           \/ pc[p] = "publish" /\ pc'[p] = "report"
           \/ pc[p] = "report" /\ pc'[p] = "done"
<1> USE DEF IInv, TypeOK
<1>1. CASE Recover(p)
  BY <1>1 DEF Recover, RecoverNothing, RecoverIntact, RecoverStale, RecoverRefuses,
     RepairChannel, Recovered, Fail, Return
<1>2. CASE Decide(p)
  <2>1. pc[p] = "decide"
    BY <1>2 DEF Decide, StableUntrusted, Reject, KeepUnchanged, BaseUntrusted, Supersede,
       RejectWithoutStable, Compose, Admitted, Undecided, Deciding
  <2>2. pc' = [pc EXCEPT ![p] = "idle"] \/ pc' = [pc EXCEPT ![p] = "report"]
           \/ pc' = [pc EXCEPT ![p] = "release"]
    BY <1>2 DEF Decide, StableUntrusted, Reject, KeepUnchanged, BaseUntrusted, Supersede,
       RejectWithoutStable, Compose, Fail, Conclude, Return
  <2> QED
    BY <2>1, <2>2
<1>3. CASE Write(p)
  BY <1>3 DEF Write, WriteRelease, ReuseRelease, WriteRecord, PublishChannel, WriteResult,
     Return
<1> QED
  BY <1>1, <1>2, <1>3 DEF Run

(* A step of one run moves no other.                                       *)
LEMMA OthersStay ==
    ASSUME TypeOK, NEW p \in Promoters, NEW q \in Promoters, p # q,
           Submit(q) \/ Acquire(q) \/ Run(q) \/ Abort(q)
    PROVE  pc'[p] = pc[p]
<1> USE DEF TypeOK
<1>1. CASE Submit(q) \/ Acquire(q) \/ Abort(q)
  BY <1>1 DEF Submit, Acquire, Abort
<1>2. CASE Recover(q)
  BY <1>2 DEF Recover, RecoverNothing, RecoverIntact, RecoverStale, RecoverRefuses,
     RepairChannel, Recovered, Fail, Return
<1>3. CASE Decide(q)
  BY <1>3 DEF Decide, StableUntrusted, Reject, KeepUnchanged, BaseUntrusted, Supersede,
     RejectWithoutStable, Compose, Fail, Conclude, Return
<1>4. CASE Write(q)
  BY <1>4 DEF Write, WriteRelease, ReuseRelease, WriteRecord, PublishChannel, WriteResult,
     Return
<1> QED
  BY <1>1, <1>2, <1>3, <1>4 DEF Run

(***************************************************************************)
(* The lock leaves its holder by the holder's own return or death only,    *)
(* and the holder is outside its critical section then.                    *)
(***************************************************************************)
LEMMA LockIsGivenBack ==
    ASSUME IInv, IInv', Next, NEW p \in Promoters, lock = p, lock' # p
    PROVE  lock' = Free /\ pc'[p] \notin LockedSteps
<1>1. pc'[p] \notin LockedSteps
  BY DEF IInv, LockedRunIsAlone
<1>2. lock' = Free
  <2>1. ASSUME NEW q \in Promoters, Acquire(q)
        PROVE  FALSE
    BY <2>1, FreeAssumption DEF Acquire, LockFree
  <2>2. ASSUME NEW q \in Promoters, Submit(q) \/ Abort(q)
        PROVE  lock' \in {lock, Free}
    BY <2>2 DEF Submit, Abort
  <2>3. ASSUME NEW q \in Promoters, Run(q)
        PROVE  lock' \in {lock, Free}
    BY <2>3 DEF Run, Recover, Decide, Write, RecoverNothing, RecoverIntact, RecoverStale,
       RecoverRefuses, RepairChannel, Recovered, StableUntrusted, Reject, KeepUnchanged,
       BaseUntrusted, Supersede, RejectWithoutStable, Compose, WriteRelease, ReuseRelease,
       WriteRecord, PublishChannel, WriteResult, Fail, Conclude, Return
  <2> QED
    BY <2>1, <2>2, <2>3 DEF Next, DamageChannel
<1> QED
  BY <1>1, <1>2

(***************************************************************************)
(* For every fleet, any number of promoters and any requests: no promote   *)
(* and no recover goes on for ever, and none takes the lock from another.  *)
(***************************************************************************)
THEOREM PromotionsAreFinite == Spec => EveryPromotionIsFinite
<1>1. ASSUME IInv, IInv', Next, NEW p \in Promoters
      PROVE  PromotionIsFinite(p)
  <2>1. pc[p] \in Steps /\ pc'[p] \in Steps
    BY <1>1 DEF IInv, TypeOK
  <2>2. /\ \A step \in Steps : StepsToReturn[step] \in 0..8
        /\ \A step \in LockedSteps : StepsToReturn[step] \in 2..7
        /\ \A step \in Steps \ LockedSteps : step # "waiting" => StepsToReturn[step] < 2
    BY DEF StepsToReturn, Steps, LockedSteps
  <2>3. pc[p] \in LockedSteps <=> lock = p
    BY <1>1 DEF IInv, LockedRunIsAlone
  <2>4. Acquire(p) => StepsToReturn[pc'[p]] < StepsToReturn[pc[p]]
    BY <1>1 DEF Acquire, StepsToReturn, IInv, TypeOK
  <2>5. Run(p) => StepsToReturn[pc'[p]] < StepsToReturn[pc[p]]
    BY <1>1, WhereRunsGo DEF StepsToReturn
  <2>6. Abort(p) => pc'[p] = "idle"
    BY <1>1 DEF Abort, IInv, TypeOK
  <2>7. pc'[p] # "idle" /\ pc'[p] # pc[p] => Submit(p) \/ Acquire(p) \/ Run(p)
    <3>1. CASE DamageChannel
      BY <3>1 DEF DamageChannel
    <3>2. ASSUME NEW q \in Promoters, Submit(q) \/ Acquire(q) \/ Run(q) \/ Abort(q)
          PROVE  pc'[p] # "idle" /\ pc'[p] # pc[p] => Submit(p) \/ Acquire(p) \/ Run(p)
      BY <1>1, <2>6, <3>2, OthersStay DEF IInv
    <3> QED
      BY <1>1, <3>1, <3>2 DEF Next
  <2>8. Submit(p) => pc[p] \in {"idle", "done"}
    BY DEF Submit
  <2>9. pc[p] \notin {"idle", "done"} => StepsToReturn[pc'[p]] <= StepsToReturn[pc[p]]
    <3>1. CASE pc'[p] = "idle"
      BY <2>1, <2>2, <3>1 DEF StepsToReturn
    <3>2. CASE pc'[p] = pc[p]
      BY <2>1, <2>2, <3>2
    <3>3. CASE pc'[p] # "idle" /\ pc'[p] # pc[p]
      BY <2>1, <2>2, <2>4, <2>5, <2>7, <2>8, <3>3
    <3> QED
      BY <3>1, <3>2, <3>3
  <2>10. ASSUME lock = p, lock' # p
         PROVE  lock' = Free /\ StepsToReturn[pc'[p]] < 2
    <3>1. lock' = Free /\ pc'[p] \notin LockedSteps
      BY <1>1, <2>10, LockIsGivenBack
    <3>2. pc'[p] # "waiting"
      <4>1. pc[p] \in LockedSteps
        BY <2>3, <2>10
      <4>2. StepsToReturn[pc'[p]] <= 7
        BY <2>1, <2>2, <2>9, <4>1 DEF LockedSteps
      <4> QED
        BY <4>2 DEF StepsToReturn
    <3> QED
      BY <2>1, <2>2, <3>1, <3>2
  <2> QED
    BY <2>1, <2>2, <2>3, <2>4, <2>5, <2>9, <2>10 DEF PromotionIsFinite
<1>2. IInv /\ IInv' /\ [Next]_vars => [\A p \in Promoters : PromotionIsFinite(p)]_vars
  BY <1>1
<1> QED
  BY <1>2, Invariance, PTL DEF Spec, EveryPromotionIsFinite
=============================================================================
