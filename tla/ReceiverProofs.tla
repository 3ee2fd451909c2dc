--------------------------- MODULE ReceiverProofs ---------------------------
(***************************************************************************)
(* The safety of a receiver for every set of targets, every backend order  *)
(* of profile, marker and units, every configuration and any number of     *)
(* faults and publications.                                                *)
(***************************************************************************)
EXTENDS Receiver, TLAPS

LEMMA StepNames ==
    /\ {"idle", "owed", "fetch", "look", "pin", "recheck"} \subseteq Steps
    /\ {"reconcile", "size", "owe", "refusal", "provider"} \subseteq Steps
    /\ {"answered", "register", "switch", "switching", "observe"} \subseteq
          Steps
    /\ {"gate", "unpin", "reject", "restore", "settle"} \subseteq Steps
    /\ {"clear", "report"} \subseteq Steps
BY DEF Steps

LEMMA OutcomeNames ==
    /\ {"converged", "alreadyCurrent", "refused", "reimaged"} \subseteq
          Outcomes
    /\ {"manifest", "compatibility", "state", "rejectedTarget"} \subseteq
          Outcomes
    /\ {"delta", "reimage", "activate", "healthCheckUnavailable"} \subseteq
          Outcomes
    /\ {"healthCheckFailed", "bootReconcile", "rollback"} \subseteq Outcomes
BY DEF Outcomes, Stages, Healthy

LEMMA GotoType ==
    ASSUME run \in Run, NEW step \in Steps, Goto(step)
    PROVE  run' \in Run
BY DEF Run, Goto

LEMMA ConcludedType ==
    ASSUME run \in Run, NEW outcome \in Outcomes, Concluded(outcome)
    PROVE  run' \in Run
<1>1. (IF outcome \in Healthy /\ run.owed THEN "clear" ELSE "report") \in Steps
  BY StepNames
<1> QED
  BY <1>1 DEF Run, Concluded

LEMMA FaultType ==
    ASSUME TypeOK, NEW kind, Fault(kind)
    PROVE  faults' \in 0..MaxFaults
BY BoundsAssumption DEF TypeOK, Fault

(* What is known of a run's target and of what it saw, step by step.       *)
LEMMA KnownTarget ==
    ASSUME TypeOK, LocalsAreSet,
           run.pc \notin {"idle", "owed", "fetch", "clear", "report"}
    PROVE  run.target \in Targets
BY DEF TypeOK, Run, LocalsAreSet, AfterFetch

LEMMA KnownGoal ==
    ASSUME TypeOK, LocalsAreSet, run.pc \in {"switch", "switching"}
    PROVE  run.goal \in Targets
<1>1. run.pc \in AfterFetch /\ run.target \in Targets
  BY KnownTarget DEF TypeOK, Run, AfterFetch
<1>2. CASE run.goal = run.target
  BY <1>1, <1>2
<1>3. CASE run.goal # run.target
  <2>1. run.goal \in Targets \union {None} /\ run.seen \in Closures /\ run.goal
        = run.seen
    BY <1>3 DEF TypeOK, Run, LocalsAreSet, AfterPin, AfterFetch, Switching
  <2> QED
    BY <2>1, NoneAssumption
<1> QED
  BY <1>2, <1>3

(* What Concluded leaves of a run.                                         *)
LEMMA ConcludedFields ==
    ASSUME run \in Run, NEW outcome, Concluded(outcome)
    PROVE  /\ run'.pc \in Concluding
           /\ run'.outcome = outcome
           /\ run'.config = run.config /\ run'.owed = run.owed
           /\ run'.target = run.target /\ run'.seen = run.seen
           /\ run'.goal = run.goal /\ run'.exit = run.exit
           /\ run'.stage = run.stage /\ run'.kept = run.kept
<1>1. run' = [[run EXCEPT !.outcome = outcome] EXCEPT !.pc = run'.pc]
  BY DEF Run, Concluded
<1>2. run'.pc \in {"clear", "report"}
  BY DEF Run, Concluded
<1> QED
  BY <1>1, <1>2 DEF Run, Concluding

LEMMA DecidingType ==
    ASSUME TypeOK, LocalsAreSet, Deciding
    PROVE  TypeOK'
<1> USE DEF TypeOK, machine, state, outside
<1>1. CASE Start
  <2>1. run' \in Run
    BY <1>1, StepNames DEF Start, Idle, Run
  <2> QED
    BY <2>1, <1>1 DEF Start, Local
<1>2. CASE LoadDebt
  <2>1. run' \in Run
    BY <1>2, StepNames DEF LoadDebt, OwedOnDisk, Run
  <2> QED
    BY <2>1, <1>2 DEF LoadDebt, Local, OwedOnDisk
<1>3. CASE DebtUnreadable
  <2>1. run' \in Run
    BY <1>3, ConcludedType, OutcomeNames DEF DebtUnreadable, Conclude
  <2> QED
    BY <2>1, <1>3 DEF DebtUnreadable, Conclude
<1>4. CASE Fetch
  <2>1. run' \in Run
    BY <1>4, StepNames DEF Fetch, Run
  <2> QED
    BY <2>1, <1>4 DEF Fetch, Local
<1>5. CASE NothingVerifies
  <2>1. run' \in Run
    BY <1>5, ConcludedType, OutcomeNames DEF NothingVerifies, Conclude
  <2> QED
    BY <2>1, <1>5 DEF NothingVerifies, Conclude
<1>6. CASE Look
  <2>1. run' \in Run
    BY <1>6, StepNames DEF Look, CurrentPath, Run
  <2> QED
    BY <2>1, <1>6 DEF Look, Local, CurrentPath
<1>7. CASE StageFails
  <2>1. run' \in Run
    BY <1>7, ConcludedType, OutcomeNames DEF StageFails, FailsAs, Conclude
  <2> QED
    BY <2>1, <1>7, FaultType DEF StageFails, Conclude
<1>8. CASE ReadFails
  <2>1. run' \in Run
    BY <1>8, ConcludedType, OutcomeNames DEF ReadFails, Conclude
  <2> QED
    BY <2>1, <1>8, FaultType DEF ReadFails, Conclude
<1>9. CASE PinUnreadable
  <2>1. run' \in Run
    BY <1>9, ConcludedType, OutcomeNames DEF PinUnreadable, Conclude
  <2> QED
    BY <2>1, <1>9 DEF PinUnreadable, Conclude
<1>10. CASE RefuseRejected
  <2>1. run' \in Run
    BY <1>10, ConcludedType, OutcomeNames DEF RefuseRejected, Conclude
  <2> QED
    BY <2>1, <1>10 DEF RefuseRejected, Conclude
<1>11. CASE PassPin
  <2>1. run' \in Run
    BY <1>11, StepNames DEF PassPin, PinAllows, Run
  <2> QED
    BY <2>1, <1>11 DEF PassPin, Local, PinAllows
<1>12. CASE RecheckPasses
  <2>1. run' \in Run
    BY <1>12, ConcludedType, OutcomeNames, GotoType, StepNames DEF
       RecheckPasses
  <2> QED
    BY <2>1, <1>12 DEF RecheckPasses
<1>13. CASE RecheckFails
  <2>1. run' \in Run
    BY <1>13, ConcludedType, OutcomeNames DEF RecheckFails, Conclude
  <2> QED
    BY <2>1, <1>13 DEF RecheckFails, Conclude
<1>14. CASE ReconcileBoot
  <2>1. run' \in Run
    BY <1>14, ConcludedType, OutcomeNames DEF ReconcileBoot, Reconciled
  <2> QED
    BY <2>1, <1>14, KnownTarget DEF ReconcileBoot, Reconciled, Closures,
       LocalsAreSet
<1>15. CASE ReconcileFails
  <2>1. run' \in Run
    BY <1>15, ConcludedType, OutcomeNames DEF ReconcileFails, Reconciled
  <2> QED
    BY <2>1, <1>15, KnownTarget DEF ReconcileFails, Reconciled, Closures,
       LocalsAreSet
<1> QED
  BY <1>1, <1>2, <1>3, <1>4, <1>5, <1>6, <1>7, <1>8, <1>9, <1>10, <1>11, <1>12,
     <1>13, <1>14, <1>15 DEF Deciding

LEMMA RoutingType ==
    ASSUME TypeOK, LocalsAreSet, Routing
    PROVE  TypeOK'
<1> USE DEF TypeOK, machine, state, outside
<1>1. CASE Fits
  <2>1. run' \in Run
    BY <1>1, GotoType, StepNames DEF Fits
  <2> QED
    BY <2>1, <1>1 DEF Fits, Local
<1>2. CASE ExceedsCeiling
  <2>1. run' \in Run
    BY <1>2, StepNames DEF ExceedsCeiling, Run
  <2> QED
    BY <2>1, <1>2 DEF ExceedsCeiling, Local
<1>3. CASE RecordDebt
  <2>1. run' \in Run
    BY <1>3, ConcludedType, OutcomeNames, GotoType, StepNames DEF RecordDebt,
       DebtWritten
  <2> QED
    BY <2>1, <1>3, KnownTarget DEF RecordDebt, DebtWritten
<1>4. CASE RecordDebtFails
  <2>1. run' \in Run
    BY <1>4, ConcludedType, OutcomeNames DEF RecordDebtFails, Conclude
  <2> QED
    BY <2>1, <1>4, FaultType DEF RecordDebtFails, Conclude
<1>5. CASE ReportRefusal
  <2>1. run' \in Run
    BY <1>5, GotoType, StepNames DEF ReportRefusal
  <2> QED
    BY <2>1, <1>5 DEF ReportRefusal, Emitted
<1>6. CASE ProviderAccepts
  <2>1. run' \in Run
    BY <1>6, GotoType, StepNames DEF ProviderAccepts
  <2> QED
    BY <2>1, <1>6, KnownTarget DEF ProviderAccepts
<1>7. CASE ProviderRefuses
  <2>1. run' \in Run
    BY <1>7, ConcludedType, OutcomeNames DEF ProviderRefuses, Conclude
  <2> QED
    BY <2>1, <1>7 DEF ProviderRefuses, Conclude
<1>8. CASE Reimaged
  <2>1. run' \in Run
    BY <1>8, ConcludedType, OutcomeNames DEF Reimaged, Conclude
  <2> QED
    BY <2>1, <1>8 DEF Reimaged, Conclude
<1> QED
  BY <1>1, <1>2, <1>3, <1>4, <1>5, <1>6, <1>7, <1>8 DEF Routing

LEMMA ActivatingType ==
    ASSUME TypeOK, LocalsAreSet, Activating
    PROVE  TypeOK'
<1> USE DEF TypeOK, machine, state, outside
<1>1. CASE Register
  <2>1. run' \in Run
    BY <1>1, StepNames DEF Register, ProfileRegistered, Run
  <2> QED
    BY <2>1, <1>1, KnownTarget DEF Register, ProfileRegistered, Closures
<1>2. CASE RegisterFails
  <2>1. run' \in Run
    BY <1>2, StepNames DEF RegisterFails, Run
  <2> QED
    BY <2>1, <1>2, KnownTarget DEF RegisterFails, Closures
<1>3. CASE SwitchStarts
  <2>1. run' \in Run
    BY <1>3, GotoType, StepNames DEF SwitchStarts
  <2> QED
    BY <2>1, <1>3, KnownGoal DEF SwitchStarts, Closures
<1>4. CASE MoveMarker
  <2>1. run' \in Run
    BY <1>4, StepNames DEF MoveMarker, Run
  <2> QED
    BY <2>1, <1>4, KnownGoal DEF MoveMarker, Closures
<1>5. CASE SwitchCompletes
  <2>1. run' \in Run
    BY <1>5, StepNames DEF SwitchCompletes, AfterSwitch, Run
  <2> QED
    BY <2>1, <1>5, KnownGoal DEF SwitchCompletes, AfterSwitch, Closures
<1>6. CASE SwitchFails
  <2>1. run' \in Run
    BY <1>6, StepNames DEF SwitchFails, AfterSwitch, Run
  <2> QED
    BY <2>1, <1>6 DEF SwitchFails, Local, AfterSwitch
<1>7. CASE ObserveTarget
  <2>1. run' \in Run
    BY <1>7, GotoType, StepNames DEF ObserveTarget, Succeeded, CurrentPath
  <2> QED
    BY <2>1, <1>7 DEF ObserveTarget, Local, Succeeded, CurrentPath
<1>8. CASE ObserveOther
  <2>1. run' \in Run
    BY <1>8, StepNames DEF ObserveOther, Succeeded, Rejecting, CurrentPath, Run
  <2> QED
    BY <2>1, <1>8 DEF ObserveOther, Local, Succeeded, Rejecting, CurrentPath
<1>9. CASE ObservationFails
  <2>1. run' \in Run
    BY <1>9, StepNames DEF ObservationFails, Rejecting, Run
  <2> QED
    BY <2>1, <1>9, FaultType DEF ObservationFails, Rejecting
<1>10. CASE GatePasses
  <2>1. run' \in Run
    BY <1>10, ConcludedType, OutcomeNames, GotoType, StepNames DEF GatePasses
  <2> QED
    BY <2>1, <1>10 DEF GatePasses
<1>11. CASE GateUnavailable
  <2>1. run' \in Run
    BY <1>11, ConcludedType, OutcomeNames DEF GateUnavailable, Conclude
  <2> QED
    BY <2>1, <1>11 DEF GateUnavailable, Conclude
<1>12. CASE GateFails
  <2>1. run' \in Run
    BY <1>12, StepNames DEF GateFails, Rejecting, Run
  <2> QED
    BY <2>1, <1>12 DEF GateFails, Local, Rejecting
<1>13. CASE ClearPin
  <2>1. run' \in Run
    BY <1>13, ConcludedType, OutcomeNames DEF ClearPin
  <2> QED
    BY <2>1, <1>13 DEF ClearPin
<1>14. CASE ClearPinFails
  <2>1. run' \in Run
    BY <1>14, ConcludedType, OutcomeNames DEF ClearPinFails, Conclude
  <2> QED
    BY <2>1, <1>14, FaultType DEF ClearPinFails, Conclude
<1> QED
  BY <1>1, <1>2, <1>3, <1>4, <1>5, <1>6, <1>7, <1>8, <1>9, <1>10, <1>11, <1>12,
     <1>13, <1>14 DEF Activating

LEMMA RollingBackType ==
    ASSUME TypeOK, LocalsAreSet, RollingBack
    PROVE  TypeOK'
<1> USE DEF TypeOK, machine, state, outside
<1>1. CASE PersistPin
  <2>1. run' \in Run
    BY <1>1, StepNames DEF PersistPin, PinOfRejected, Run
  <2> QED
    BY <2>1, <1>1, KnownTarget DEF PersistPin, PinOfRejected
<1>2. CASE PersistPinFails
  <2>1. run' \in Run
    BY <1>2, GotoType, StepNames DEF PersistPinFails
  <2> QED
    BY <2>1, <1>2, FaultType DEF PersistPinFails
<1>3. CASE NoRollback
  <2>1. run' \in Run
    BY <1>3, ConcludedType, OutcomeNames DEF NoRollback, Conclude
  <2> QED
    BY <2>1, <1>3 DEF NoRollback, Conclude
<1>4. CASE RollbackCannotRun
  <2>1. run' \in Run
    BY <1>4, ConcludedType, OutcomeNames DEF RollbackCannotRun, Conclude
  <2> QED
    BY <2>1, <1>4, FaultType DEF RollbackCannotRun, Conclude
<1>5. CASE RestoreProfile
  <2>1. run' \in Run
    BY <1>5, StepNames DEF RestoreProfile, Run
  <2> QED
    BY <2>1, <1>5 DEF RestoreProfile, Closures
<1>6. CASE RestoreProfileFails
  <2>1. run' \in Run
    BY <1>6, StepNames DEF RestoreProfileFails, Run
  <2> QED
    BY <2>1, <1>6 DEF RestoreProfileFails, Closures
<1>7. CASE Settle
  <2>1. run.stage \in Outcomes
    BY <1>7, OutcomeNames DEF Settle, LocalsAreSet, Run
  <2>2. run' \in Run
    BY <1>7, <2>1, ConcludedType, OutcomeNames DEF Settle
  <2> QED
    BY <2>2, <1>7, KnownTarget DEF Settle, Poison
<1> QED
  BY <1>1, <1>2, <1>3, <1>4, <1>5, <1>6, <1>7 DEF RollingBack

LEMMA EndingType ==
    ASSUME TypeOK, LocalsAreSet, Ending
    PROVE  TypeOK'
<1> USE DEF TypeOK, machine, state, outside
<1>1. CASE ClearDebt
  <2>1. run' \in Run
    BY <1>1, StepNames DEF ClearDebt, Run
  <2> QED
    BY <2>1, <1>1 DEF ClearDebt
<1>2. CASE ClearDebtFails
  <2>1. run' \in Run
    BY <1>2, GotoType, StepNames DEF ClearDebtFails
  <2> QED
    BY <2>1, <1>2, FaultType DEF ClearDebtFails
<1>3. CASE Report
  <2>1. run' \in Run
    BY <1>3, StepNames DEF Report, Idle, Run
  <2> QED
    BY <2>1, <1>3 DEF Report, Emitted
<1> QED
  BY <1>1, <1>2, <1>3 DEF Ending

LEMMA AroundType ==
    ASSUME TypeOK, LocalsAreSet, Around
    PROVE  TypeOK'
<1> USE DEF TypeOK, machine, state, outside
<1>1. CASE Publish
  <2>1. run' \in Run
    BY <1>1, StepNames DEF Publish, Run
  <2> QED
    BY <2>1, <1>1, BoundsAssumption DEF Publish
<1>2. CASE Kill
  <2>1. run' \in Run
    BY <1>2, StepNames DEF Kill, Idle, Run
  <2> QED
    BY <2>1, <1>2, FaultType DEF Kill
<1>3. CASE RemovePin
  <2>1. run' \in Run
    BY <1>3, StepNames DEF RemovePin, Run
  <2> QED
    BY <2>1, <1>3, FaultType DEF RemovePin
<1>4. CASE DamageState
  <2>1. run' \in Run
    BY <1>4, StepNames DEF DamageState, Run
  <2> QED
    BY <2>1, <1>4, FaultType DEF DamageState
<1>5. CASE Replace
  <2>1. run' \in Run
    BY <1>5, StepNames DEF Replace, Idle, Run
  <2> QED
    BY <2>1, <1>5, NoneAssumption DEF Replace, Closures
<1> QED
  BY <1>1, <1>2, <1>3, <1>4, <1>5 DEF Around

Safety ==
    /\ LocalsAreSet
    /\ PinIsOwn
    /\ SwitchIsOrdered
    /\ ConvergedIsWhole
    /\ RollbackIsExact
    /\ ProviderCallIsOnRecord

LEMMA DecidingSafe ==
    ASSUME TypeOK, Safety, Deciding
    PROVE  Safety'
<1>0. run \in Run
  BY DEF TypeOK
<1> USE <1>0, NoneAssumption, CorruptAssumption, StepNames DEF Safety,
      LocalsAreSet, PinIsOwn, SwitchIsOrdered, ConvergedIsWhole,
      RollbackIsExact, ProviderCallIsOnRecord, AfterFetch, AfterPin, Committed,
      Switching, Undoing, Concluding, CurrentPath, Run, machine, state,
      outside, Closures
<1>1. CASE Start
  BY <1>1 DEF Start, Local, Idle, TypeOK
<1>2. CASE LoadDebt
  BY <1>2 DEF LoadDebt, Local, OwedOnDisk
<1>3. CASE DebtUnreadable
  BY <1>3 DEF DebtUnreadable, Conclude, Concluded
<1>4. CASE Fetch
  BY <1>4 DEF Fetch, Local, TypeOK
<1>5. CASE NothingVerifies
  BY <1>5 DEF NothingVerifies, Conclude, Concluded
<1>6. CASE Look
  BY <1>6 DEF Look, Local, TypeOK
<1>7. CASE StageFails
  BY <1>7 DEF StageFails, Conclude, Fault, FailsAs, Concluded
<1>8. CASE ReadFails
  BY <1>8 DEF ReadFails, Conclude, Fault, Concluded
<1>9. CASE PinUnreadable
  BY <1>9 DEF PinUnreadable, Conclude, Concluded
<1>10. CASE RefuseRejected
  BY <1>10 DEF RefuseRejected, Conclude, Concluded
<1>11. CASE PassPin
  <2>1. CASE run.seen = run.target
    BY <2>1, <1>11 DEF PassPin, Local, PinAllows
  <2>2. CASE ~run.seen = run.target
    <3>1. run' = [run EXCEPT !.pc = "size", !.pinned = (pin # None)]
      BY <2>2, <1>11 DEF PassPin
    <3>2. /\ run'.pc = "size" /\ run'.config = run.config
          /\ run'.target = run.target /\ run'.seen = run.seen
          /\ run'.goal = run.goal /\ run'.exit = run.exit
          /\ run'.stage = run.stage /\ run'.kept = run.kept
      BY <3>1
    <3> QED
      BY <3>2, <2>2, <1>11 DEF PassPin, Local, PinAllows
  <2> QED
    BY <2>1, <2>2
<1>12. CASE RecheckPasses
  <2>1. CASE run.config \in Reconciles
    BY <2>1, <1>12 DEF RecheckPasses, Goto
  <2>2. CASE ~(run.config \in Reconciles)
    BY <2>2, <1>12, ConcludedFields DEF RecheckPasses
  <2> QED
    BY <2>1, <2>2
<1>13. CASE RecheckFails
  BY <1>13 DEF RecheckFails, Conclude, Concluded
<1>14. CASE ReconcileBoot
  BY <1>14 DEF ReconcileBoot, Concluded, Reconciled
<1>15. CASE ReconcileFails
  BY <1>15 DEF ReconcileFails, Concluded, Reconciled
<1> QED
  BY <1>1, <1>2, <1>3, <1>4, <1>5, <1>6, <1>7, <1>8, <1>9, <1>10, <1>11, <1>12,
     <1>13, <1>14, <1>15 DEF Deciding

LEMMA RoutingSafe ==
    ASSUME TypeOK, Safety, Routing
    PROVE  Safety'
<1>0. run \in Run
  BY DEF TypeOK
<1> USE <1>0, NoneAssumption, CorruptAssumption, StepNames DEF Safety,
      LocalsAreSet, PinIsOwn, SwitchIsOrdered, ConvergedIsWhole,
      RollbackIsExact, ProviderCallIsOnRecord, AfterFetch, AfterPin, Committed,
      Switching, Undoing, Concluding, CurrentPath, Run, machine, state,
      outside, Closures
<1>1. CASE Fits
  BY <1>1 DEF Fits, Goto, Local
<1>2. CASE ExceedsCeiling
  BY <1>2 DEF ExceedsCeiling, Local
<1>3. CASE RecordDebt
  <2>1. CASE Goto("refusal")
    BY <2>1, <1>3 DEF RecordDebt, Goto, DebtWritten
  <2>2. CASE ~Goto("refusal")
    BY <2>2, <1>3, ConcludedFields DEF RecordDebt, DebtWritten
  <2> QED
    BY <2>1, <2>2
<1>4. CASE RecordDebtFails
  BY <1>4 DEF RecordDebtFails, Conclude, Fault, Concluded
<1>5. CASE ReportRefusal
  BY <1>5 DEF ReportRefusal, Goto, Emitted
<1>6. CASE ProviderAccepts
  BY <1>6 DEF ProviderAccepts, Goto
<1>7. CASE ProviderRefuses
  BY <1>7 DEF ProviderRefuses, Conclude, Concluded
<1>8. CASE Reimaged
  BY <1>8 DEF Reimaged, Conclude, Concluded
<1> QED
  BY <1>1, <1>2, <1>3, <1>4, <1>5, <1>6, <1>7, <1>8 DEF Routing

LEMMA ActivatingSafe ==
    ASSUME TypeOK, Safety, Activating
    PROVE  Safety'
<1>0. run \in Run
  BY DEF TypeOK
<1> USE <1>0, NoneAssumption, CorruptAssumption, StepNames DEF Safety,
      LocalsAreSet, PinIsOwn, SwitchIsOrdered, ConvergedIsWhole,
      RollbackIsExact, ProviderCallIsOnRecord, AfterFetch, AfterPin, Committed,
      Switching, Undoing, Concluding, CurrentPath, Run, machine, state,
      outside, Closures
<1>1. CASE Register
  BY <1>1 DEF Register, ProfileRegistered
<1>2. CASE RegisterFails
  BY <1>2 DEF RegisterFails
<1>3. CASE SwitchStarts
  BY <1>3 DEF SwitchStarts, Goto
<1>4. CASE MoveMarker
  BY <1>4 DEF MoveMarker
<1>5. CASE SwitchCompletes
  BY <1>5 DEF SwitchCompletes, AfterSwitch
<1>6. CASE SwitchFails
  BY <1>6 DEF SwitchFails, Local, AfterSwitch
<1>7. CASE ObserveTarget
  BY <1>7 DEF ObserveTarget, Goto, Local, Succeeded
<1>8. CASE ObserveOther
  BY <1>8, OutcomeNames DEF ObserveOther, Local, Succeeded, Rejecting
<1>9. CASE ObservationFails
  BY <1>9, OutcomeNames DEF ObservationFails, Fault, Rejecting
<1>10. CASE GatePasses
  <2>1. CASE run.pinned
    BY <2>1, <1>10 DEF GatePasses, Goto
  <2>2. CASE ~run.pinned
    BY <2>2, <1>10, ConcludedFields DEF GatePasses
  <2> QED
    BY <2>1, <2>2
<1>11. CASE GateUnavailable
  BY <1>11 DEF GateUnavailable, Conclude, Concluded
<1>12. CASE GateFails
  BY <1>12, OutcomeNames DEF GateFails, Local, Rejecting
<1>13. CASE ClearPin
  BY <1>13 DEF ClearPin, Concluded
<1>14. CASE ClearPinFails
  BY <1>14 DEF ClearPinFails, Conclude, Fault, Concluded
<1> QED
  BY <1>1, <1>2, <1>3, <1>4, <1>5, <1>6, <1>7, <1>8, <1>9, <1>10, <1>11, <1>12,
     <1>13, <1>14 DEF Activating

LEMMA RollingBackSafe ==
    ASSUME TypeOK, Safety, RollingBack
    PROVE  Safety'
<1>0. run \in Run
  BY DEF TypeOK
<1> USE <1>0, NoneAssumption, CorruptAssumption, StepNames DEF Safety,
      LocalsAreSet, PinIsOwn, SwitchIsOrdered, ConvergedIsWhole,
      RollbackIsExact, ProviderCallIsOnRecord, AfterFetch, AfterPin, Committed,
      Switching, Undoing, Concluding, CurrentPath, Run, machine, state,
      outside, Closures
<1>1. CASE PersistPin
  BY <1>1 DEF PersistPin, PinOfRejected
<1>2. CASE PersistPinFails
  BY <1>2 DEF PersistPinFails, Goto, Fault
<1>3. CASE NoRollback
  BY <1>3 DEF NoRollback, Conclude, Concluded
<1>4. CASE RollbackCannotRun
  BY <1>4 DEF RollbackCannotRun, Conclude, Fault, Concluded
<1>5. CASE RestoreProfile
  BY <1>5 DEF RestoreProfile
<1>6. CASE RestoreProfileFails
  BY <1>6 DEF RestoreProfileFails
<1>7. CASE Settle
  BY <1>7 DEF Settle, Concluded, Restored, Poison
<1> QED
  BY <1>1, <1>2, <1>3, <1>4, <1>5, <1>6, <1>7 DEF RollingBack

LEMMA EndingSafe ==
    ASSUME TypeOK, Safety, Ending
    PROVE  Safety'
<1>0. run \in Run
  BY DEF TypeOK
<1> USE <1>0, NoneAssumption, CorruptAssumption, StepNames DEF Safety,
      LocalsAreSet, PinIsOwn, SwitchIsOrdered, ConvergedIsWhole,
      RollbackIsExact, ProviderCallIsOnRecord, AfterFetch, AfterPin, Committed,
      Switching, Undoing, Concluding, CurrentPath, Run, machine, state,
      outside, Closures
<1>1. CASE ClearDebt
  BY <1>1 DEF ClearDebt
<1>2. CASE ClearDebtFails
  BY <1>2 DEF ClearDebtFails, Goto, Fault
<1>3. CASE Report
  BY <1>3 DEF Report, Emitted, Idle
<1> QED
  BY <1>1, <1>2, <1>3 DEF Ending

LEMMA AroundSafe ==
    ASSUME TypeOK, Safety, Around
    PROVE  Safety'
<1>0. run \in Run
  BY DEF TypeOK
<1> USE <1>0, NoneAssumption, CorruptAssumption, StepNames DEF Safety,
      LocalsAreSet, PinIsOwn, SwitchIsOrdered, ConvergedIsWhole,
      RollbackIsExact, ProviderCallIsOnRecord, AfterFetch, AfterPin, Committed,
      Switching, Undoing, Concluding, CurrentPath, Run, machine, state,
      outside, Closures
<1>1. CASE Publish
  BY <1>1 DEF Publish
<1>2. CASE Kill
  BY <1>2 DEF Kill, Fault, Idle
<1>3. CASE RemovePin
  BY <1>3 DEF RemovePin, Fault
<1>4. CASE DamageState
  BY <1>4 DEF DamageState, Fault
<1>5. CASE Replace
  BY <1>5 DEF Replace, Idle
<1> QED
  BY <1>1, <1>2, <1>3, <1>4, <1>5 DEF Around

LEMMA InitSafe == Init => TypeOK /\ Safety
<1> SUFFICES ASSUME Init
             PROVE  TypeOK /\ Safety
  OBVIOUS
<1>1. TypeOK
  BY BoundsAssumption, StepNames DEF Init, TypeOK, Idle, Run, Closures
<1>2. Safety
  BY DEF Init, Idle, Safety, LocalsAreSet, PinIsOwn, SwitchIsOrdered,
     ConvergedIsWhole, RollbackIsExact, ProviderCallIsOnRecord, AfterFetch,
     AfterPin, Committed, Switching, Undoing, Concluding
<1> QED
  BY <1>1, <1>2

LEMMA Stuttering ==
    ASSUME TypeOK, Safety, UNCHANGED vars
    PROVE  TypeOK' /\ Safety'
BY DEF vars, TypeOK, Safety, LocalsAreSet, PinIsOwn, SwitchIsOrdered,
       ConvergedIsWhole, RollbackIsExact, ProviderCallIsOnRecord, CurrentPath

LEMMA StepSafe ==
    ASSUME TypeOK, Safety, [Next]_vars
    PROVE  TypeOK' /\ Safety'
<1>0. LocalsAreSet
  BY DEF Safety
<1>1. CASE Deciding
  BY <1>0, <1>1, DecidingType, DecidingSafe
<1>2. CASE Routing
  BY <1>0, <1>2, RoutingType, RoutingSafe
<1>3. CASE Activating
  BY <1>0, <1>3, ActivatingType, ActivatingSafe
<1>4. CASE RollingBack
  BY <1>0, <1>4, RollingBackType, RollingBackSafe
<1>5. CASE Ending
  BY <1>0, <1>5, EndingType, EndingSafe
<1>6. CASE Around
  BY <1>0, <1>6, AroundType, AroundSafe
<1>7. CASE UNCHANGED vars
  BY <1>7, Stuttering
<1> QED
  BY <1>1, <1>2, <1>3, <1>4, <1>5, <1>6, <1>7 DEF Next, Running

(***************************************************************************)
(* The inductive invariant holds of every receiver, and with it each of    *)
(* its parts.                                                              *)
(***************************************************************************)
THEOREM ReceiverInvariant == Spec => []IInv
<1>1. Init => TypeOK /\ Safety
  BY InitSafe
<1>2. TypeOK /\ Safety /\ [Next]_vars => TypeOK' /\ Safety'
  BY StepSafe
<1>3. TypeOK /\ Safety => IInv
  BY DEF IInv, Safety
<1> QED
  BY <1>1, <1>2, <1>3, PTL DEF Spec

(* Process, machine and files keep their types, whatever fails.            *)
THEOREM ReceiverTypes == Spec => []TypeOK
<1>1. IInv => TypeOK
  BY DEF IInv
<1> QED
  BY <1>1, ReceiverInvariant, PTL

(* Converged is said of a whole switch only, whatever backend switched.    *)
THEOREM ConvergenceIsWhole == Spec => []ConvergedIsWhole
<1>1. IInv => ConvergedIsWhole
  BY DEF IInv
<1> QED
  BY <1>1, ReceiverInvariant, PTL

(* A rejection that is not reported as a failed rollback was undone.       *)
THEOREM RollbackIsWhole == Spec => []RollbackIsExact
<1>1. IInv => RollbackIsExact
  BY DEF IInv
<1> QED
  BY <1>1, ReceiverInvariant, PTL

(* No pinned target is ever registered or switched to.                     *)
THEOREM NoPinnedActivation == Spec => []PinnedIsNeverActivated
<1>1. IInv => PinnedIsNeverActivated
  BY StepNames, NoneAssumption
     DEF IInv, PinnedIsNeverActivated, PinIsOwn, Switching, Concluding,
         AfterPin, AfterFetch
<1> QED
  BY <1>1, ReceiverInvariant, PTL

(* No provider is called for a replacement that is not on record.          *)
THEOREM ProviderCallsRecorded == Spec => []ProviderCallIsOnRecord
<1>1. IInv => ProviderCallIsOnRecord
  BY DEF IInv
<1> QED
  BY <1>1, ReceiverInvariant, PTL

-----------------------------------------------------------------------------
(***************************************************************************)
(* The debt.  Most steps neither touch the file nor forget what was read.  *)
(***************************************************************************)
LEMMA KeepsDebtKnown ==
    ASSUME DebtIsKnown, debt' = debt,
           run'.pc \in {"idle", "owed"} \/ run'.owed = run.owed,
           run.pc \in {"idle", "owed"} => run'.pc \in {"idle", "owed"},
           run'.pc # "owe"
    PROVE  DebtIsKnown'
BY DEF DebtIsKnown

LEMMA ConcludedKeepsDebt ==
    ASSUME TypeOK, NEW outcome, Concluded(outcome)
    PROVE  run'.owed = run.owed /\ run'.pc \in {"clear", "report"}
BY DEF TypeOK, Run, Concluded

LEMMA DecidingKnows ==
    ASSUME TypeOK, DebtIsKnown, Deciding, "read" \notin Faults
    PROVE  DebtIsKnown'
<1>1. CASE Start
  BY <1>1, KeepsDebtKnown DEF Start, Idle, Local, state
<1>2. CASE LoadDebt
  BY <1>2 DEF TypeOK, Run, DebtIsKnown, LoadDebt, OwedOnDisk, Local, state
<1>3. CASE DebtUnreadable
  BY <1>3 DEF DebtIsKnown, DebtUnreadable
<1>4. CASE Fetch \/ Look \/ PassPin
  <2>1. run'.owed = run.owed /\ run'.pc \in {"look", "pin", "recheck", "size"}
    BY <1>4 DEF TypeOK, Run, Fetch, Look, PassPin
  <2> QED
    BY <1>4, <2>1, KeepsDebtKnown DEF Fetch, Look, PassPin, Local, state
<1>5. CASE NothingVerifies \/ StageFails \/ PinUnreadable \/ RefuseRejected \/ RecheckFails
  BY <1>5, KeepsDebtKnown, ConcludedKeepsDebt
     DEF NothingVerifies, StageFails, FailsAs, PinUnreadable, RefuseRejected, RecheckFails,
         Conclude, state
<1>6. CASE ReadFails
  BY <1>6 DEF ReadFails, Fault
<1>7. CASE RecheckPasses
  <2>1. run'.owed = run.owed /\ run'.pc \in {"reconcile", "clear", "report"}
    BY <1>7, ConcludedKeepsDebt DEF TypeOK, Run, RecheckPasses, Goto
  <2> QED
    BY <1>7, <2>1, KeepsDebtKnown DEF RecheckPasses, state
<1>8. CASE ReconcileBoot \/ ReconcileFails
  BY <1>8, KeepsDebtKnown, ConcludedKeepsDebt DEF ReconcileBoot, ReconcileFails, state
<1> QED
  BY <1>1, <1>2, <1>3, <1>4, <1>5, <1>6, <1>7, <1>8 DEF Deciding

LEMMA RoutingKnows ==
    ASSUME TypeOK, LocalsAreSet, DebtIsKnown, Routing
    PROVE  DebtIsKnown'
<1>1. CASE Fits \/ ReportRefusal \/ ProviderAccepts
  <2>1. run'.owed = run.owed /\ run'.pc \in {"register", "provider", "answered"}
    BY <1>1 DEF TypeOK, Run, Fits, ReportRefusal, ProviderAccepts, Goto
  <2> QED
    BY <1>1, <2>1, KeepsDebtKnown DEF Fits, ReportRefusal, ProviderAccepts, Local, state
<1>2. CASE ExceedsCeiling
  BY <1>2 DEF TypeOK, Run, DebtIsKnown, ExceedsCeiling, Local, state
<1>3. CASE RecordDebt
  <2>1. run.owed /\ run'.owed = run.owed /\ run'.pc \in {"refusal", "clear", "report"}
    BY <1>3, ConcludedKeepsDebt DEF TypeOK, Run, DebtIsKnown, RecordDebt, Goto
  <2>2. debt' \in Targets
    BY <1>3, KnownTarget DEF RecordDebt, DebtWritten
  <2> QED
    BY <2>1, <2>2, CorruptAssumption DEF DebtIsKnown, Closures
<1>4. CASE RecordDebtFails \/ ProviderRefuses \/ Reimaged
  BY <1>4, KeepsDebtKnown, ConcludedKeepsDebt
     DEF RecordDebtFails, ProviderRefuses, Reimaged, Conclude, state
<1> QED
  BY <1>1, <1>2, <1>3, <1>4 DEF Routing

LEMMA ActivatingKnows ==
    ASSUME TypeOK, DebtIsKnown, Activating
    PROVE  DebtIsKnown'
<1>1. CASE Register \/ RegisterFails \/ SwitchStarts \/ SwitchCompletes \/ SwitchFails
  <2>1. run'.owed = run.owed /\ run'.pc \in {"switch", "switching", "observe", "settle"}
    BY <1>1 DEF TypeOK, Run, Register, RegisterFails, SwitchStarts, SwitchCompletes,
                SwitchFails, AfterSwitch, Goto
  <2> QED
    BY <1>1, <2>1, KeepsDebtKnown
       DEF Register, RegisterFails, SwitchStarts, SwitchCompletes, SwitchFails, Local, state
<1>2. CASE MoveMarker
  BY <1>2, KeepsDebtKnown DEF MoveMarker, state
<1>3. CASE ObserveTarget \/ ObserveOther \/ ObservationFails \/ GateFails
  <2>1. run'.owed = run.owed /\ run'.pc \in {"gate", "reject"}
    BY <1>3 DEF TypeOK, Run, ObserveTarget, ObserveOther, ObservationFails, GateFails,
                Rejecting, Goto
  <2> QED
    BY <1>3, <2>1, KeepsDebtKnown
       DEF ObserveTarget, ObserveOther, ObservationFails, GateFails, Local, state
<1>4. CASE GatePasses
  <2>1. run'.owed = run.owed /\ run'.pc \in {"unpin", "clear", "report"}
    BY <1>4, ConcludedKeepsDebt DEF TypeOK, Run, GatePasses, Goto
  <2> QED
    BY <1>4, <2>1, KeepsDebtKnown DEF GatePasses, state
<1>5. CASE GateUnavailable \/ ClearPin \/ ClearPinFails
  BY <1>5, KeepsDebtKnown, ConcludedKeepsDebt
     DEF GateUnavailable, ClearPin, ClearPinFails, Conclude, state
<1> QED
  BY <1>1, <1>2, <1>3, <1>4, <1>5 DEF Activating

LEMMA RollingBackKnows ==
    ASSUME TypeOK, DebtIsKnown, RollingBack
    PROVE  DebtIsKnown'
<1>1. CASE PersistPin \/ PersistPinFails \/ RestoreProfile \/ RestoreProfileFails
  <2>1. run'.owed = run.owed /\ run'.pc \in {"restore", "switch", "settle"}
    BY <1>1 DEF TypeOK, Run, PersistPin, PersistPinFails, RestoreProfile,
                RestoreProfileFails, Goto
  <2> QED
    BY <1>1, <2>1, KeepsDebtKnown
       DEF PersistPin, PersistPinFails, RestoreProfile, RestoreProfileFails, state
<1>2. CASE NoRollback \/ RollbackCannotRun \/ Settle
  BY <1>2, KeepsDebtKnown, ConcludedKeepsDebt
     DEF NoRollback, RollbackCannotRun, Settle, Conclude, state
<1> QED
  BY <1>1, <1>2 DEF RollingBack

LEMMA EndingKnows ==
    ASSUME TypeOK, DebtIsKnown, Ending
    PROVE  DebtIsKnown'
<1>1. CASE ClearDebt
  BY <1>1, NoneAssumption DEF TypeOK, Run, DebtIsKnown, ClearDebt
<1>2. CASE ClearDebtFails
  <2>1. run'.owed = run.owed /\ run'.pc = "report"
    BY <1>2 DEF TypeOK, Run, ClearDebtFails, Goto
  <2> QED
    BY <1>2, <2>1, KeepsDebtKnown DEF ClearDebtFails, state
<1>3. CASE Report
  BY <1>3, KeepsDebtKnown DEF Report, Idle, state
<1> QED
  BY <1>1, <1>2, <1>3 DEF Ending

LEMMA AroundKnows ==
    ASSUME TypeOK, DebtIsKnown, Around, "damage" \notin Faults
    PROVE  DebtIsKnown'
<1>1. CASE Publish \/ RemovePin
  BY <1>1 DEF DebtIsKnown, Publish, RemovePin, state
<1>2. CASE Kill
  BY <1>2, KeepsDebtKnown DEF Kill, Idle, state
<1>3. CASE DamageState
  BY <1>3 DEF DamageState, Fault
<1>4. CASE Replace
  BY <1>4, NoneAssumption DEF DebtIsKnown, Replace, Idle
<1> QED
  BY <1>1, <1>2, <1>3, <1>4 DEF Around

LEMMA StepKnows ==
    ASSUME IInv, DebtIsKnown, [Next]_vars, {"read", "damage"} \intersect Faults = {}
    PROVE  DebtIsKnown'
<1> USE DEF IInv
<1>1. CASE UNCHANGED vars
  BY <1>1 DEF DebtIsKnown, vars
<1> QED
  BY <1>1, DecidingKnows, RoutingKnows, ActivatingKnows, RollingBackKnows, EndingKnows,
     AroundKnows DEF Next, Running

(* The gauge is written by a report, or goes with the machine.             *)
LEMMA StepShowsDebt ==
    ASSUME TypeOK, DebtIsKnown, Next, gauge' # gauge, debt' # None
    PROVE  gauge' = "owed"
<1>1. CASE ReportRefusal \/ Report
  <2>1. run.owed
    BY <1>1 DEF DebtIsKnown, ReportRefusal, Report, state
  <2> QED
    BY <1>1, <2>1 DEF ReportRefusal, Report, Emitted
<1>2. CASE Replace
  BY <1>2 DEF Replace
<1>3. CASE Deciding
  BY <1>3 DEF Deciding, Start, LoadDebt, DebtUnreadable, Fetch, NothingVerifies, Look,
     StageFails, ReadFails, PinUnreadable, RefuseRejected, PassPin, RecheckPasses,
     RecheckFails, ReconcileBoot, ReconcileFails, Conclude, Local
<1>4. CASE Activating \/ RollingBack
  BY <1>4 DEF Activating, Register, RegisterFails, SwitchStarts, MoveMarker,
     SwitchCompletes, SwitchFails, ObserveTarget, ObserveOther, ObservationFails,
     GatePasses, GateUnavailable, GateFails, ClearPin, ClearPinFails, RollingBack,
     PersistPin, PersistPinFails, NoRollback, RollbackCannotRun, RestoreProfile,
     RestoreProfileFails, Settle, Conclude, Local
<1>5. CASE Routing /\ ~ReportRefusal
  BY <1>5 DEF Routing, Fits, ExceedsCeiling, RecordDebt, RecordDebtFails,
     ProviderAccepts, ProviderRefuses, Reimaged, Conclude, Local
<1>6. CASE ClearDebt \/ ClearDebtFails \/ Publish \/ Kill \/ RemovePin \/ DamageState
  BY <1>6 DEF ClearDebt, ClearDebtFails, Publish, Kill, RemovePin, DamageState
<1> QED
  BY <1>1, <1>2, <1>3, <1>4, <1>5, <1>6 DEF Next, Running, Ending, Around

(***************************************************************************)
(* A debt that is on disk is never reported as paid, whatever fails, is    *)
(* killed or comes in between, as long as state files can be read.         *)
(***************************************************************************)
THEOREM DebtStaysVisible ==
    ASSUME {"read", "damage"} \intersect Faults = {}
    PROVE  Spec => DebtRemainsVisible
<1>1. Init => DebtIsKnown
  BY NoneAssumption DEF Init, Idle, DebtIsKnown
<1>2. IInv /\ DebtIsKnown /\ [Next]_vars => DebtIsKnown'
  BY StepKnows
<1>3. IInv /\ DebtIsKnown /\ [Next]_vars
        => [gauge' # gauge /\ debt' # None => gauge' = "owed"]_vars
  BY StepShowsDebt DEF IInv
<1> QED
  BY <1>1, <1>2, <1>3, ReceiverInvariant, PTL DEF Spec, DebtRemainsVisible

-----------------------------------------------------------------------------
(***************************************************************************)
(* Until its first switch, a run is one of a closure that is in force: its *)
(* unit was started from there, and nobody else activates.                 *)
(***************************************************************************)
Early == {"owed", "fetch", "look", "pin", "recheck", "reconcile"}

ConfigInForce == run.pc \in Early => run.config \in applied

LEMMA ConcludedIsLate ==
    ASSUME TypeOK, NEW outcome, Concluded(outcome)
    PROVE  run'.pc \notin Early
BY DEF TypeOK, Run, Concluded, Early

LEMMA EarlyStep ==
    ASSUME TypeOK, ConfigInForce, [Next]_vars
    PROVE  ConfigInForce'
<1>1. CASE Start
  BY <1>1 DEF Start, Idle, Local, machine, ConfigInForce, Closures
<1>2. CASE LoadDebt \/ Fetch \/ Look \/ PassPin
  <2>1. run'.config = run.config /\ run.pc \in Early /\ applied' = applied
    BY <1>2 DEF LoadDebt, Fetch, Look, PassPin, Local, machine, TypeOK, Run, Early
  <2> QED
    BY <2>1 DEF ConfigInForce
<1>3. CASE RecheckPasses
  <2>1. \/ run'.config = run.config /\ run.pc \in Early /\ applied' = applied
        \/ run'.pc \notin Early
    BY <1>3, ConcludedIsLate DEF RecheckPasses, Goto, machine, TypeOK, Run, Early
  <2> QED
    BY <2>1 DEF ConfigInForce
<1>4. CASE DebtUnreadable \/ NothingVerifies \/ StageFails \/ ReadFails \/ PinUnreadable
           \/ RefuseRejected \/ RecheckFails \/ ReconcileBoot \/ ReconcileFails
  BY <1>4, ConcludedIsLate
     DEF DebtUnreadable, NothingVerifies, StageFails, ReadFails, PinUnreadable,
         RefuseRejected, RecheckFails, ReconcileBoot, ReconcileFails, Conclude, ConfigInForce
<1>5. CASE Routing
  <2>1. run'.pc \notin Early
    BY <1>5, ConcludedIsLate
       DEF Routing, Fits, ExceedsCeiling, RecordDebt, RecordDebtFails, ReportRefusal,
           ProviderAccepts, ProviderRefuses, Reimaged, Conclude, Goto, TypeOK, Run, Early
  <2> QED
    BY <2>1 DEF ConfigInForce
<1>6. CASE Activating /\ ~MoveMarker
  <2>1. run'.pc \notin Early
    BY <1>6, ConcludedIsLate
       DEF Activating, Register, RegisterFails, SwitchStarts, SwitchCompletes, SwitchFails,
           AfterSwitch, ObserveTarget, ObserveOther, ObservationFails, GatePasses,
           GateUnavailable, GateFails, ClearPin, ClearPinFails, Rejecting, Conclude, Goto,
           TypeOK, Run, Early
  <2> QED
    BY <2>1 DEF ConfigInForce
<1>7. CASE RollingBack
  <2>1. CASE PersistPin \/ PersistPinFails \/ RestoreProfile \/ RestoreProfileFails
    <3>1. run'.pc \in {"restore", "switch", "settle"}
      BY <2>1 DEF TypeOK, Run, PersistPin, PersistPinFails, RestoreProfile,
                  RestoreProfileFails, Goto
    <3> QED
      BY <3>1 DEF ConfigInForce, Early
  <2>2. CASE NoRollback \/ RollbackCannotRun \/ Settle
    <3>1. run'.pc \notin Early
      BY <2>2, ConcludedIsLate DEF NoRollback, RollbackCannotRun, Settle, Conclude
    <3> QED
      BY <3>1 DEF ConfigInForce
  <2> QED
    BY <1>7, <2>1, <2>2 DEF RollingBack
<1>8. CASE Ending
  <2>1. run'.pc \notin Early
    <3>1. CASE ClearDebt \/ ClearDebtFails
      BY <3>1 DEF ClearDebt, ClearDebtFails, Goto, TypeOK, Run, Early
    <3>2. CASE Report
      BY <3>2 DEF Report, Idle, Early
    <3> QED
      BY <1>8, <3>1, <3>2 DEF Ending
  <2> QED
    BY <2>1 DEF ConfigInForce
<1>9. CASE MoveMarker \/ Publish \/ RemovePin \/ DamageState \/ UNCHANGED vars
  BY <1>9 DEF MoveMarker, Publish, RemovePin, DamageState, machine, vars, ConfigInForce
<1>10. CASE Kill \/ Replace
  BY <1>10 DEF Kill, Replace, Idle, Early, ConfigInForce
<1> QED
  BY <1>1, <1>2, <1>3, <1>4, <1>5, <1>6, <1>7, <1>8, <1>9, <1>10
     DEF Next, Running, Deciding, Around

LEMMA ReconcilingStep ==
    ASSUME TypeOK, ConfigInForce, Next, boot' \notin {boot, None}, applied = {boot'.medium}
    PROVE  boot'.by = boot'.medium
<1>1. CASE ReconcileBoot \/ ReconcileFails
  <2>1. run.pc = "reconcile" /\ boot' = [medium |-> run.target, by |-> run.config]
    BY <1>1 DEF ReconcileBoot, ReconcileFails, Reconciled
  <2> QED
    BY <2>1 DEF ConfigInForce, Early
<1>2. CASE Deciding /\ ~ReconcileBoot /\ ~ReconcileFails
  BY <1>2 DEF Deciding, Start, LoadDebt, DebtUnreadable, Fetch, NothingVerifies, Look,
     StageFails, ReadFails, PinUnreadable, RefuseRejected, PassPin, RecheckPasses,
     RecheckFails, Conclude, Local
<1>3. CASE Activating \/ RollingBack
  BY <1>3 DEF Activating, Register, RegisterFails, SwitchStarts, MoveMarker,
     SwitchCompletes, SwitchFails, ObserveTarget, ObserveOther, ObservationFails,
     GatePasses, GateUnavailable, GateFails, ClearPin, ClearPinFails, RollingBack,
     PersistPin, PersistPinFails, NoRollback, RollbackCannotRun, RestoreProfile,
     RestoreProfileFails, Settle, Conclude, Local
<1>4. CASE Routing \/ Ending
  BY <1>4 DEF Routing, Fits, ExceedsCeiling, RecordDebt, RecordDebtFails, ReportRefusal,
     ProviderAccepts, ProviderRefuses, Reimaged, Conclude, Local, Ending, ClearDebt,
     ClearDebtFails, Report
<1>5. CASE Around
  BY <1>5 DEF Around, Publish, Kill, RemovePin, DamageState, Replace
<1> QED
  BY <1>1, <1>2, <1>3, <1>4, <1>5 DEF Next, Running

(***************************************************************************)
(* On a machine that runs one closure and no other, that closure's own     *)
(* command writes its boot medium, for every closure, configuration and    *)
(* bound, and whatever is killed, fails or is published in between.        *)
(***************************************************************************)
THEOREM BootMediaAreReconciledByTheirOwn == Spec => WholeMachineReconcilesItself
<1>1. Init => ConfigInForce
  BY DEF Init, Idle, ConfigInForce, Early
<1>2. IInv /\ ConfigInForce /\ [Next]_vars => ConfigInForce'
  BY EarlyStep DEF IInv
<1>3. IInv /\ ConfigInForce /\ [Next]_vars
        => [boot' \notin {boot, None} /\ applied = {boot'.medium}
               => boot'.by = boot'.medium]_vars
  BY ReconcilingStep DEF IInv
<1> QED
  BY <1>1, <1>2, <1>3, ReceiverInvariant, PTL DEF Spec, WholeMachineReconcilesItself


-----------------------------------------------------------------------------
(***************************************************************************)
(* docs/reimage.md: the debt is cleared only after a run has observed      *)
(* Converged or AlreadyCurrent.  The record disappears only while          *)
(* currentPath names the target of such a run, or with the whole machine,  *)
(* when the provider delivers the replacement it was asked for.            *)
(***************************************************************************)
DebtIsPaidByHealth ==
    [][debt # None /\ debt' = None =>
          \/ run.outcome \in Healthy /\ CurrentPath = run.target
          \/ asked # None /\ applied' = {asked}]_vars

(***************************************************************************)
(* README.md: the first healthy convergence clears the stale pin.  No run  *)
(* says Converged and leaves any closure pinned, though it read the pin    *)
(* long before the switch and looks at no file again.                      *)
(***************************************************************************)
ConvergedClearsPin ==
    run.pc \in Concluding /\ run.outcome = "converged" => pin = None

(* A run that found no pin is right about that until it writes one itself. *)
PinIsKnown == run.pc \in AfterPin /\ ~run.pinned /\ ~run.kept => pin = None

(* What currentPath said is still so when the run acts on it.              *)
CurrentIsKnown ==
    /\ run.pc = "pin" => run.seen = CurrentPath
    /\ run.pc \in {"recheck", "reconcile"} => CurrentPath = run.target
    /\ run.pc \in Concluding /\ run.outcome = "alreadyCurrent" => CurrentPath = run.target
    /\ run.pc = "clear" => run.outcome \in Healthy

Knowing ==
    /\ PinIsKnown
    /\ ConvergedClearsPin
    /\ CurrentIsKnown

(* A run that concludes goes on to clear a debt only if it is healthy.     *)
LEMMA OnlyHealthClears ==
    ASSUME run \in Run, NEW outcome, Concluded(outcome)
    PROVE  run'.pc = "clear" => run'.outcome \in Healthy
BY DEF Run, Concluded

(* A run that fails, refuses or asks for a replacement knows enough.       *)
LEMMA UnhealthyKnows ==
    ASSUME run \in Run, NEW outcome, outcome \notin Healthy, Concluded(outcome)
    PROVE  Knowing'
<1>1. run'.pc \in Concluding /\ run'.outcome = outcome
  BY ConcludedFields
<1>2. run'.pc # "clear"
  BY <1>1, OnlyHealthClears
<1> QED
  BY <1>1, <1>2 DEF Knowing, PinIsKnown, ConvergedClearsPin, CurrentIsKnown, Concluding,
     AfterPin, AfterFetch, Healthy

LEMMA ConvergedKnows ==
    ASSUME run \in Run, Concluded("converged"), pin' = None
    PROVE  Knowing'
<1>1. run'.pc \in Concluding /\ run'.outcome = "converged"
  BY ConcludedFields
<1> QED
  BY <1>1 DEF Knowing, PinIsKnown, ConvergedClearsPin, CurrentIsKnown, Concluding, Healthy

(* A step that keeps the pin, the path and the run's reading of both.      *)
LEMMA LearntKnows ==
    ASSUME PinIsKnown, pin' = pin,
           run'.pinned = run.pinned, run'.kept = run.kept,
           run.pc \in AfterPin, run'.pc \in AfterPin,
           run'.pc \notin {"recheck", "reconcile"}
    PROVE  Knowing'
BY DEF Knowing, PinIsKnown, ConvergedClearsPin, CurrentIsKnown, Concluding, AfterPin,
       AfterFetch

LEMMA DecidingLearns ==
    ASSUME TypeOK, Safety, Knowing, Deciding
    PROVE  Knowing'
<1> USE DEF TypeOK, Knowing, machine, state
<1>1. CASE Start
  BY <1>1 DEF Start, Idle, PinIsKnown, ConvergedClearsPin, CurrentIsKnown, Concluding,
     AfterPin, AfterFetch
<1>2. CASE LoadDebt \/ Fetch
  <2>1. run'.pc \in {"fetch", "look"}
    BY <1>2 DEF LoadDebt, Fetch, Run
  <2> QED
    BY <2>1 DEF PinIsKnown, ConvergedClearsPin, CurrentIsKnown, Concluding, AfterPin,
       AfterFetch
<1>3. CASE Look
  <2>1. run'.pc = "pin" /\ run'.seen = CurrentPath /\ CurrentPath' = CurrentPath
    BY <1>3 DEF Look, Local, Run, CurrentPath
  <2> QED
    BY <2>1 DEF PinIsKnown, ConvergedClearsPin, CurrentIsKnown, Concluding, AfterPin,
       AfterFetch
<1>4. CASE DebtUnreadable \/ NothingVerifies \/ StageFails \/ ReadFails \/ PinUnreadable
           \/ RefuseRejected \/ RecheckFails
  BY <1>4, UnhealthyKnows
     DEF DebtUnreadable, NothingVerifies, StageFails, FailsAs, ReadFails, PinUnreadable,
         RefuseRejected, RecheckFails, Conclude, Healthy
<1>5. CASE PassPin
  <2>1. run'.pinned = (pin # None) /\ run'.pc \in {"recheck", "size"}
    BY <1>5 DEF PassPin, Run
  <2>2. run'.pc = "recheck" => run.seen = run.target
    BY <1>5 DEF PassPin, Run
  <2>3. run'.target = run.target /\ pin' = pin /\ CurrentPath' = CurrentPath
    BY <1>5 DEF PassPin, Local, Run, CurrentPath
  <2>4. run.seen = CurrentPath
    BY <1>5 DEF PassPin, CurrentIsKnown
  <2> QED
    BY <2>1, <2>2, <2>3, <2>4 DEF PinIsKnown, ConvergedClearsPin, CurrentIsKnown, Concluding
<1>6. CASE RecheckPasses \/ ReconcileBoot
  <2>1. CurrentPath' = run.target /\ pin' = pin
    BY <1>6 DEF RecheckPasses, ReconcileBoot, CurrentIsKnown, CurrentPath
  <2>2. CASE Concluded("alreadyCurrent")
    <3>1. /\ run'.pc \in Concluding /\ run'.outcome = "alreadyCurrent"
          /\ run'.target = run.target
      BY <2>2, ConcludedFields
    <3> QED
      BY <2>1, <3>1 DEF PinIsKnown, ConvergedClearsPin, CurrentIsKnown, Concluding,
         AfterPin, AfterFetch, Healthy
  <2>3. CASE RecheckPasses /\ Goto("reconcile")
    <3>1. /\ run'.pc = "reconcile" /\ run'.target = run.target
          /\ run'.pinned = run.pinned /\ run'.kept = run.kept
      BY <2>3 DEF Goto, Run
    <3>2. run.pc = "recheck" /\ "recheck" \in AfterPin
      BY <2>3 DEF RecheckPasses, AfterPin, AfterFetch, Steps
    <3> QED
      BY <2>1, <3>1, <3>2 DEF PinIsKnown, ConvergedClearsPin, CurrentIsKnown, Concluding
  <2> QED
    BY <1>6, <2>2, <2>3 DEF RecheckPasses, ReconcileBoot
<1>7. CASE ReconcileFails
  BY <1>7, UnhealthyKnows DEF ReconcileFails, Healthy
<1> QED
  BY <1>1, <1>2, <1>3, <1>4, <1>5, <1>6, <1>7 DEF Deciding

LEMMA RoutingLearns ==
    ASSUME TypeOK, Safety, Knowing, Routing
    PROVE  Knowing'
<1> USE DEF TypeOK, Knowing, state
<1>1. CASE Fits \/ ExceedsCeiling \/ ReportRefusal \/ ProviderAccepts
  <2>1. /\ run'.pinned = run.pinned /\ run'.kept = run.kept
        /\ run.pc \in {"size", "refusal", "provider"}
        /\ run'.pc \in {"register", "owe", "provider", "answered"}
    BY <1>1 DEF Fits, ExceedsCeiling, ReportRefusal, ProviderAccepts, Goto, Run
  <2>2. pin' = pin
    BY <1>1 DEF Fits, ExceedsCeiling, ReportRefusal, ProviderAccepts, Local
  <2> QED
    BY <2>1, <2>2, LearntKnows DEF AfterPin, AfterFetch, Steps
<1>2. CASE RecordDebt
  <2>1. Goto("refusal") \/ Concluded("reimage") \/ Concluded("refused")
    BY <1>2 DEF RecordDebt
  <2>2. CASE Goto("refusal")
    <3>1. /\ run'.pinned = run.pinned /\ run'.kept = run.kept
          /\ run.pc = "owe" /\ run'.pc = "refusal" /\ pin' = pin
      BY <1>2, <2>2 DEF RecordDebt, Goto, Run
    <3> QED
      BY <3>1, LearntKnows DEF AfterPin, AfterFetch, Steps
  <2> QED
    BY <2>1, <2>2, UnhealthyKnows DEF Healthy
<1>3. CASE RecordDebtFails \/ ProviderRefuses \/ Reimaged
  <2>1. Concluded("state") \/ Concluded("reimage") \/ Concluded("reimaged")
    BY <1>3 DEF RecordDebtFails, ProviderRefuses, Reimaged, Conclude
  <2> QED
    BY <2>1, UnhealthyKnows DEF Healthy
<1> QED
  BY <1>1, <1>2, <1>3 DEF Routing

LEMMA ActivatingLearns ==
    ASSUME TypeOK, Safety, Knowing, Activating
    PROVE  Knowing'
<1> USE DEF TypeOK, Knowing, machine, state
<1>1. CASE Register \/ RegisterFails \/ SwitchStarts \/ SwitchCompletes \/ SwitchFails
           \/ ObserveTarget \/ ObserveOther \/ ObservationFails \/ GateFails
  <2>1. /\ run'.pinned = run.pinned /\ run'.kept = run.kept
        /\ run.pc \in {"register", "switch", "switching", "observe", "gate"}
        /\ run'.pc \in {"switch", "switching", "observe", "settle", "gate", "reject"}
    BY <1>1 DEF Register, RegisterFails, SwitchStarts, SwitchCompletes, SwitchFails,
       AfterSwitch, ObserveTarget, ObserveOther, ObservationFails, GateFails, Rejecting, Goto, Run
  <2>2. pin' = pin
    BY <1>1 DEF Register, RegisterFails, SwitchStarts, SwitchCompletes, SwitchFails,
       ObserveTarget, ObserveOther, ObservationFails, GateFails, Local
  <2> QED
    BY <2>1, <2>2, LearntKnows DEF AfterPin, AfterFetch, Steps
<1>2. CASE MoveMarker
  BY <1>2 DEF MoveMarker, PinIsKnown, ConvergedClearsPin, CurrentIsKnown, Concluding
<1>3. CASE GatePasses
  <2>1. run.pc = "gate" /\ pin' = pin
    BY <1>3 DEF GatePasses
  <2>2. CASE run.pinned
    <3>1. run'.pinned = run.pinned /\ run'.kept = run.kept /\ run'.pc = "unpin"
      BY <1>3, <2>2 DEF GatePasses, Goto, Run
    <3> QED
      BY <2>1, <3>1, LearntKnows DEF AfterPin, AfterFetch, Steps
  <2>3. CASE ~run.pinned
    <3>1. Concluded("converged")
      BY <1>3, <2>3 DEF GatePasses
    <3>2. ~run.kept
      BY <2>1 DEF Safety, PinIsOwn, Switching, Concluding, Run
    <3>3. pin' = None
      BY <2>1, <2>3, <3>2 DEF PinIsKnown, AfterPin, AfterFetch, Steps
    <3> QED
      BY <3>1, <3>3, ConvergedKnows
  <2> QED
    BY <2>2, <2>3
<1>5. CASE ClearPin
  BY <1>5, ConvergedKnows DEF ClearPin
<1>4. CASE GateUnavailable \/ ClearPinFails
  <2>1. Concluded("healthCheckUnavailable") \/ Concluded("state")
    BY <1>4 DEF GateUnavailable, ClearPinFails, Conclude
  <2> QED
    BY <2>1, UnhealthyKnows DEF Healthy
<1> QED
  BY <1>1, <1>2, <1>3, <1>4, <1>5 DEF Activating

LEMMA RollingBackLearns ==
    ASSUME TypeOK, Safety, Knowing, RollingBack
    PROVE  Knowing'
<1> USE DEF TypeOK, Knowing, state
<1>1. CASE PersistPin
  <2>1. run'.kept /\ run'.pc = "restore"
    BY <1>1 DEF PersistPin, Run
  <2> QED
    BY <2>1 DEF PinIsKnown, ConvergedClearsPin, CurrentIsKnown, Concluding
<1>2. CASE PersistPinFails \/ RestoreProfile \/ RestoreProfileFails
  <2>1. /\ run'.pinned = run.pinned /\ run'.kept = run.kept
        /\ run.pc \in {"reject", "restore"} /\ run'.pc \in {"restore", "switch", "settle"}
    BY <1>2 DEF PersistPinFails, RestoreProfile, RestoreProfileFails, Goto, Run
  <2>2. pin' = pin
    BY <1>2 DEF PersistPinFails, RestoreProfile, RestoreProfileFails
  <2> QED
    BY <2>1, <2>2, LearntKnows DEF AfterPin, AfterFetch, Steps
<1>3. CASE NoRollback \/ RollbackCannotRun
  BY <1>3, UnhealthyKnows DEF NoRollback, RollbackCannotRun, Conclude, Healthy
<1>4. CASE Settle
  <2>1. run.stage \in {"activate", "healthCheckFailed"}
    BY <1>4 DEF Settle, Safety, LocalsAreSet, Run
  <2>2. Concluded("rollback") \/ Concluded(run.stage) \/ Concluded("state")
    BY <1>4 DEF Settle
  <2> QED
    BY <2>1, <2>2, UnhealthyKnows DEF Healthy
<1> QED
  BY <1>1, <1>2, <1>3, <1>4 DEF RollingBack

LEMMA EndingLearns ==
    ASSUME TypeOK, Safety, Knowing, Ending
    PROVE  Knowing'
<1> USE DEF TypeOK, Knowing, machine, state
<1>1. CASE ClearDebt \/ ClearDebtFails
  <2>1. /\ run.pc \in Concluding /\ run'.pc = "report"
        /\ run'.outcome = run.outcome /\ run'.target = run.target
    BY <1>1 DEF ClearDebt, ClearDebtFails, Goto, Run, Concluding
  <2>2. pin' = pin /\ CurrentPath' = CurrentPath
    BY <1>1 DEF ClearDebt, ClearDebtFails, CurrentPath
  <2> QED
    BY <2>1, <2>2 DEF PinIsKnown, ConvergedClearsPin, CurrentIsKnown, Concluding,
       AfterPin, AfterFetch
<1>2. CASE Report
  BY <1>2 DEF Report, Idle, PinIsKnown, ConvergedClearsPin, CurrentIsKnown, Concluding,
     AfterPin, AfterFetch
<1> QED
  BY <1>1, <1>2 DEF Ending

LEMMA AroundLearns ==
    ASSUME TypeOK, Safety, Knowing, Around
    PROVE  Knowing'
<1> USE DEF Knowing, machine, state
<1>1. CASE Publish
  BY <1>1 DEF Publish, PinIsKnown, ConvergedClearsPin, CurrentIsKnown, CurrentPath
<1>2. CASE RemovePin \/ DamageState
  BY <1>2 DEF RemovePin, DamageState, Fault, PinIsKnown, ConvergedClearsPin, CurrentIsKnown,
     CurrentPath
<1>3. CASE Kill \/ Replace
  BY <1>3 DEF Kill, Replace, Idle, PinIsKnown, ConvergedClearsPin, CurrentIsKnown,
     Concluding, AfterPin, AfterFetch
<1> QED
  BY <1>1, <1>2, <1>3 DEF Around

LEMMA StepLearns ==
    ASSUME IInv, Knowing, [Next]_vars
    PROVE  Knowing'
<1>1. TypeOK /\ Safety
  BY DEF IInv, Safety
<1>2. CASE UNCHANGED vars
  BY <1>2 DEF vars, Knowing, PinIsKnown, ConvergedClearsPin, CurrentIsKnown, CurrentPath
<1> QED
  BY <1>1, <1>2, DecidingLearns, RoutingLearns, ActivatingLearns, RollingBackLearns,
     EndingLearns, AroundLearns DEF Next, Running

LEMMA ReceiverKnows == Spec => []Knowing
<1>1. Init => Knowing
  BY DEF Init, Idle, Knowing, PinIsKnown, ConvergedClearsPin, CurrentIsKnown, Concluding,
     AfterPin, AfterFetch
<1>2. IInv /\ Knowing /\ [Next]_vars => Knowing'
  BY StepLearns
<1> QED
  BY <1>1, <1>2, ReceiverInvariant, PTL DEF Spec

(***************************************************************************)
(* A receiver that says Converged has no closure pinned, for every set of  *)
(* closures and any faults: a file damaged, a pin removed by an operator   *)
(* or a run killed in between included.                                    *)
(***************************************************************************)
THEOREM ConvergenceLeavesNoPin == Spec => []ConvergedClearsPin
<1>1. Knowing => ConvergedClearsPin
  BY DEF Knowing
<1> QED
  BY <1>1, ReceiverKnows, PTL

(* No other step removes the record.                                       *)
LEMMA PayingStep ==
    ASSUME TypeOK, Safety, Knowing, Next, debt # None, debt' = None
    PROVE  \/ run.outcome \in Healthy /\ CurrentPath = run.target
           \/ asked # None /\ applied' = {asked}
<1>1. CASE ClearDebt
  <2>1. run.pc = "clear" /\ run.outcome \in Healthy
    BY <1>1 DEF ClearDebt, Knowing, CurrentIsKnown
  <2>2. run.outcome = "converged" => CurrentPath = run.target
    BY <2>1 DEF Safety, ConvergedIsWhole, Concluding
  <2>3. run.outcome = "alreadyCurrent" => CurrentPath = run.target
    BY <2>1 DEF Knowing, CurrentIsKnown, Concluding
  <2> QED
    BY <2>1, <2>2, <2>3 DEF Healthy
<1>2. CASE Replace
  BY <1>2 DEF Replace
<1>3. CASE Deciding
  BY <1>3 DEF Deciding, Start, LoadDebt, DebtUnreadable, Fetch, NothingVerifies, Look,
     StageFails, ReadFails, PinUnreadable, RefuseRejected, PassPin, RecheckPasses,
     RecheckFails, ReconcileBoot, ReconcileFails, Conclude, Local, state
<1>4. CASE Activating \/ RollingBack
  BY <1>4 DEF Activating, Register, RegisterFails, SwitchStarts, MoveMarker,
     SwitchCompletes, SwitchFails, ObserveTarget, ObserveOther, ObservationFails,
     GatePasses, GateUnavailable, GateFails, ClearPin, ClearPinFails, RollingBack,
     PersistPin, PersistPinFails, NoRollback, RollbackCannotRun, RestoreProfile,
     RestoreProfileFails, Settle, Conclude, Local, state
<1>5. CASE RecordDebt
  <2>1. debt' = run.target /\ run.target \in Targets
    BY <1>5, KnownTarget DEF RecordDebt, DebtWritten, Safety
  <2> QED
    BY <2>1, NoneAssumption DEF Closures
<1>6. CASE Routing /\ ~RecordDebt
  BY <1>6 DEF Routing, Fits, ExceedsCeiling, RecordDebtFails, ReportRefusal,
     ProviderAccepts, ProviderRefuses, Reimaged, Conclude, Local, state
<1>7. CASE ClearDebtFails \/ Report \/ Publish \/ Kill \/ RemovePin \/ DamageState
  BY <1>7, NoneAssumption
     DEF ClearDebtFails, Report, Publish, Kill, RemovePin, DamageState, state
<1> QED
  BY <1>1, <1>2, <1>3, <1>4, <1>5, <1>6, <1>7 DEF Next, Running, Ending, Around

(***************************************************************************)
(* A reimage debt is never taken off the record by a run that did not find *)
(* or bring the machine to its target: for every set of closures, backend  *)
(* order and configuration, and any faults.                                *)
(***************************************************************************)
THEOREM DebtsArePaidByHealth == Spec => DebtIsPaidByHealth
<1>1. IInv => TypeOK /\ Safety
  BY DEF IInv, Safety
<1>2. TypeOK /\ Safety /\ Knowing /\ [Next]_vars
        => [debt # None /\ debt' = None =>
               \/ run.outcome \in Healthy /\ CurrentPath = run.target
               \/ asked # None /\ applied' = {asked}]_vars
  BY PayingStep
<1> QED
  BY <1>1, <1>2, ReceiverInvariant, ReceiverKnows, PTL DEF Spec, DebtIsPaidByHealth

-----------------------------------------------------------------------------
(***************************************************************************)
(* How many steps a run has before it at most.  A switch that undoes a     *)
(* rejected target is nearer to the end than the one that activated it,    *)
(* and while the marker has not moved a switch has one step more.          *)
(***************************************************************************)
Longest == 19

ToTheEnd ==
    [idle |-> 0, report |-> 1, clear |-> 2, settle |-> 3, answered |-> 3,
     reconcile |-> 3, unpin |-> 3, recheck |-> 4, provider |-> 4, refusal |-> 5,
     owe |-> 6, restore |-> 7, reject |-> 8, gate |-> 9, observe |-> 10,
     register |-> 14, size |-> 15, pin |-> 16, look |-> 17, fetch |-> 18, owed |-> 19]

StepsLeft(r, m) ==
    CASE r.pc = "switch" -> IF r.stage = None THEN 13 ELSE 6
      [] r.pc = "switching" -> (IF r.stage = None THEN 11 ELSE 4)
                               + (IF m = r.goal THEN 0 ELSE 1)
      [] OTHER -> ToTheEnd[r.pc]

(***************************************************************************)
(* A receive run ends by itself, a rejected activation and its rollback    *)
(* included: converge calls itself nowhere and waits in no loop.  After    *)
(* its start a run has at most Longest steps, every step of its own uses   *)
(* one up, and nothing that happens around it gives one back.              *)
(***************************************************************************)
EveryRunIsFinite ==
    [][/\ StepsLeft(run, marker) \in 0..Longest
       /\ run.pc # "idle" /\ Running =>
             StepsLeft(run, marker)' < StepsLeft(run, marker)
       /\ run.pc # "idle" =>
             StepsLeft(run, marker)' <= StepsLeft(run, marker)]_vars

(* The distances, spelt out.                                               *)
LEMMA Distance ==
    ASSUME NEW r \in Run, NEW m
    PROVE  /\ r.pc = "idle" => StepsLeft(r, m) = 0
           /\ r.pc = "report" => StepsLeft(r, m) = 1
           /\ r.pc = "clear" => StepsLeft(r, m) = 2
           /\ r.pc = "settle" => StepsLeft(r, m) = 3
           /\ r.pc = "answered" => StepsLeft(r, m) = 3
           /\ r.pc = "reconcile" => StepsLeft(r, m) = 3
           /\ r.pc = "unpin" => StepsLeft(r, m) = 3
           /\ r.pc = "recheck" => StepsLeft(r, m) = 4
           /\ r.pc = "provider" => StepsLeft(r, m) = 4
           /\ r.pc = "refusal" => StepsLeft(r, m) = 5
           /\ r.pc = "owe" => StepsLeft(r, m) = 6
           /\ r.pc = "restore" => StepsLeft(r, m) = 7
           /\ r.pc = "reject" => StepsLeft(r, m) = 8
           /\ r.pc = "gate" => StepsLeft(r, m) = 9
           /\ r.pc = "observe" => StepsLeft(r, m) = 10
           /\ r.pc = "register" => StepsLeft(r, m) = 14
           /\ r.pc = "size" => StepsLeft(r, m) = 15
           /\ r.pc = "pin" => StepsLeft(r, m) = 16
           /\ r.pc = "look" => StepsLeft(r, m) = 17
           /\ r.pc = "fetch" => StepsLeft(r, m) = 18
           /\ r.pc = "owed" => StepsLeft(r, m) = 19
           /\ r.pc = "switch" => StepsLeft(r, m) = IF r.stage = None THEN 13 ELSE 6
           /\ r.pc = "switching" =>
                StepsLeft(r, m) = (IF r.stage = None THEN 11 ELSE 4)
                                  + (IF m = r.goal THEN 0 ELSE 1)
BY DEF StepsLeft, ToTheEnd

LEMMA WithinLongest ==
    ASSUME NEW r \in Run, NEW m
    PROVE  StepsLeft(r, m) \in 0..Longest
<1>1. r.pc \in Steps
  BY DEF Run
<1> QED
  BY <1>1, Distance DEF Steps, Longest

(* An outcome is two steps from the end, and every place that gives one is *)
(* farther away.                                                           *)
LEMMA ConcludingIsForward ==
    ASSUME TypeOK, run' \in Run, NEW outcome, Concluded(outcome),
           run.pc \notin {"idle"} \union Concluding
    PROVE  StepsLeft(run', marker') < StepsLeft(run, marker)
<1>1. run \in Run /\ run.pc \in Steps
  BY DEF TypeOK, Run
<1>2. StepsLeft(run', marker') \in 1..2
  <2>1. run'.pc \in {"clear", "report"}
    BY <1>1, ConcludedFields DEF Concluding
  <2> QED
    BY <2>1, Distance
<1>3. StepsLeft(run, marker) > 2
  BY <1>1, Distance DEF Steps, Concluding
<1> QED
  BY <1>2, <1>3, WithinLongest, <1>1 DEF Longest

LEMMA DecidingIsForward ==
    ASSUME TypeOK, run' \in Run, Deciding, run.pc # "idle"
    PROVE  StepsLeft(run', marker') < StepsLeft(run, marker)
<1>0. run \in Run
  BY DEF TypeOK
<1>1. CASE Start
  BY <1>1 DEF Start
<1>2. CASE LoadDebt \/ Fetch \/ Look \/ PassPin
  <2>1. \/ run.pc = "owed" /\ run'.pc = "fetch"
        \/ run.pc = "fetch" /\ run'.pc = "look"
        \/ run.pc = "look" /\ run'.pc = "pin"
        \/ run.pc = "pin" /\ run'.pc \in {"recheck", "size"}
    BY <1>0, <1>2 DEF LoadDebt, Fetch, Look, PassPin, Run
  <2> QED
    BY <1>0, <2>1, Distance
<1>3. CASE RecheckPasses
  <2>1. run.pc = "recheck" /\ (Goto("reconcile") \/ Concluded("alreadyCurrent"))
    BY <1>3 DEF RecheckPasses
  <2>2. CASE Goto("reconcile")
    <3>1. run'.pc = "reconcile"
      BY <1>0, <2>2 DEF Goto, Run
    <3> QED
      BY <1>0, <2>1, <3>1, Distance
  <2> QED
    BY <2>1, <2>2, ConcludingIsForward DEF Concluding
<1>4. CASE DebtUnreadable \/ NothingVerifies \/ StageFails \/ ReadFails \/ PinUnreadable
           \/ RefuseRejected \/ RecheckFails \/ ReconcileBoot \/ ReconcileFails
  <2>1. /\ run.pc \notin {"idle"} \union Concluding
        /\ \E outcome \in Outcomes : Concluded(outcome)
    BY <1>4, OutcomeNames
       DEF DebtUnreadable, NothingVerifies, StageFails, FailsAs, ReadFails, PinUnreadable,
           RefuseRejected, RecheckFails, ReconcileBoot, ReconcileFails, Conclude, Concluding
  <2> QED
    BY <2>1, ConcludingIsForward
<1> QED
  BY <1>1, <1>2, <1>3, <1>4 DEF Deciding

LEMMA RoutingIsForward ==
    ASSUME TypeOK, run' \in Run, Routing
    PROVE  StepsLeft(run', marker') < StepsLeft(run, marker)
<1>0. run \in Run
  BY DEF TypeOK
<1>1. CASE Fits \/ ExceedsCeiling \/ ReportRefusal \/ ProviderAccepts
  <2>1. \/ run.pc = "size" /\ run'.pc \in {"register", "owe"}
        \/ run.pc = "refusal" /\ run'.pc = "provider"
        \/ run.pc = "provider" /\ run'.pc = "answered"
    BY <1>0, <1>1 DEF Fits, ExceedsCeiling, ReportRefusal, ProviderAccepts, Goto, Run
  <2> QED
    BY <1>0, <2>1, Distance
<1>2. CASE RecordDebt
  <2>1. /\ run.pc = "owe"
        /\ Goto("refusal") \/ Concluded("reimage") \/ Concluded("refused")
    BY <1>2 DEF RecordDebt
  <2>2. CASE Goto("refusal")
    <3>1. run'.pc = "refusal"
      BY <1>0, <2>2 DEF Goto, Run
    <3> QED
      BY <1>0, <2>1, <3>1, Distance
  <2> QED
    BY <2>1, <2>2, ConcludingIsForward DEF Concluding
<1>3. CASE RecordDebtFails \/ ProviderRefuses \/ Reimaged
  <2>1. /\ run.pc \in {"owe", "provider", "answered"}
        /\ \E outcome \in Outcomes : Concluded(outcome)
    BY <1>3, OutcomeNames DEF RecordDebtFails, ProviderRefuses, Reimaged, Conclude
  <2> QED
    BY <2>1, ConcludingIsForward DEF Concluding
<1> QED
  BY <1>1, <1>2, <1>3 DEF Routing

LEMMA ActivatingIsForward ==
    ASSUME TypeOK, LocalsAreSet, run' \in Run, Activating
    PROVE  StepsLeft(run', marker') < StepsLeft(run, marker)
<1>0. run \in Run
  BY DEF TypeOK
<1>1. CASE Register
  <2>1. run.pc = "register" /\ run'.pc = "switch"
    BY <1>0, <1>1 DEF Register, Run
  <2> QED
    BY <1>0, <2>1, Distance
<1>2. CASE RegisterFails \/ ObserveTarget \/ ObserveOther \/ ObservationFails \/ GateFails
  <2>1. \/ run.pc = "register" /\ run'.pc = "observe"
        \/ run.pc = "observe" /\ run'.pc \in {"gate", "reject"}
        \/ run.pc = "gate" /\ run'.pc = "reject"
    BY <1>0, <1>2 DEF RegisterFails, ObserveTarget, ObserveOther, ObservationFails,
       GateFails, Rejecting, Goto, Run
  <2> QED
    BY <1>0, <2>1, Distance
<1>3. CASE SwitchStarts
  <2>1. run.pc = "switch" /\ run'.pc = "switching" /\ run'.stage = run.stage
    BY <1>0, <1>3 DEF SwitchStarts, Goto, Run
  <2> QED
    BY <1>0, <2>1, Distance
<1>4. CASE MoveMarker
  <2>1. run.pc = "switching" /\ run' = run /\ marker # run.goal /\ marker' = run.goal
    BY <1>4 DEF MoveMarker
  <2> QED
    BY <1>0, <2>1, Distance
<1>5. CASE SwitchCompletes \/ SwitchFails
  <2>1. run.pc \in Switching /\ run'.pc = AfterSwitch
    BY <1>0, <1>5 DEF SwitchCompletes, SwitchFails, AfterSwitch, Switching, Run
  <2>2. \/ run.goal = run.target /\ run.stage = None
        \/ run.goal = run.seen /\ run.stage # None
    BY <2>1 DEF LocalsAreSet
  <2>3. run.seen # run.target
    BY <2>1 DEF LocalsAreSet, Committed, AfterPin, AfterFetch, Steps, Switching
  <2>4. StepsLeft(run, marker) >= IF run.stage = None THEN 11 ELSE 4
    BY <1>0, <2>1, Distance DEF Switching
  <2>5. StepsLeft(run', marker') = IF run.stage = None THEN 10 ELSE 3
    BY <2>1, <2>2, <2>3, Distance DEF AfterSwitch
  <2> QED
    BY <1>0, <2>4, <2>5, WithinLongest DEF Longest
<1>6. CASE GatePasses /\ run.pinned
  <2>1. run.pc = "gate" /\ run'.pc = "unpin"
    BY <1>0, <1>6 DEF GatePasses, Goto, Run
  <2> QED
    BY <1>0, <2>1, Distance
<1>7. CASE (GatePasses /\ ~run.pinned) \/ GateUnavailable \/ ClearPin \/ ClearPinFails
  <2>1. /\ run.pc \in {"gate", "unpin"}
        /\ \E outcome \in Outcomes : Concluded(outcome)
    BY <1>7, OutcomeNames DEF GatePasses, GateUnavailable, ClearPin, ClearPinFails, Conclude
  <2> QED
    BY <2>1, ConcludingIsForward DEF Concluding
<1> QED
  BY <1>1, <1>2, <1>3, <1>4, <1>5, <1>6, <1>7 DEF Activating

LEMMA RollingBackIsForward ==
    ASSUME TypeOK, LocalsAreSet, run' \in Run, RollingBack
    PROVE  StepsLeft(run', marker') < StepsLeft(run, marker)
<1>0. run \in Run
  BY DEF TypeOK
<1>1. CASE PersistPin \/ PersistPinFails \/ RestoreProfile \/ RestoreProfileFails
  <2>1. \/ run.pc = "reject" /\ run'.pc = "restore"
        \/ run.pc = "restore" /\ run'.pc = "switch" /\ run'.stage = run.stage
        \/ run.pc = "restore" /\ run'.pc = "settle"
    BY <1>0, <1>1 DEF PersistPin, PersistPinFails, RestoreProfile, RestoreProfileFails,
       Goto, Run
  <2>2. run.pc = "restore" => run.stage # None
    BY DEF LocalsAreSet
  <2> QED
    BY <1>0, <2>1, <2>2, Distance
<1>2. CASE NoRollback \/ RollbackCannotRun \/ Settle
  <2>1. /\ run.pc \in {"restore", "settle"}
        /\ \E outcome \in Outcomes \union {run.stage} : Concluded(outcome)
    BY <1>2, OutcomeNames DEF NoRollback, RollbackCannotRun, Settle, Conclude
  <2> QED
    BY <2>1, ConcludingIsForward DEF Concluding
<1> QED
  BY <1>1, <1>2 DEF RollingBack

LEMMA EndingIsForward ==
    ASSUME TypeOK, run' \in Run, Ending
    PROVE  StepsLeft(run', marker') < StepsLeft(run, marker)
<1>0. run \in Run
  BY DEF TypeOK
<1>1. CASE ClearDebt \/ ClearDebtFails
  <2>1. run.pc = "clear" /\ run'.pc = "report"
    BY <1>0, <1>1 DEF ClearDebt, ClearDebtFails, Goto, Run
  <2> QED
    BY <1>0, <2>1, Distance
<1>2. CASE Report
  <2>1. run.pc = "report" /\ run'.pc = "idle"
    BY <1>2 DEF Report, Idle
  <2> QED
    BY <1>0, <2>1, Distance
<1> QED
  BY <1>1, <1>2 DEF Ending

(* What happens around a run leaves it where it is or is the end of it.    *)
LEMMA AroundIsNoDetour ==
    ASSUME TypeOK, run' \in Run, Around
    PROVE  StepsLeft(run', marker') <= StepsLeft(run, marker)
<1>0. run \in Run
  BY DEF TypeOK
<1>1. CASE Publish \/ RemovePin \/ DamageState
  <2>1. run' = run /\ marker' = marker
    BY <1>1 DEF Publish, RemovePin, DamageState, machine
  <2> QED
    BY <1>0, <2>1, WithinLongest DEF Longest
<1>2. CASE Kill \/ Replace
  <2>1. run'.pc = "idle"
    BY <1>2 DEF Kill, Replace, Idle
  <2>2. StepsLeft(run', marker') = 0
    BY <2>1, Distance
  <2> QED
    BY <1>0, <2>2, WithinLongest DEF Longest
<1> QED
  BY <1>1, <1>2 DEF Around

(***************************************************************************)
(* No run of a receiver goes on for ever: what Settles needs besides       *)
(* fairness.                                                               *)
(***************************************************************************)
THEOREM RunsAreFinite == Spec => EveryRunIsFinite
<1>1. ASSUME TypeOK, LocalsAreSet, TypeOK', [Next]_vars
      PROVE  [/\ StepsLeft(run, marker) \in 0..Longest
              /\ run.pc # "idle" /\ Running =>
                    StepsLeft(run, marker)' < StepsLeft(run, marker)
              /\ run.pc # "idle" =>
                    StepsLeft(run, marker)' <= StepsLeft(run, marker)]_vars
  <2> SUFFICES ASSUME Next
               PROVE  /\ StepsLeft(run, marker) \in 0..Longest
                      /\ run.pc # "idle" /\ Running =>
                            StepsLeft(run', marker') < StepsLeft(run, marker)
                      /\ run.pc # "idle" =>
                            StepsLeft(run', marker') <= StepsLeft(run, marker)
    BY <1>1
  <2>1. run \in Run /\ run' \in Run
    BY <1>1 DEF TypeOK
  <2>2. /\ StepsLeft(run, marker) \in 0..Longest
        /\ StepsLeft(run', marker') \in 0..Longest
    BY <2>1, WithinLongest
  <2>3. run.pc # "idle" /\ Running => StepsLeft(run', marker') < StepsLeft(run, marker)
    BY <1>1, <2>1, DecidingIsForward, RoutingIsForward, ActivatingIsForward,
       RollingBackIsForward, EndingIsForward DEF Running
  <2>4. Around => StepsLeft(run', marker') <= StepsLeft(run, marker)
    BY <1>1, <2>1, AroundIsNoDetour
  <2> QED
    BY <2>2, <2>3, <2>4 DEF Next, Longest
<1>2. IInv => TypeOK /\ LocalsAreSet
  BY DEF IInv
<1> QED
  BY <1>1, <1>2, ReceiverInvariant, PTL DEF Spec, EveryRunIsFinite

-----------------------------------------------------------------------------
(***************************************************************************)
(* What a run keeps by itself, whoever else is at work on the machine.     *)
(***************************************************************************)
ClearIsHealthy == run.pc = "clear" => run.outcome \in Healthy

RunKeepsLocals == LocalsAreSet /\ ClearIsHealthy

LEMMA ConcludedKeepsLocals ==
    ASSUME run \in Run, LocalsAreSet, NEW outcome, Concluded(outcome), run.pc # "idle"
    PROVE  RunKeepsLocals'
<1>1. /\ run'.pc \in {"clear", "report"} /\ run'.config = run.config
      /\ run'.stage = run.stage
  BY ConcludedFields DEF Concluding
<1>2. run'.config \in Closures
  <2>1. run.pc # "idle" => run.config \in Closures
    BY DEF LocalsAreSet
  <2> QED
    BY <1>1, <2>1
<1>3. ClearIsHealthy'
  BY OnlyHealthClears DEF ClearIsHealthy
<1> QED
  BY <1>1, <1>2, <1>3 DEF RunKeepsLocals, LocalsAreSet, AfterFetch, AfterPin, Committed,
     Switching, Undoing, Concluding

LEMMA DecidingKeepsLocals ==
    ASSUME TypeOK, LocalsAreSet, Deciding
    PROVE  RunKeepsLocals'
<1>0. run \in Run
  BY DEF TypeOK
<1> USE DEF LocalsAreSet, ClearIsHealthy, RunKeepsLocals, AfterFetch, AfterPin, Committed,
     Switching, Undoing, Concluding
<1>1. CASE Start
  BY <1>1 DEF Start, Idle, TypeOK
<1>2. CASE LoadDebt \/ Look
  <2>1. /\ run'.config = run.config /\ run'.target = run.target /\ run'.stage = run.stage
        /\ \/ run.pc = "owed" /\ run'.pc = "fetch"
           \/ run.pc = "look" /\ run'.pc = "pin" /\ run'.seen = CurrentPath
    BY <1>0, <1>2 DEF LoadDebt, Look, Run
  <2>2. CurrentPath \in Closures
    BY DEF CurrentPath, TypeOK
  <2> QED
    BY <2>1, <2>2, StepNames
<1>3. CASE Fetch
  BY <1>0, <1>3 DEF Fetch, TypeOK, Run
<1>4. CASE PassPin
  <2>1. /\ run'.config = run.config /\ run'.target = run.target
        /\ run'.seen = run.seen /\ run'.stage = run.stage
    BY <1>0, <1>4 DEF PassPin, Run
  <2>2. \/ run'.pc = "recheck"
        \/ run'.pc = "size" /\ run.seen # run.target
    BY <1>0, <1>4 DEF PassPin, Run
  <2>3. run.pc = "pin"
    BY <1>4 DEF PassPin
  <2> QED
    BY <1>0, <2>1, <2>2, <2>3, StepNames DEF Run
<1>5. CASE RecheckPasses
  <2>1. run.pc = "recheck" /\ (Goto("reconcile") \/ Concluded("alreadyCurrent"))
    BY <1>5 DEF RecheckPasses
  <2>2. CASE Goto("reconcile")
    BY <1>0, <2>1, <2>2, StepNames DEF Goto, Run
  <2> QED
    BY <1>0, <2>1, <2>2, ConcludedKeepsLocals
<1>6. CASE DebtUnreadable \/ NothingVerifies \/ StageFails \/ ReadFails \/ PinUnreadable
           \/ RefuseRejected \/ RecheckFails \/ ReconcileBoot \/ ReconcileFails
  <2>1. run.pc # "idle" /\ \E outcome \in Outcomes : Concluded(outcome)
    BY <1>6, OutcomeNames
       DEF DebtUnreadable, NothingVerifies, StageFails, FailsAs, ReadFails, PinUnreadable,
           RefuseRejected, RecheckFails, ReconcileBoot, ReconcileFails, Conclude
  <2> QED
    BY <1>0, <2>1, ConcludedKeepsLocals
<1> QED
  BY <1>1, <1>2, <1>3, <1>4, <1>5, <1>6 DEF Deciding

LEMMA RoutingKeepsLocals ==
    ASSUME TypeOK, LocalsAreSet, Routing
    PROVE  RunKeepsLocals'
<1>0. run \in Run
  BY DEF TypeOK
<1> USE DEF LocalsAreSet, ClearIsHealthy, RunKeepsLocals, AfterFetch, AfterPin, Committed,
     Switching, Undoing, Concluding
<1>1. CASE Fits \/ ExceedsCeiling \/ ReportRefusal \/ ProviderAccepts
  BY <1>0, <1>1, StepNames DEF Fits, ExceedsCeiling, ReportRefusal, ProviderAccepts, Goto,
     Run
<1>2. CASE RecordDebt
  <2>1. /\ run.pc = "owe"
        /\ Goto("refusal") \/ Concluded("reimage") \/ Concluded("refused")
    BY <1>2 DEF RecordDebt
  <2>2. CASE Goto("refusal")
    BY <1>0, <2>1, <2>2, StepNames DEF Goto, Run
  <2> QED
    BY <1>0, <2>1, <2>2, ConcludedKeepsLocals
<1>3. CASE RecordDebtFails \/ ProviderRefuses \/ Reimaged
  <2>1. run.pc # "idle" /\ \E outcome \in Outcomes : Concluded(outcome)
    BY <1>3, OutcomeNames DEF RecordDebtFails, ProviderRefuses, Reimaged, Conclude
  <2> QED
    BY <1>0, <2>1, ConcludedKeepsLocals
<1> QED
  BY <1>1, <1>2, <1>3 DEF Routing

LEMMA ActivatingKeepsLocals ==
    ASSUME TypeOK, LocalsAreSet, Activating
    PROVE  RunKeepsLocals'
<1>0. run \in Run
  BY DEF TypeOK
<1> USE DEF LocalsAreSet, ClearIsHealthy, RunKeepsLocals, AfterFetch, AfterPin, Committed,
     Switching, Undoing, Concluding
<1>1. CASE Register \/ RegisterFails
  <2>1. /\ run'.config = run.config /\ run'.target = run.target
        /\ run'.seen = run.seen /\ run'.stage = run.stage /\ run'.goal = run.target
        /\ run.pc = "register" /\ run'.pc \in {"switch", "observe"}
    BY <1>0, <1>1 DEF Register, RegisterFails, Run
  <2> QED
    BY <2>1, StepNames
<1>2. CASE SwitchStarts \/ MoveMarker
  BY <1>0, <1>2, StepNames DEF SwitchStarts, MoveMarker, Goto, Run
<1>3. CASE SwitchCompletes \/ SwitchFails
  BY <1>0, <1>3, StepNames DEF SwitchCompletes, SwitchFails, AfterSwitch, Run
<1>4. CASE ObserveTarget
  BY <1>0, <1>4, StepNames DEF ObserveTarget, Goto, Run
<1>7. CASE ObserveOther \/ ObservationFails \/ GateFails
  <2>1. /\ run'.config = run.config /\ run'.target = run.target
        /\ run'.seen = run.seen /\ run'.stage \in {"activate", "healthCheckFailed"}
        /\ run.pc \in {"observe", "gate"} /\ run'.pc = "reject"
    BY <1>0, <1>7 DEF ObserveOther, ObservationFails, GateFails, Rejecting, Run
  <2> QED
    BY <2>1, NoneAssumption, OutcomeNames, StepNames
<1>5. CASE GatePasses
  <2>1. run.pc = "gate" /\ (Goto("unpin") \/ Concluded("converged"))
    BY <1>5 DEF GatePasses
  <2>2. CASE Goto("unpin")
    BY <1>0, <2>1, <2>2, StepNames DEF Goto, Run
  <2> QED
    BY <1>0, <2>1, <2>2, ConcludedKeepsLocals
<1>6. CASE GateUnavailable \/ ClearPin \/ ClearPinFails
  <2>1. run.pc # "idle" /\ \E outcome \in Outcomes : Concluded(outcome)
    BY <1>6, OutcomeNames DEF GateUnavailable, ClearPin, ClearPinFails, Conclude
  <2> QED
    BY <1>0, <2>1, ConcludedKeepsLocals
<1> QED
  BY <1>1, <1>2, <1>3, <1>4, <1>5, <1>6, <1>7 DEF Activating

LEMMA RollingBackKeepsLocals ==
    ASSUME TypeOK, LocalsAreSet, RollingBack
    PROVE  RunKeepsLocals'
<1>0. run \in Run
  BY DEF TypeOK
<1> USE DEF LocalsAreSet, ClearIsHealthy, RunKeepsLocals, AfterFetch, AfterPin, Committed,
     Switching, Undoing, Concluding
<1>1. CASE PersistPin \/ PersistPinFails \/ RestoreProfile \/ RestoreProfileFails
  BY <1>0, <1>1, StepNames DEF PersistPin, PersistPinFails, RestoreProfile,
     RestoreProfileFails, Goto, Run
<1>2. CASE NoRollback \/ RollbackCannotRun \/ Settle
  <2>1. run.pc # "idle" /\ \E outcome \in Outcomes \union {run.stage} : Concluded(outcome)
    BY <1>2, OutcomeNames DEF NoRollback, RollbackCannotRun, Settle, Conclude
  <2> QED
    BY <1>0, <2>1, ConcludedKeepsLocals
<1> QED
  BY <1>1, <1>2 DEF RollingBack

LEMMA EndingKeepsLocals ==
    ASSUME TypeOK, LocalsAreSet, Ending
    PROVE  RunKeepsLocals'
<1>0. run \in Run
  BY DEF TypeOK
<1> USE DEF LocalsAreSet, ClearIsHealthy, RunKeepsLocals, AfterFetch, AfterPin, Committed,
     Switching, Undoing, Concluding
<1>1. CASE ClearDebt \/ ClearDebtFails
  <2>1. /\ run'.config = run.config /\ run'.stage = run.stage
        /\ run.pc = "clear" /\ run'.pc = "report"
    BY <1>0, <1>1 DEF ClearDebt, ClearDebtFails, Goto, Run
  <2> QED
    BY <2>1, StepNames
<1>2. CASE Report
  BY <1>2 DEF Report, Idle
<1> QED
  BY <1>1, <1>2 DEF Ending

LEMMA RunningKeepsLocals ==
    ASSUME TypeOK, LocalsAreSet, Running
    PROVE  TypeOK' /\ RunKeepsLocals'
BY DecidingType, RoutingType, ActivatingType, RollingBackType, EndingType,
   DecidingKeepsLocals, RoutingKeepsLocals, ActivatingKeepsLocals, RollingBackKeepsLocals,
   EndingKeepsLocals DEF Running

(* A run that does not move keeps its locals, an idle one has none.        *)
LEMMA RestingRun ==
    ASSUME RunKeepsLocals, run' = run \/ run' = Idle
    PROVE  RunKeepsLocals'
BY DEF RunKeepsLocals, LocalsAreSet, ClearIsHealthy, Idle, AfterFetch, AfterPin, Committed,
   Switching, Undoing, Concluding

LEMMA RunningIsForward ==
    ASSUME TypeOK, LocalsAreSet, Running, run.pc # "idle"
    PROVE  StepsLeft(run', marker') < StepsLeft(run, marker)
<1>1. run' \in Run
  BY RunningKeepsLocals DEF TypeOK
<1> QED
  BY <1>1, DecidingIsForward, RoutingIsForward, ActivatingIsForward, RollingBackIsForward,
     EndingIsForward DEF Running

(* currentPath's marker is moved by a switch under way, and by nothing else.*)
LEMMA MarkerIsSwitched ==
    ASSUME Running, marker' # marker
    PROVE  run.pc = "switching"
<1>1. CASE Activating
  BY <1>1 DEF Activating, Register, RegisterFails, SwitchStarts, MoveMarker,
     SwitchCompletes, SwitchFails, ObserveTarget, ObserveOther, ObservationFails,
     GatePasses, GateUnavailable, GateFails, ClearPin, ClearPinFails, Conclude, Local, machine
<1>2. CASE Deciding
  BY <1>2 DEF Deciding, Start, LoadDebt, DebtUnreadable, Fetch, NothingVerifies, Look,
     StageFails, ReadFails, PinUnreadable, RefuseRejected, PassPin, RecheckPasses,
     RecheckFails, ReconcileBoot, ReconcileFails, Conclude, Local, machine
<1>3. CASE Routing \/ RollingBack \/ Ending
  BY <1>3 DEF Routing, Fits, ExceedsCeiling, RecordDebt, RecordDebtFails, ReportRefusal,
     ProviderAccepts, ProviderRefuses, Reimaged, RollingBack, PersistPin, PersistPinFails,
     NoRollback, RollbackCannotRun, RestoreProfile, RestoreProfileFails, Settle, Ending,
     ClearDebt, ClearDebtFails, Report, Conclude, Local, machine
<1> QED
  BY <1>1, <1>2, <1>3 DEF Running

(* A run takes a debt off the record in one place.                         *)
LEMMA DebtIsCleared ==
    ASSUME TypeOK, LocalsAreSet, Running, debt # None, debt' = None
    PROVE  run.pc = "clear"
<1>1. CASE RecordDebt
  <2>1. debt' = run.target /\ run.target \in Targets
    BY <1>1, KnownTarget DEF RecordDebt, DebtWritten
  <2> QED
    BY <2>1, NoneAssumption DEF Closures
<1>2. CASE Deciding
  BY <1>2 DEF Deciding, Start, LoadDebt, DebtUnreadable, Fetch, NothingVerifies, Look,
     StageFails, ReadFails, PinUnreadable, RefuseRejected, PassPin, RecheckPasses,
     RecheckFails, ReconcileBoot, ReconcileFails, Conclude, Local, state
<1>3. CASE Activating
  BY <1>3 DEF Activating, Register, RegisterFails, SwitchStarts, MoveMarker,
     SwitchCompletes, SwitchFails, ObserveTarget, ObserveOther, ObservationFails,
     GatePasses, GateUnavailable, GateFails, ClearPin, ClearPinFails, Conclude, Local, state
<1>4. CASE RollingBack
  BY <1>4 DEF RollingBack, PersistPin, PersistPinFails, NoRollback, RollbackCannotRun,
     RestoreProfile, RestoreProfileFails, Settle, Conclude, state
<1>5. CASE Routing /\ ~RecordDebt
  BY <1>5 DEF Routing, Fits, ExceedsCeiling, RecordDebtFails, ReportRefusal,
     ProviderAccepts, ProviderRefuses, Reimaged, Conclude, Local, state
<1>6. CASE Ending
  BY <1>6 DEF Ending, ClearDebt, ClearDebtFails, Report, state
<1> QED
  BY <1>1, <1>2, <1>3, <1>4, <1>5, <1>6 DEF Running
=============================================================================
