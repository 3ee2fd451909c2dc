-------------------------- MODULE TwoReceiversProofs --------------------------
(***************************************************************************)
(* What two receivers on one machine keep for each other without a lock,   *)
(* for every set of targets, backend order and configuration, and any      *)
(* faults.  What ReceiverProofs says of run holds of hand as well: Hand is *)
(* that module again, with the run by hand in the place of the timer's.    *)
(***************************************************************************)
EXTENDS TwoReceivers, ReceiverProofs

Hand == INSTANCE ReceiverProofs WITH run <- hand

LEMMA SameAssumptions ==
    /\ Hand!ClosuresAssumption /\ Hand!NoneAssumption /\ Hand!CorruptAssumption
    /\ Hand!MarkerAssumption /\ Hand!ConfigAssumption /\ Hand!FaultsAssumption
    /\ Hand!BoundsAssumption
BY ClosuresAssumption, NoneAssumption, CorruptAssumption, MarkerAssumption, ConfigAssumption,
   FaultsAssumption, BoundsAssumption
   DEF Closures, Hand!Closures, Outcomes, Hand!Outcomes, Stages, Hand!Stages, Healthy,
       Hand!Healthy, FaultKinds, Hand!FaultKinds, Hand!ClosuresAssumption,
       Hand!NoneAssumption, Hand!CorruptAssumption, Hand!MarkerAssumption,
       Hand!ConfigAssumption, Hand!FaultsAssumption, Hand!BoundsAssumption

(* The actions of the run by hand, read through the one and the other.     *)
LEMMA DecidingByHand == ByHand!Deciding => Hand!Deciding
BY DEF ByHand!Deciding, Hand!Deciding, ByHand!Start, Hand!Start, ByHand!LoadDebt,
       Hand!LoadDebt, ByHand!DebtUnreadable, Hand!DebtUnreadable, ByHand!Fetch, Hand!Fetch,
       ByHand!NothingVerifies, Hand!NothingVerifies, ByHand!Look, Hand!Look,
       ByHand!StageFails, Hand!StageFails, ByHand!ReadFails, Hand!ReadFails,
       ByHand!PinUnreadable, Hand!PinUnreadable, ByHand!RefuseRejected,
       Hand!RefuseRejected, ByHand!PassPin, Hand!PassPin, ByHand!RecheckPasses,
       Hand!RecheckPasses, ByHand!RecheckFails, Hand!RecheckFails, ByHand!ReconcileBoot,
       Hand!ReconcileBoot, ByHand!ReconcileFails, Hand!ReconcileFails, ByHand!Conclude,
       Hand!Conclude, ByHand!Concluded, Hand!Concluded, ByHand!Local, Hand!Local,
       ByHand!Goto, Hand!Goto, ByHand!Fault, Hand!Fault, ByHand!Idle, Hand!Idle,
       ByHand!OwedOnDisk, Hand!OwedOnDisk, ByHand!CurrentPath, Hand!CurrentPath,
       ByHand!FailsAs, Hand!FailsAs, ByHand!PinAllows, Hand!PinAllows, ByHand!Reconciled,
       Hand!Reconciled, ByHand!Healthy, Hand!Healthy, ByHand!machine, Hand!machine,
       ByHand!state, Hand!state, ByHand!outside, Hand!outside

LEMMA RoutingByHand == ByHand!Routing => Hand!Routing
BY DEF ByHand!Routing, Hand!Routing, ByHand!Fits, Hand!Fits, ByHand!ExceedsCeiling,
       Hand!ExceedsCeiling, ByHand!RecordDebt, Hand!RecordDebt, ByHand!RecordDebtFails,
       Hand!RecordDebtFails, ByHand!ReportRefusal, Hand!ReportRefusal,
       ByHand!ProviderAccepts, Hand!ProviderAccepts, ByHand!ProviderRefuses,
       Hand!ProviderRefuses, ByHand!Reimaged, Hand!Reimaged, ByHand!Conclude,
       Hand!Conclude, ByHand!Concluded, Hand!Concluded, ByHand!Local, Hand!Local,
       ByHand!Goto, Hand!Goto, ByHand!Fault, Hand!Fault, ByHand!DebtWritten,
       Hand!DebtWritten, ByHand!Emitted, Hand!Emitted, ByHand!Healthy, Hand!Healthy,
       ByHand!machine, Hand!machine, ByHand!state, Hand!state, ByHand!outside,
       Hand!outside

LEMMA ActivatingByHand == ByHand!Activating => Hand!Activating
BY DEF ByHand!Activating, Hand!Activating, ByHand!Register, Hand!Register,
       ByHand!RegisterFails, Hand!RegisterFails, ByHand!SwitchStarts, Hand!SwitchStarts,
       ByHand!MoveMarker, Hand!MoveMarker, ByHand!SwitchCompletes, Hand!SwitchCompletes,
       ByHand!SwitchFails, Hand!SwitchFails, ByHand!ObserveTarget, Hand!ObserveTarget,
       ByHand!ObserveOther, Hand!ObserveOther, ByHand!ObservationFails,
       Hand!ObservationFails, ByHand!GatePasses, Hand!GatePasses, ByHand!GateUnavailable,
       Hand!GateUnavailable, ByHand!GateFails, Hand!GateFails, ByHand!ClearPin,
       Hand!ClearPin, ByHand!ClearPinFails, Hand!ClearPinFails, ByHand!Conclude,
       Hand!Conclude, ByHand!Concluded, Hand!Concluded, ByHand!Local, Hand!Local,
       ByHand!Goto, Hand!Goto, ByHand!Fault, Hand!Fault, ByHand!CurrentPath,
       Hand!CurrentPath, ByHand!ProfileRegistered, Hand!ProfileRegistered,
       ByHand!AfterSwitch, Hand!AfterSwitch, ByHand!Succeeded, Hand!Succeeded,
       ByHand!Rejecting, Hand!Rejecting, ByHand!Healthy, Hand!Healthy, ByHand!machine,
       Hand!machine, ByHand!state, Hand!state, ByHand!outside, Hand!outside

LEMMA RollingBackByHand == ByHand!RollingBack => Hand!RollingBack
BY DEF ByHand!RollingBack, Hand!RollingBack, ByHand!PersistPin, Hand!PersistPin,
       ByHand!PersistPinFails, Hand!PersistPinFails, ByHand!NoRollback, Hand!NoRollback,
       ByHand!RollbackCannotRun, Hand!RollbackCannotRun, ByHand!RestoreProfile,
       Hand!RestoreProfile, ByHand!RestoreProfileFails, Hand!RestoreProfileFails,
       ByHand!Settle, Hand!Settle, ByHand!Conclude, Hand!Conclude, ByHand!Concluded,
       Hand!Concluded, ByHand!Goto, Hand!Goto, ByHand!Fault, Hand!Fault,
       ByHand!CurrentPath, Hand!CurrentPath, ByHand!PinOfRejected, Hand!PinOfRejected,
       ByHand!Restored, Hand!Restored, ByHand!Poison, Hand!Poison, ByHand!Healthy,
       Hand!Healthy, ByHand!machine, Hand!machine, ByHand!state, Hand!state,
       ByHand!outside, Hand!outside

LEMMA EndingByHand == ByHand!Ending => Hand!Ending
BY DEF ByHand!Ending, Hand!Ending, ByHand!ClearDebt, Hand!ClearDebt, ByHand!ClearDebtFails,
       Hand!ClearDebtFails, ByHand!Report, Hand!Report, ByHand!Goto, Hand!Goto,
       ByHand!Fault, Hand!Fault, ByHand!Idle, Hand!Idle, ByHand!Emitted, Hand!Emitted,
       ByHand!machine, Hand!machine, ByHand!state, Hand!state, ByHand!outside,
       Hand!outside

LEMMA RunningByHand == ByHand!Running => Hand!Running
BY DecidingByHand, RoutingByHand, ActivatingByHand, RollingBackByHand, EndingByHand
   DEF ByHand!Running, Hand!Running

LEMMA SameRuns ==
    /\ Hand!Run = Run
    /\ Hand!Healthy = Healthy
    /\ Hand!Switching = Switching
    /\ Hand!Idle = Idle
BY DEF Run, Hand!Run, Steps, Hand!Steps, Closures, Hand!Closures, Outcomes, Hand!Outcomes,
       Healthy, Hand!Healthy, Stages, Hand!Stages, Switching, Hand!Switching, Idle, Hand!Idle

LEMMA SameDistance ==
    ASSUME NEW r, NEW m
    PROVE  Hand!StepsLeft(r, m) = StepsLeft(r, m)
BY DEF StepsLeft, Hand!StepsLeft, ToTheEnd, Hand!ToTheEnd

(* Types for both: they share everything but the run.                      *)
LEMMA SameTypes ==
    ASSUME TypeOK, hand \in Run
    PROVE  Hand!TypeOK
BY SameRuns DEF TypeOK, Hand!TypeOK, Closures, Hand!Closures

-----------------------------------------------------------------------------
(***************************************************************************)
(* The invariant: each run's own bookkeeping, and one switch at a time.    *)
(* The parts of Receiver!IInv that speak of the pin, the profile and what  *)
(* is in force are not here: the other run may change all three.           *)
(***************************************************************************)
OneAtATime == ~(run.pc \in Switching /\ hand.pc \in Switching)

InvBoth ==
    /\ TypeOK
    /\ hand \in Run
    /\ RunKeepsLocals
    /\ Hand!RunKeepsLocals
    /\ OneAtATime

LEMMA RestingHand ==
    ASSUME Hand!RunKeepsLocals, hand' = hand \/ hand' = Idle
    PROVE  Hand!RunKeepsLocals'
BY SameAssumptions, SameRuns, Hand!RestingRun

LEMMA IdleRun == Idle \in Run /\ Idle.pc = "idle"
BY StepNames DEF Idle, Run

LEMMA TimerStep ==
    ASSUME InvBoth, ByTimer
    PROVE  InvBoth'
<1>1. TypeOK' /\ RunKeepsLocals'
  BY RunningKeepsLocals DEF InvBoth, RunKeepsLocals, ByTimer
<1>2. hand' \in Run /\ Hand!RunKeepsLocals'
  BY RestingHand DEF InvBoth, ByTimer
<1>3. OneAtATime'
  BY DEF ByTimer, OneSwitch, OneAtATime
<1> QED
  BY <1>1, <1>2, <1>3 DEF InvBoth

LEMMA HandStep ==
    ASSUME InvBoth, Manually
    PROVE  InvBoth'
<1>1. Hand!TypeOK /\ Hand!LocalsAreSet /\ Hand!Running
  BY SameTypes, RunningByHand DEF InvBoth, Hand!RunKeepsLocals, Manually
<1>2. Hand!TypeOK' /\ Hand!RunKeepsLocals'
  BY <1>1, SameAssumptions, Hand!RunningKeepsLocals
<1>3. TypeOK' /\ hand' \in Run
  BY <1>2, SameRuns DEF InvBoth, Manually, TypeOK, Hand!TypeOK, Closures, Hand!Closures
<1>4. RunKeepsLocals'
  BY RestingRun DEF InvBoth, Manually
<1>5. OneAtATime'
  BY DEF Manually, OneSwitch, OneAtATime
<1> QED
  BY <1>2, <1>3, <1>4, <1>5 DEF InvBoth

LEMMA AroundStep ==
    ASSUME InvBoth, AroundBoth
    PROVE  InvBoth'
<1>1. TypeOK /\ LocalsAreSet
  BY DEF InvBoth, RunKeepsLocals
<1>2. CASE Publish \/ RemovePin \/ DamageState \/ Kill \/ Replace
  <2>1. TypeOK'
    BY <1>1, <1>2, AroundType DEF Around
  <2>2. run' = run \/ run' = Idle
    BY <1>2 DEF Publish, RemovePin, DamageState, Kill, Replace
  <2>3. hand' = hand \/ hand' = Idle
    BY <1>2 DEF AroundBoth, ByHand!Kill, ByHand!Idle, Idle
  <2>4. RunKeepsLocals' /\ Hand!RunKeepsLocals'
    BY <2>2, <2>3, RestingRun, RestingHand DEF InvBoth
  <2>5. hand' \in Run /\ OneAtATime'
    BY <2>2, <2>3, IdleRun DEF InvBoth, OneAtATime, Switching
  <2> QED
    BY <2>1, <2>4, <2>5 DEF InvBoth
<1>3. CASE ByHand!Kill /\ UNCHANGED run
  <2>1. hand' = Idle /\ run' = run
    BY <1>3 DEF ByHand!Kill, ByHand!Idle, Idle
  <2>2. TypeOK'
    BY <1>3, <1>1, BoundsAssumption
       DEF TypeOK, ByHand!Kill, ByHand!Fault, ByHand!machine, ByHand!state, ByHand!outside
  <2>3. RunKeepsLocals' /\ Hand!RunKeepsLocals'
    BY <2>1, RestingRun, RestingHand DEF InvBoth
  <2>4. hand' \in Run /\ OneAtATime'
    BY <2>1, IdleRun DEF InvBoth, OneAtATime, Switching
  <2> QED
    BY <2>2, <2>3, <2>4 DEF InvBoth
<1> QED
  BY <1>2, <1>3 DEF AroundBoth

LEMMA InvBothInit == InitBoth => InvBoth
<1> SUFFICES ASSUME InitBoth
             PROVE  InvBoth
  OBVIOUS
<1>1. TypeOK
  BY InitSafe DEF InitBoth
<1>2. run = Idle /\ hand = Idle
  BY DEF InitBoth, Init
<1>3. RunKeepsLocals
  BY <1>2 DEF RunKeepsLocals, LocalsAreSet, ClearIsHealthy, Idle, AfterFetch, AfterPin,
     Committed, Switching, Undoing, Concluding
<1>4. Hand!RunKeepsLocals
  BY <1>2 DEF Hand!RunKeepsLocals, Hand!LocalsAreSet, Hand!ClearIsHealthy, Idle,
     Hand!AfterFetch, Hand!AfterPin, Hand!Committed, Hand!Switching, Hand!Undoing,
     Hand!Concluding
<1> QED
  BY <1>1, <1>2, <1>3, <1>4, IdleRun DEF InvBoth, OneAtATime, Switching

LEMMA InvBothNext == InvBoth /\ [NextBoth]_both => InvBoth'
<1> SUFFICES ASSUME InvBoth, [NextBoth]_both
             PROVE  InvBoth'
  OBVIOUS
<1>1. CASE UNCHANGED both
  <2>1. run' = run /\ hand' = hand
    BY <1>1 DEF both, vars
  <2>2. TypeOK'
    BY <1>1 DEF both, vars, InvBoth, TypeOK
  <2> QED
    BY <2>1, <2>2, RestingRun, RestingHand DEF InvBoth, OneAtATime
<1> QED
  BY <1>1, TimerStep, HandStep, AroundStep DEF NextBoth

(***************************************************************************)
(* Whatever two receivers do to each other, every shared and every local   *)
(* variable keeps its type and each run its own bookkeeping.               *)
(***************************************************************************)
THEOREM BothAreTyped == SpecBoth => []InvBoth
BY InvBothInit, InvBothNext, PTL DEF SpecBoth

-----------------------------------------------------------------------------
(***************************************************************************)
(* The safety half of BothSettle: two receivers without a lock do not keep *)
(* each other busy.  Each step of a run uses up one of the at most Longest *)
(* it has, and nothing the other run does, a switch, a new pin, a rollback *)
(* or a debt under its hands, gives it one back.                           *)
(***************************************************************************)
BothRunsAreFinite ==
    [][/\ {StepsLeft(run, marker), StepsLeft(hand, marker)} \subseteq 0..Longest
       /\ run.pc # "idle" /\ ByTimer =>
             StepsLeft(run, marker)' < StepsLeft(run, marker)
       /\ hand.pc # "idle" /\ Manually =>
             StepsLeft(hand, marker)' < StepsLeft(hand, marker)
       /\ run.pc # "idle" =>
             StepsLeft(run, marker)' <= StepsLeft(run, marker)
       /\ hand.pc # "idle" =>
             StepsLeft(hand, marker)' <= StepsLeft(hand, marker)]_both

(* The marker is under nobody's feet: only the one switch moves it.        *)
LEMMA OtherIsNotSetBack ==
    ASSUME NEW r \in Run, marker' = marker \/ r.pc \notin Switching
    PROVE  StepsLeft(r, marker') = StepsLeft(r, marker)
BY DEF StepsLeft, Switching

LEMMA EndedIsNotSetBack ==
    ASSUME NEW r \in Run
    PROVE  StepsLeft(Idle, marker') <= StepsLeft(r, marker)
<1>1. StepsLeft(Idle, marker') = 0
  BY IdleRun, Distance
<1> QED
  BY <1>1, WithinLongest DEF Longest

LEMMA NotMoreThanBefore ==
    ASSUME NEW r \in Run, NEW t \in Run,
           StepsLeft(t, marker') < StepsLeft(r, marker)
              \/ StepsLeft(t, marker') = StepsLeft(r, marker)
    PROVE  StepsLeft(t, marker') <= StepsLeft(r, marker)
BY WithinLongest DEF Longest

LEMMA TimerIsForward ==
    ASSUME InvBoth, ByTimer
    PROVE  /\ run.pc # "idle" => StepsLeft(run', marker') < StepsLeft(run, marker)
           /\ StepsLeft(hand', marker') = StepsLeft(hand, marker)
<1>1. run.pc # "idle" => StepsLeft(run', marker') < StepsLeft(run, marker)
  BY RunningIsForward DEF InvBoth, RunKeepsLocals, ByTimer
<1>2. marker' # marker => run.pc \in Switching
  BY MarkerIsSwitched DEF ByTimer, Switching
<1>3. marker' = marker \/ hand.pc \notin Switching
  BY <1>2 DEF InvBoth, OneAtATime
<1> QED
  BY <1>1, <1>3, OtherIsNotSetBack DEF InvBoth, ByTimer

LEMMA HandIsForward ==
    ASSUME InvBoth, Manually
    PROVE  /\ hand.pc # "idle" => StepsLeft(hand', marker') < StepsLeft(hand, marker)
           /\ StepsLeft(run', marker') = StepsLeft(run, marker)
<1>1. Hand!TypeOK /\ Hand!LocalsAreSet /\ Hand!Running
  BY SameTypes, RunningByHand DEF InvBoth, Hand!RunKeepsLocals, Manually
<1>2. hand.pc # "idle" => StepsLeft(hand', marker') < StepsLeft(hand, marker)
  BY <1>1, SameAssumptions, SameDistance, Hand!RunningIsForward
<1>3. marker' # marker => hand.pc \in Switching
  BY <1>1, SameAssumptions, Hand!MarkerIsSwitched DEF Switching
<1>4. marker' = marker \/ run.pc \notin Switching
  BY <1>3 DEF InvBoth, OneAtATime
<1> QED
  BY <1>2, <1>4, OtherIsNotSetBack DEF InvBoth, TypeOK, Manually

LEMMA AroundIsForward ==
    ASSUME InvBoth, AroundBoth
    PROVE  /\ StepsLeft(run', marker') <= StepsLeft(run, marker)
           /\ StepsLeft(hand', marker') <= StepsLeft(hand, marker)
<1>1. run \in Run /\ hand \in Run
  BY DEF InvBoth, TypeOK
<1>2. CASE Replace /\ hand' = Idle
  <2>1. run' = Idle /\ hand' = Idle
    BY <1>2 DEF Replace
  <2> QED
    BY <1>1, <2>1, EndedIsNotSetBack
<1>3. CASE (Publish \/ RemovePin \/ DamageState \/ Kill) /\ UNCHANGED hand
  <2>1. marker' = marker /\ hand' = hand /\ (run' = run \/ run' = Idle)
    BY <1>3 DEF Publish, RemovePin, DamageState, Kill, machine
  <2> QED
    BY <1>1, <2>1, EndedIsNotSetBack, NotMoreThanBefore
<1>4. CASE ByHand!Kill /\ UNCHANGED run
  <2>1. marker' = marker /\ run' = run /\ hand' = Idle
    BY <1>4 DEF ByHand!Kill, ByHand!Idle, Idle, ByHand!machine
  <2> QED
    BY <1>1, <2>1, EndedIsNotSetBack, NotMoreThanBefore
<1> QED
  BY <1>2, <1>3, <1>4 DEF AroundBoth

(***************************************************************************)
(* No interleaving of two receivers makes either of them run for ever, for *)
(* every set of targets, configuration and backend, and any faults.        *)
(***************************************************************************)
THEOREM NeitherRunGoesOnForEver == SpecBoth => BothRunsAreFinite
<1>1. ASSUME InvBoth, InvBoth', NextBoth
      PROVE  /\ {StepsLeft(run, marker), StepsLeft(hand, marker)} \subseteq 0..Longest
             /\ run.pc # "idle" /\ ByTimer =>
                   StepsLeft(run', marker') < StepsLeft(run, marker)
             /\ hand.pc # "idle" /\ Manually =>
                   StepsLeft(hand', marker') < StepsLeft(hand, marker)
             /\ run.pc # "idle" => StepsLeft(run', marker') <= StepsLeft(run, marker)
             /\ hand.pc # "idle" => StepsLeft(hand', marker') <= StepsLeft(hand, marker)
  <2>1. run \in Run /\ hand \in Run /\ run' \in Run /\ hand' \in Run
    BY <1>1 DEF InvBoth, TypeOK
  <2>2. {StepsLeft(run, marker), StepsLeft(hand, marker)} \subseteq 0..Longest
    BY <2>1, WithinLongest
  <2>3. CASE ByTimer
    BY <1>1, <2>1, <2>2, <2>3, TimerIsForward, HandIsForward, NotMoreThanBefore
  <2>4. CASE Manually
    BY <1>1, <2>1, <2>2, <2>4, TimerIsForward, HandIsForward, NotMoreThanBefore
  <2>5. CASE AroundBoth
    BY <1>1, <2>2, <2>5, AroundIsForward, TimerIsForward, HandIsForward
  <2> QED
    BY <1>1, <2>3, <2>4, <2>5 DEF NextBoth
<1>2. InvBoth /\ InvBoth' /\ [NextBoth]_both
        => [/\ {StepsLeft(run, marker), StepsLeft(hand, marker)} \subseteq 0..Longest
            /\ run.pc # "idle" /\ ByTimer =>
                  StepsLeft(run, marker)' < StepsLeft(run, marker)
            /\ hand.pc # "idle" /\ Manually =>
                  StepsLeft(hand, marker)' < StepsLeft(hand, marker)
            /\ run.pc # "idle" =>
                  StepsLeft(run, marker)' <= StepsLeft(run, marker)
            /\ hand.pc # "idle" =>
                  StepsLeft(hand, marker)' <= StepsLeft(hand, marker)]_both
  BY <1>1
<1> QED
  BY <1>2, BothAreTyped, PTL DEF SpecBoth, BothRunsAreFinite

-----------------------------------------------------------------------------
(***************************************************************************)
(* docs/reimage.md: the debt is cleared only after a run has observed      *)
(* Converged or AlreadyCurrent.  Of two runs it may be either, and by then *)
(* the other may have left that target; but no debt goes without such a    *)
(* run, or the machine.                                                    *)
(***************************************************************************)
DebtsNeedAHealthyRun ==
    [][debt # None /\ debt' = None =>
          \/ \E r \in {run, hand} : r.pc = "clear" /\ r.outcome \in Healthy
          \/ asked # None /\ applied' = {asked}]_both

(***************************************************************************)
(* Without a lock, a debt still goes only with a healthy run of either     *)
(* process or with the machine: the ClearDebt of a failed run cannot be    *)
(* reached, whatever the other run has done to the shared files.           *)
(***************************************************************************)
THEOREM OnlyHealthyRunsPay == SpecBoth => DebtsNeedAHealthyRun
<1>1. ASSUME InvBoth, NextBoth, debt # None, debt' = None
      PROVE  \/ \E r \in {run, hand} : r.pc = "clear" /\ r.outcome \in Healthy
             \/ asked # None /\ applied' = {asked}
  <2>1. CASE ByTimer
    <3>1. run.pc = "clear"
      BY <1>1, <2>1, DebtIsCleared DEF InvBoth, RunKeepsLocals, ByTimer
    <3> QED
      BY <1>1, <3>1 DEF InvBoth, RunKeepsLocals, ClearIsHealthy
  <2>2. CASE Manually
    <3>1. Hand!TypeOK /\ Hand!LocalsAreSet /\ Hand!Running
      BY <1>1, <2>2, SameTypes, RunningByHand DEF InvBoth, Hand!RunKeepsLocals, Manually
    <3>2. hand.pc = "clear"
      BY <1>1, <3>1, SameAssumptions, Hand!DebtIsCleared
    <3> QED
      BY <1>1, <3>2, SameRuns DEF InvBoth, Hand!RunKeepsLocals, Hand!ClearIsHealthy
  <2>3. CASE Replace
    BY <2>3 DEF Replace
  <2>4. CASE Publish \/ RemovePin \/ DamageState \/ Kill \/ ByHand!Kill
    BY <1>1, <2>4, NoneAssumption
       DEF Publish, RemovePin, DamageState, Kill, ByHand!Kill, state, ByHand!state
  <2> QED
    BY <1>1, <2>1, <2>2, <2>3, <2>4 DEF NextBoth, AroundBoth
<1>2. InvBoth /\ [NextBoth]_both
        => [debt # None /\ debt' = None =>
              \/ \E r \in {run, hand} : r.pc = "clear" /\ r.outcome \in Healthy
              \/ asked # None /\ applied' = {asked}]_both
  BY <1>1
<1> QED
  BY <1>2, BothAreTyped, PTL DEF SpecBoth, DebtsNeedAHealthyRun
=============================================================================
