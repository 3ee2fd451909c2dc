------------------------------ MODULE Receiver ------------------------------
(***************************************************************************)
(* One receiver of one plane of one machine: `nixdeploy receive`           *)
(* (src/receive.rs) run again and again by its timer, the activation       *)
(* adapter it calls (src/activate.rs and the generated scripts of          *)
(* modules/adapters), and what outlives a run: the rejection pin, the      *)
(* reimage debt, the metrics file and the machine itself.                  *)
(*                                                                         *)
(* A run may die between any two steps, in the middle of a switch or of a  *)
(* provider call included; a switch may fail at any point; a health gate   *)
(* may pass, fail or not run.                                              *)
(***************************************************************************)
EXTENDS Naturals

CONSTANTS
    Targets,          \* store paths that may be published for the plane
    Uninitialized,    \* what currentPath prints before the first activation
    None,             \* no value: an absent file, an unset local
    Corrupt,          \* a state file that does not parse
    MarkerMoves,      \* when currentPath names the target: "register", "switch", "end"
    RollsBack,        \* closures whose receiver config has a rollback command,
    Reconciles,       \* a boot-role reconciler,
    Limits,           \* maxInplaceDeltaBytes,
    Reimages,         \* a reimage request
    Faults,           \* the kinds of fault of this instance
    MaxFaults,        \* and how many of them
    MaxPublications   \* how often the target changes

FaultKinds == {"kill", "stage", "read", "write", "damage", "operator"}

Closures == Targets \union {Uninitialized}

Healthy == {"converged", "alreadyCurrent"}
Stages == {"manifest", "compatibility", "state", "rejectedTarget", "delta",
           "reimage", "activate", "healthCheckUnavailable", "healthCheckFailed",
           "bootReconcile", "rollback"}
Outcomes == Healthy \union {"refused", "reimaged"} \union Stages

ASSUME ClosuresAssumption == Uninitialized \notin Targets
ASSUME NoneAssumption == None \notin Closures \union Outcomes \union {Corrupt}
ASSUME CorruptAssumption == Corrupt \notin Closures
ASSUME MarkerAssumption == MarkerMoves \in {"register", "switch", "end"}
ASSUME ConfigAssumption ==
    \A S \in {RollsBack, Reconciles, Limits, Reimages} : S \subseteq Closures
ASSUME FaultsAssumption == Faults \subseteq FaultKinds
ASSUME BoundsAssumption == MaxFaults \in Nat /\ MaxPublications \in Nat

VARIABLES
    published,     \* the target the verified manifest names, or None
    publications,  \* how often it has changed
    profile,       \* the registered generation
    marker,        \* /run/current-system or current-home
    applied,       \* the closures whose units and files are in force
    boot,          \* the boot medium last written, and whose command wrote it
    pin,           \* rejected-target-<plane>.json
    debt,          \* reimage-owed-<plane>.json
    asked,         \* the replacement the provider has accepted
    gauge,         \* nixdeploy_reimage_owed in the metrics file
    run,           \* the process
    rejected,      \* history: unhealthy targets undone since another passed health
    faults         \* how many faults there have been

machine == <<profile, marker, applied>>
state == <<pin, debt>>
outside == <<published, publications, asked>>
vars == <<published, publications, profile, marker, applied, boot, pin, debt,
          asked, gauge, run, rejected, faults>>

Steps ==
    {"idle", "owed", "fetch", "look", "pin", "recheck", "reconcile", "size",
     "owe", "refusal", "provider", "answered", "register", "switch",
     "switching", "observe", "gate", "unpin", "reject", "restore", "settle",
     "clear", "report"}

(***************************************************************************)
(* The locals of a run: the closure whose unit and config started it,      *)
(* measured.reimage_owed, the manifest's target, currentPath as first      *)
(* read, whether a pin was found, the closure the adapter is switching to, *)
(* whether its command exited zero, the stage that failed, whether the pin *)
(* of a rejection was persisted, and the outcome.                          *)
(***************************************************************************)
Idle ==
    [pc |-> "idle", config |-> None, owed |-> FALSE, target |-> None,
     seen |-> None, pinned |-> FALSE, goal |-> None, exit |-> FALSE,
     stage |-> None, kept |-> FALSE, outcome |-> None]

Init ==
    /\ published \in Targets
    /\ publications = 0
    /\ \E c \in Closures : profile = c /\ marker = c /\ applied = {c}
    /\ boot = None
    /\ pin = None
    /\ debt = None
    /\ asked = None
    /\ gauge = None
    /\ run = Idle
    /\ rejected = {}
    /\ faults = 0

-----------------------------------------------------------------------------
CurrentPath == IF MarkerMoves = "register" THEN profile ELSE marker

Goto(step) == run' = [run EXCEPT !.pc = step]

Fault(kind) ==
    /\ kind \in Faults
    /\ faults < MaxFaults
    /\ faults' = faults + 1

(***************************************************************************)
(* Every return of converge; a healthy outcome of a run that found a debt  *)
(* clears it before the report.                                            *)
(***************************************************************************)
Concluded(outcome) ==
    run' = [run EXCEPT !.outcome = outcome,
                       !.pc = IF outcome \in Healthy /\ run.owed
                              THEN "clear" ELSE "report"]

(* A run that ends with an outcome and changes nothing else.               *)
Conclude(outcome) ==
    /\ Concluded(outcome)
    /\ UNCHANGED <<machine, boot, state, outside, gauge, rejected>>

(* A step of a run that changes its locals only.                           *)
Local == UNCHANGED <<machine, boot, state, outside, gauge, rejected, faults>>

-----------------------------------------------------------------------------
(* From the timer to the decision.                                         *)

(* The unit that fires is the one of a closure that is in force.           *)
Start ==
    /\ run.pc = "idle"
    /\ \E c \in applied : run' = [Idle EXCEPT !.pc = "owed", !.config = c]
    /\ Local

(* The run starts from Measured::default(), and no file is read.           *)
OwedAtStart == FALSE

OwedOnDisk == debt # None

LoadDebt ==
    /\ run.pc = "owed"
    /\ debt # Corrupt
    /\ run' = [run EXCEPT !.pc = "fetch", !.owed = OwedOnDisk]
    /\ Local

(* load_reimage_owed fails: the report is made of Measured::default().     *)
DebtUnreadable ==
    /\ run.pc = "owed"
    /\ debt = Corrupt
    /\ Conclude("state")
    /\ UNCHANGED faults

Fetch ==
    /\ run.pc = "fetch"
    /\ published # None
    /\ run' = [run EXCEPT !.pc = "look", !.target = published]
    /\ Local

NothingVerifies ==
    /\ run.pc = "fetch"
    /\ published = None
    /\ Conclude("manifest")
    /\ UNCHANGED faults

Look ==
    /\ run.pc = "look"
    /\ run' = [run EXCEPT !.pc = "pin", !.seen = CurrentPath]
    /\ Local

(* A stage whose own operation fails: nothing has been touched yet.        *)
FailsAs ==
    [fetch |-> {"manifest", "compatibility"}, look |-> {"activate"},
     size |-> {"delta"}, register |-> {"activate"}]

StageFails ==
    /\ run.pc \in DOMAIN FailsAs
    /\ \E stage \in FailsAs[run.pc] : Conclude(stage)
    /\ Fault("stage")

(* The state directory cannot be prepared, or a file in it not be read.    *)
ReadFails ==
    /\ run.pc \in {"owed", "pin"}
    /\ Conclude("state")
    /\ Fault("read")

PinUnreadable ==
    /\ run.pc = "pin"
    /\ pin = Corrupt
    /\ Conclude("state")
    /\ UNCHANGED faults

RefuseRejected ==
    /\ run.pc = "pin"
    /\ pin = run.target
    /\ Conclude("rejectedTarget")
    /\ UNCHANGED faults

(* The pin is read, and nothing is compared with it.                       *)
AnyTarget == pin # Corrupt

PinAllows == pin \notin {Corrupt, run.target}

PassPin ==
    /\ run.pc = "pin"
    /\ PinAllows
    /\ run' = [run EXCEPT !.pc = IF run.seen = run.target THEN "recheck" ELSE "size",
                          !.pinned = (pin # None)]
    /\ Local

-----------------------------------------------------------------------------
(* The target is current already: its health, then its boot medium.        *)

RecheckPasses ==
    /\ run.pc = "recheck"
    /\ rejected' = {}
    /\ IF run.config \in Reconciles THEN Goto("reconcile") ELSE Concluded("alreadyCurrent")
    /\ UNCHANGED <<machine, boot, state, outside, gauge, faults>>

RecheckFails ==
    /\ run.pc = "recheck"
    /\ \E stage \in {"healthCheckUnavailable", "healthCheckFailed"} : Conclude(stage)
    /\ UNCHANGED faults

Reconciled == [medium |-> run.target, by |-> run.config]

ReconcileBoot ==
    /\ run.pc = "reconcile"
    /\ boot' = Reconciled
    /\ Concluded("alreadyCurrent")
    /\ UNCHANGED <<machine, state, outside, gauge, rejected, faults>>

ReconcileFails ==
    /\ run.pc = "reconcile"
    /\ boot' \in {boot, Reconciled}
    /\ Concluded("bootReconcile")
    /\ UNCHANGED <<machine, state, outside, gauge, rejected, faults>>

-----------------------------------------------------------------------------
(* The delta against the ceiling, and the way out when it is exceeded.     *)

Fits ==
    /\ run.pc = "size"
    /\ Goto("register")
    /\ Local

ExceedsCeiling ==
    /\ run.pc = "size"
    /\ run.config \in Limits
    /\ run' = [run EXCEPT !.pc = "owe", !.owed = TRUE]
    /\ Local

(* The debt is left to the run that finds the provider has said no.        *)
DebtKept == debt

DebtWritten == run.target

(***************************************************************************)
(* With a reimage request, what the signed target's boot object lacks      *)
(* decides whether there is anything to ask the provider for.              *)
(***************************************************************************)
RecordDebt ==
    /\ run.pc = "owe"
    /\ debt' = DebtWritten
    /\ IF run.config \in Reimages
       THEN Goto("refusal") \/ Concluded("reimage")
       ELSE Concluded("refused")
    /\ UNCHANGED <<machine, boot, pin, outside, gauge, rejected, faults>>

RecordDebtFails ==
    /\ run.pc = "owe"
    /\ Conclude("state")
    /\ Fault("write")

(* metrics::emit: a sink that fails changes nothing else.                  *)
Emitted == gauge' \in {gauge, IF run.owed THEN "owed" ELSE "clear"}

ReportRefusal ==
    /\ run.pc = "refusal"
    /\ Emitted
    /\ Goto("provider")
    /\ UNCHANGED <<machine, boot, state, outside, rejected, faults>>

ProviderAccepts ==
    /\ run.pc = "provider"
    /\ asked' = run.target
    /\ Goto("answered")
    /\ UNCHANGED <<machine, boot, state, published, publications, gauge, rejected, faults>>

ProviderRefuses ==
    /\ run.pc = "provider"
    /\ Conclude("reimage")
    /\ UNCHANGED faults

Reimaged ==
    /\ run.pc = "answered"
    /\ Conclude("reimaged")
    /\ UNCHANGED faults

-----------------------------------------------------------------------------
(* Activation: the adapter registers a generation and switches to it.      *)

(* The closure is switched to without a generation of its own.             *)
ProfileKept == profile

ProfileRegistered == run.target

Register ==
    /\ run.pc = "register"
    /\ profile' = ProfileRegistered
    /\ run' = [run EXCEPT !.pc = "switch", !.goal = run.target]
    /\ UNCHANGED <<marker, applied, boot, state, outside, gauge, rejected, faults>>

(* The command that registers may have done so and still exit non-zero.    *)
RegisterFails ==
    /\ run.pc = "register"
    /\ profile' \in {profile, run.target}
    /\ run' = [run EXCEPT !.pc = "observe", !.goal = run.target]
    /\ UNCHANGED <<marker, applied, boot, state, outside, gauge, rejected, faults>>

(* A rollback is judged by other rules than the activation before it.      *)
AfterSwitch == IF run.goal = run.target THEN "observe" ELSE "settle"

SwitchStarts ==
    /\ run.pc = "switch"
    /\ applied' = applied \union {run.goal}
    /\ Goto("switching")
    /\ UNCHANGED <<profile, marker, boot, state, outside, gauge, rejected, faults>>

MoveMarker ==
    /\ run.pc = "switching"
    /\ MarkerMoves = "switch"
    /\ marker # run.goal
    /\ marker' = run.goal
    /\ UNCHANGED <<profile, applied, boot, state, outside, gauge, run, rejected, faults>>

SwitchCompletes ==
    /\ run.pc = "switching"
    /\ MarkerMoves = "switch" => marker = run.goal
    /\ marker' = run.goal
    /\ applied' = {run.goal}
    /\ run' = [run EXCEPT !.pc = AfterSwitch, !.exit = TRUE]
    /\ UNCHANGED <<profile, boot, state, outside, gauge, rejected, faults>>

(* Before it starts: nothing executable in the closure.  Later: anything.  *)
SwitchFails ==
    /\ run.pc \in {"switch", "switching"}
    /\ run' = [run EXCEPT !.pc = AfterSwitch, !.exit = FALSE]
    /\ Local

(* The path without the exit status.                                       *)
BecameTarget == CurrentPath = run.target

Succeeded == run.exit /\ CurrentPath = run.target

ObserveTarget ==
    /\ run.pc = "observe"
    /\ Succeeded
    /\ Goto("gate")
    /\ Local

Rejecting(stage) == run' = [run EXCEPT !.pc = "reject", !.stage = stage]

ObserveOther ==
    /\ run.pc = "observe"
    /\ ~Succeeded
    /\ Rejecting("activate")
    /\ Local

ObservationFails ==
    /\ run.pc = "observe"
    /\ Rejecting("activate")
    /\ Fault("stage")
    /\ UNCHANGED <<machine, boot, state, outside, gauge, rejected>>

(* The run that changed the target goes on to the boot medium itself.      *)
GatePassesAndReconciles ==
    /\ run.pc = "gate"
    /\ rejected' = {}
    /\ IF run.pinned THEN Goto("unpin")
       ELSE IF run.config \in Reconciles THEN Goto("reconcile") ELSE Concluded("converged")
    /\ UNCHANGED <<machine, boot, state, outside, gauge, faults>>

GatePasses ==
    /\ run.pc = "gate"
    /\ rejected' = {}
    /\ IF run.pinned THEN Goto("unpin") ELSE Concluded("converged")
    /\ UNCHANGED <<machine, boot, state, outside, gauge, faults>>

GateUnavailable ==
    /\ run.pc = "gate"
    /\ Conclude("healthCheckUnavailable")
    /\ UNCHANGED faults

GateFails ==
    /\ run.pc = "gate"
    /\ Rejecting("healthCheckFailed")
    /\ Local

ClearPin ==
    /\ run.pc = "unpin"
    /\ pin' = None
    /\ Concluded("converged")
    /\ UNCHANGED <<machine, boot, debt, outside, gauge, rejected, faults>>

ClearPinFails ==
    /\ run.pc = "unpin"
    /\ Conclude("state")
    /\ Fault("write")

-----------------------------------------------------------------------------
(* reject_and_rollback: the pin first, then the exact previous closure.    *)

(* Whatever was pinned before stays so; or the wrong closure is pinned.    *)
PinAsBefore == pin
PinOfPrevious == run.seen

PinOfRejected == run.target

PersistPin ==
    /\ run.pc = "reject"
    /\ pin' = PinOfRejected
    /\ run' = [run EXCEPT !.pc = "restore", !.kept = TRUE]
    /\ UNCHANGED <<machine, boot, debt, outside, gauge, rejected, faults>>

PersistPinFails ==
    /\ run.pc = "reject"
    /\ Goto("restore")
    /\ Fault("write")
    /\ UNCHANGED <<machine, boot, state, outside, gauge, rejected>>

NoRollback ==
    /\ run.pc = "restore"
    /\ run.config \notin RollsBack
    /\ Conclude("rollback")
    /\ UNCHANGED faults

RollbackCannotRun ==
    /\ run.pc \in {"restore", "settle"}
    /\ Conclude("rollback")
    /\ Fault("stage")

(* The profile is stepped back, and set to the exact path if need be.      *)
RestoreProfile ==
    /\ run.pc = "restore"
    /\ run.config \in RollsBack
    /\ run.seen \in Targets
    /\ profile' = run.seen
    /\ run' = [run EXCEPT !.pc = "switch", !.goal = run.seen, !.exit = FALSE]
    /\ UNCHANGED <<marker, applied, boot, state, outside, gauge, rejected, faults>>

(* The step back has moved the profile to some generation, and --set fails.*)
RestoreProfileFails ==
    /\ run.pc = "restore"
    /\ run.config \in RollsBack
    /\ profile' \in {profile} \union Targets
    /\ run' = [run EXCEPT !.pc = "settle", !.exit = FALSE]
    /\ UNCHANGED <<marker, applied, boot, state, outside, gauge, rejected, faults>>

(* The path without the exit status.                                       *)
BackAtPath == CurrentPath = run.seen

Restored == run.exit /\ CurrentPath = run.seen

(* The target that failed its health gate and was undone, on record.       *)
Poison ==
    IF Restored /\ run.kept /\ run.stage = "healthCheckFailed" THEN {run.target} ELSE {}

Settle ==
    /\ run.pc = "settle"
    /\ Concluded(IF ~Restored THEN "rollback"
                 ELSE IF run.kept THEN run.stage ELSE "state")
    /\ rejected' = rejected \union Poison
    /\ UNCHANGED <<machine, boot, state, outside, gauge, faults>>

-----------------------------------------------------------------------------
(* The end of run_with.                                                    *)

ClearDebt ==
    /\ run.pc = "clear"
    /\ debt' = None
    /\ run' = [run EXCEPT !.pc = "report", !.owed = FALSE]
    /\ UNCHANGED <<machine, boot, pin, outside, gauge, rejected, faults>>

ClearDebtFails ==
    /\ run.pc = "clear"
    /\ Goto("report")
    /\ Fault("write")
    /\ UNCHANGED <<machine, boot, state, outside, gauge, rejected>>

Report ==
    /\ run.pc = "report"
    /\ Emitted
    /\ run' = Idle
    /\ UNCHANGED <<machine, boot, state, outside, rejected, faults>>

-----------------------------------------------------------------------------
(* What happens around a run.                                              *)

Publish ==
    /\ publications < MaxPublications
    /\ publications' = publications + 1
    /\ published' \in (Targets \union {None}) \ {published}
    /\ UNCHANGED <<machine, boot, state, asked, gauge, run, rejected, faults>>

(* Power loss, a killed unit: the process goes, what it did stays.         *)
Kill ==
    /\ run.pc # "idle"
    /\ Fault("kill")
    /\ run' = Idle
    /\ UNCHANGED <<machine, boot, state, outside, gauge, rejected>>

(* An operator decides that the pinned target is safe to retry.            *)
RemovePin ==
    /\ pin # None
    /\ Fault("operator")
    /\ pin' = None
    /\ rejected' = {}
    /\ UNCHANGED <<machine, boot, debt, outside, gauge, run>>

DamageState ==
    /\ Fault("damage")
    /\ \/ pin # None /\ pin' = Corrupt /\ UNCHANGED debt
       \/ debt # None /\ debt' = Corrupt /\ UNCHANGED pin
    /\ UNCHANGED <<machine, boot, outside, gauge, run, rejected>>

(* The machine the provider was asked for: the target, and no memory.      *)
Replace ==
    /\ asked # None
    /\ profile' = asked
    /\ marker' = asked
    /\ applied' = {asked}
    /\ boot' = None
    /\ pin' = None
    /\ debt' = None
    /\ gauge' = None
    /\ run' = Idle
    /\ rejected' = {}
    /\ asked' = None
    /\ UNCHANGED <<published, publications, faults>>

-----------------------------------------------------------------------------
Deciding ==
    \/ Start \/ LoadDebt \/ DebtUnreadable \/ Fetch \/ NothingVerifies \/ Look
    \/ StageFails \/ ReadFails \/ PinUnreadable \/ RefuseRejected \/ PassPin
    \/ RecheckPasses \/ RecheckFails \/ ReconcileBoot \/ ReconcileFails

Routing ==
    \/ Fits \/ ExceedsCeiling \/ RecordDebt \/ RecordDebtFails \/ ReportRefusal
    \/ ProviderAccepts \/ ProviderRefuses \/ Reimaged

Activating ==
    \/ Register \/ RegisterFails \/ SwitchStarts \/ MoveMarker \/ SwitchCompletes
    \/ SwitchFails \/ ObserveTarget \/ ObserveOther \/ ObservationFails
    \/ GatePasses \/ GateUnavailable \/ GateFails \/ ClearPin \/ ClearPinFails

RollingBack ==
    \/ PersistPin \/ PersistPinFails \/ NoRollback \/ RollbackCannotRun
    \/ RestoreProfile \/ RestoreProfileFails \/ Settle

Ending == ClearDebt \/ ClearDebtFails \/ Report

Running == Deciding \/ Routing \/ Activating \/ RollingBack \/ Ending

Around == Publish \/ Kill \/ RemovePin \/ DamageState \/ Replace

Next == Running \/ Around

Spec == Init /\ [][Next]_vars

(***************************************************************************)
(* The timer fires again for as long as the machine lives, and the unit    *)
(* has no time limit: a run goes on as long as nobody kills it.            *)
(***************************************************************************)
FairSpec == Spec /\ WF_vars(Running)

-----------------------------------------------------------------------------
(* Types.                                                                  *)

Run ==
    [pc : Steps, config : Closures \union {None}, owed : BOOLEAN,
     target : Targets \union {None}, seen : Closures \union {None},
     pinned : BOOLEAN, goal : Targets \union {None}, exit : BOOLEAN,
     stage : {None, "activate", "healthCheckFailed"}, kept : BOOLEAN,
     outcome : Outcomes \union {None}]

(***************************************************************************)
(* Every variable keeps its type; in particular nothing is ever in force   *)
(* on the machine but closures that were published for it.                 *)
(***************************************************************************)
TypeOK ==
    /\ published \in Targets \union {None}
    /\ publications \in 0..MaxPublications
    /\ profile \in Closures
    /\ marker \in Closures
    /\ applied \in SUBSET Closures
    /\ boot \in {None} \union [medium : Targets, by : Closures]
    /\ pin \in Targets \union {None, Corrupt}
    /\ debt \in Targets \union {None, Corrupt}
    /\ asked \in Targets \union {None}
    /\ gauge \in {None, "owed", "clear"}
    /\ run \in Run
    /\ rejected \in SUBSET Targets
    /\ faults \in 0..MaxFaults

-----------------------------------------------------------------------------
(* What the run knows at each step: the parts of the inductive invariant.  *)

AfterFetch == Steps \ {"idle", "owed", "fetch", "clear", "report"}
AfterPin == AfterFetch \ {"look", "pin"}
Committed == AfterPin \ {"recheck", "reconcile"}
Switching == {"switch", "switching"}
Undoing == Switching \union {"reject", "restore", "settle"}
Concluding == {"clear", "report"}

(* A run past its start has a config, past the fetch a target, and so on.  *)
LocalsAreSet ==
    /\ run.pc # "idle" => run.config \in Closures
    /\ run.pc \in AfterFetch => run.target \in Targets
    /\ run.pc \in AfterFetch \ {"look"} => run.seen \in Closures
    /\ run.pc \in Committed => run.seen # run.target
    /\ run.pc \in {"gate", "unpin"} => run.goal = run.target
    /\ run.pc = "observe" => run.goal = run.target
    /\ run.pc \in {"reject", "restore", "settle"} => run.stage # None
    /\ run.pc \in Switching =>
          \/ run.goal = run.target /\ run.stage = None
          \/ run.goal = run.seen /\ run.stage # None
    /\ run.stage # None => run.pc \in Undoing \union Concluding

(* Until it has pinned its target itself, a run's target is not pinned.    *)
PinIsOwn ==
    /\ run.pc \in AfterPin /\ ~run.kept => pin # run.target
    /\ run.kept => run.pc \in Switching \union Concluding \union {"restore", "settle"}
    /\ run.kept /\ run.pc \in Switching => run.goal # run.target

(* The profile leads, and a command that exited zero left nothing behind.  *)
SwitchIsOrdered ==
    /\ run.pc \in Switching => profile = run.goal
    /\ run.exit /\ run.pc \in {"observe", "settle"} =>
          profile = run.goal /\ marker = run.goal /\ applied = {run.goal}
    /\ run.exit /\ run.pc = "settle" => run.goal = run.seen
    /\ run.exit => run.pc \in {"observe", "gate", "unpin", "reject", "restore", "settle"}
                               \union Concluding
    /\ run.pc \in {"gate", "unpin"} =>
          profile = run.goal /\ marker = run.goal /\ applied = {run.goal}

(***************************************************************************)
(* A run reports Converged only when the registered generation, what       *)
(* currentPath names and every unit and file in force are those of the     *)
(* target of its manifest: the command's exit and the path together        *)
(* (ActivationAttempt::succeeded) leave no half-done switch.               *)
(***************************************************************************)
ConvergedIsWhole ==
    run.pc \in Concluding /\ run.outcome = "converged" =>
        /\ profile = run.target
        /\ CurrentPath = run.target
        /\ applied = {run.target}

(***************************************************************************)
(* A run that rejected its target and says anything but "rollback" has     *)
(* brought the machine back, whole, to what it found (reject_and_rollback).*)
(***************************************************************************)
RollbackIsExact ==
    run.pc \in Concluding /\ run.stage # None /\ run.outcome # "rollback" =>
        /\ profile = run.seen
        /\ CurrentPath = run.seen
        /\ applied = {run.seen}

(***************************************************************************)
(* The poison loop stays broken: from the registration of a target to the  *)
(* end of its switch it is not the pinned one, whatever was damaged,       *)
(* removed, killed or published in between.                                *)
(***************************************************************************)
PinnedIsNeverActivated ==
    \/ run.pc = "register"
    \/ run.pc \in Switching /\ run.goal = run.target
    => pin # run.target

(***************************************************************************)
(* The provider is called only with the debt of that very target on disk   *)
(* (route_over_ceiling), unless somebody damaged the file meanwhile.       *)
(***************************************************************************)
ProviderCallIsOnRecord ==
    run.pc \in {"refusal", "provider", "answered"} => debt \in {run.target, Corrupt}

(* The inductive invariant.                                                *)
IInv ==
    /\ TypeOK
    /\ LocalsAreSet
    /\ PinIsOwn
    /\ SwitchIsOrdered
    /\ ConvergedIsWhole
    /\ RollbackIsExact
    /\ ProviderCallIsOnRecord

(***************************************************************************)
(* Whenever the metrics file is written while a debt is on record, it says *)
(* so: the debt stays visible across failed and unrelated runs.            *)
(***************************************************************************)
DebtRemainsVisible == [][gauge' # gauge /\ debt' # None => gauge' = "owed"]_vars

(* What it rests on: past its start, a run knows of the debt on disk.      *)
DebtIsKnown ==
    /\ debt # Corrupt
    /\ run.pc \notin {"idle", "owed"} /\ debt # None => run.owed
    /\ run.pc = "owe" => run.owed

(***************************************************************************)
(* src/receive.rs: the old process must never reconcile new signed media   *)
(* with an actuator declared by the previous closure.  On a machine that   *)
(* runs one closure and no other, the boot medium of that closure is       *)
(* written by its own command, whoever published what during the run.      *)
(***************************************************************************)
WholeMachineReconcilesItself ==
    [][boot' \notin {boot, None} /\ applied = {boot'.medium}
          => boot'.by = boot'.medium]_vars

(***************************************************************************)
(* When faults stop and the fleet stands still, the machine settles: it    *)
(* runs the published target, has pinned it, owes a replacement, or        *)
(* nothing is published.  No failure makes a receiver try for ever.        *)
(***************************************************************************)
Settled ==
    \/ CurrentPath = published
    \/ pin = published
    \/ debt # None
    \/ published = None

Settles == <>[]Settled

-----------------------------------------------------------------------------
(* What the repository says of a receiver, and the code does not keep.     *)

(***************************************************************************)
(* docs/design.md: retrying a rejected closure before another one has      *)
(* passed health requires an operator.                                     *)
(***************************************************************************)
NeverRetriesRejected ==
    [][run.pc # "register" /\ run'.pc = "register" => run.target \notin rejected]_vars

(***************************************************************************)
(* src/activate.rs: a machine that names its target but whose switch did   *)
(* not complete is not taken for a current one.                            *)
(***************************************************************************)
CurrentIsWhole ==
    run.pc \in Concluding /\ run.outcome = "alreadyCurrent" => applied = {run.target}

(***************************************************************************)
(* src/receive.rs, the same sentence of every machine: a run that took     *)
(* over from one that died in a switch may be of either closure.           *)
(***************************************************************************)
ReconciledByItsOwn == boot # None => boot.by = boot.medium

(***************************************************************************)
(* docs/design.md: a published path other than the pinned one clears the   *)
(* pin once it passes health.  An already-current one passes and does not. *)
(***************************************************************************)
HealthyPathClearsPin ==
    run.pc \in Concluding /\ run.outcome \in Healthy => pin = None

=============================================================================
