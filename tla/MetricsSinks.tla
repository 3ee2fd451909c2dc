---------------------------- MODULE MetricsSinks ----------------------------
(***************************************************************************)
(* What the sinks of a receiver say after a run (src/metrics.rs), while    *)
(* the run goes on to clear or to record its reimage debt and to call the  *)
(* provider (src/receive.rs, run_with, report and route_over_ceiling).     *)
(*                                                                         *)
(* A text file is replaced as a whole.  A push gateway keeps each series   *)
(* until a report mentions it again.  A run reports once, or twice when it *)
(* asks the provider for a new machine, and may be killed at any step.     *)
(***************************************************************************)
EXTENDS Naturals, FiniteSets

CONSTANTS
    Processes,   \* receivers on one machine: the timer's, an operator's
    Deltas,      \* measured sizes
    Ceilings,    \* configured ceilings, None for no ceiling
    None,        \* not measured, not configured, not reported
    Faults,      \* what may go wrong
    MaxFaults,   \* how often
    MaxReports   \* reports, which number the clock

OutcomeLabels == {"converged", "alreadyCurrent", "refused", "reimaged", "failed"}

ASSUME SizesAssumption == Deltas \subseteq Nat /\ Ceilings \subseteq Nat \union {None}
ASSUME NoneAssumption == None \notin Nat /\ None \notin OutcomeLabels
ASSUME BoundsAssumption == MaxFaults \in Nat /\ MaxReports \in Nat
ASSUME FaultsAssumption == Faults \subseteq {"load", "persist", "clear", "textfile", "push", "kill"}

Sinks == {"textfile", "push"}

VARIABLES
    debt,    \* the reimage-owed file is there
    run,     \* the run of each process
    shown,   \* the value of each series at each sink
    latest,  \* history: the report that each sink took last
    clock,   \* seconds
    faults

vars == <<debt, run, shown, latest, clock, faults>>

Series == OutcomeLabels \union {"timestamp", "delta", "ceiling", "owed"}

Measured == [delta : Deltas \union {None}, ceiling : Ceilings \union {None}, owed : BOOLEAN]
Reports == [outcome : OutcomeLabels, measured : Measured, timestamp : Nat]

ASSUME ReportsAssumption == None \notin Reports

Unmeasured == [delta |-> None, ceiling |-> None, owed |-> FALSE]
Idle == [pc |-> "idle", outcome |-> None, measured |-> Unmeasured, report |-> None]

Init ==
    /\ debt = FALSE
    /\ run = [p \in Processes |-> Idle]
    /\ shown = [sink \in Sinks |-> [s \in Series |-> None]]
    /\ latest = [sink \in Sinks |-> None]
    /\ clock = 0
    /\ faults = 0

-----------------------------------------------------------------------------
(* One report.                                                             *)

Flag(b) == IF b THEN 1 ELSE 0

(* Only the outcome that happened.                                         *)
RenderHappened(report) ==
    [s \in Series |->
        IF s \in OutcomeLabels THEN IF s = report.outcome THEN 1 ELSE None
        ELSE IF s = "timestamp" THEN report.timestamp
        ELSE IF s = "owed" THEN Flag(report.measured.owed)
        ELSE report.measured[s]]

(* render: every outcome is there, a size that was not measured is not.    *)
Render(report) ==
    [s \in Series |->
        IF s \in OutcomeLabels THEN Flag(s = report.outcome)
        ELSE IF s = "timestamp" THEN report.timestamp
        ELSE IF s = "owed" THEN Flag(report.measured.owed)
        ELSE report.measured[s]]

(* What a sink shows once it has taken a text.                             *)
Taken(sink, text) ==
    IF sink = "textfile" THEN text
    ELSE [s \in Series |-> IF text[s] = None THEN shown[sink][s] ELSE text[s]]

Take(sink, report) ==
    /\ shown' = [shown EXCEPT ![sink] = Taken(sink, Render(report))]
    /\ latest' = [latest EXCEPT ![sink] = report]

Fault(kind) == kind \in Faults /\ faults < MaxFaults /\ faults' = faults + 1

Move(p, step, outcome, measured) ==
    run' = [run EXCEPT ![p] =
        [pc |-> step, outcome |-> outcome, measured |-> measured, report |-> @.report]]

Goto(p, step) == run' = [run EXCEPT ![p].pc = step]

(* The report is put together, and every series has its instant.           *)
Assemble(p) ==
    /\ run[p].pc \in {"refusal", "report"}
    /\ clock < MaxReports
    /\ clock' = clock + 1
    /\ LET report == [outcome |-> run[p].outcome, measured |-> run[p].measured,
                      timestamp |-> clock + 1]
       IN  run' = [run EXCEPT ![p].report = report,
                              ![p].pc = IF @ = "refusal" THEN "refusalTextfile" ELSE "textfile"]
    /\ UNCHANGED <<debt, shown, latest, faults>>

(* A text file that could not be written ends the report.                  *)
EmitTextfileOrGiveUp(p) ==
    /\ run[p].pc \in {"refusalTextfile", "textfile"}
    /\ \/ /\ Take("textfile", run[p].report)
          /\ Goto(p, IF run[p].pc = "textfile" THEN "push" ELSE "refusalPush")
          /\ UNCHANGED faults
       \/ /\ Fault("textfile")
          /\ Goto(p, IF run[p].pc = "textfile" THEN "idle" ELSE "asking")
          /\ UNCHANGED <<shown, latest>>
    /\ UNCHANGED <<debt, clock>>

EmitTextfile(p) ==
    /\ run[p].pc \in {"refusalTextfile", "textfile"}
    /\ \/ Take("textfile", run[p].report) /\ UNCHANGED faults
       \/ Fault("textfile") /\ UNCHANGED <<shown, latest>>
    /\ Goto(p, IF run[p].pc = "textfile" THEN "push" ELSE "refusalPush")
    /\ UNCHANGED <<debt, clock>>

(* A push that fails may have been taken: only its answer is late.         *)
EmitPush(p) ==
    /\ run[p].pc \in {"refusalPush", "push"}
    /\ \/ Take("push", run[p].report) /\ (UNCHANGED faults \/ Fault("push"))
       \/ Fault("push") /\ UNCHANGED <<shown, latest>>
    /\ Goto(p, IF run[p].pc = "push" THEN "idle" ELSE "asking")
    /\ UNCHANGED <<debt, clock>>

-----------------------------------------------------------------------------
(* One run.                                                                *)

(* A debt that cannot be read fails the run, and counts as none.           *)
Start(p) ==
    /\ run[p].pc \in {"idle", "killed"}
    /\ clock < MaxReports
    /\ \E ceiling \in Ceilings :
          LET measured == [Unmeasured EXCEPT !.ceiling = ceiling] IN
          \/ /\ run' = [run EXCEPT ![p] = [Idle EXCEPT !.pc = "converge",
                                                       !.measured = [measured EXCEPT !.owed = debt]]]
             /\ UNCHANGED faults
          \/ /\ Fault("load")
             /\ run' = [run EXCEPT ![p] = [Idle EXCEPT !.pc = "report", !.outcome = "failed",
                                                       !.measured = measured]]
    /\ UNCHANGED <<debt, shown, latest, clock>>

(* Nothing verifies, the target is pinned, or it is current already.       *)
EndBeforeMeasuring(p) ==
    /\ run[p].pc = "converge"
    /\ \E outcome \in {"failed", "alreadyCurrent"} :
          Move(p, "clear", outcome, run[p].measured)
    /\ UNCHANGED <<debt, shown, latest, clock, faults>>

Exceeds(m) == m.ceiling # None /\ m.delta > m.ceiling

(* The target was in place and works, or it was not.                       *)
Converge(p) ==
    /\ run[p].pc = "converge"
    /\ \E bytes \in Deltas, outcome \in {"converged", "failed"} :
          LET measured == [run[p].measured EXCEPT !.delta = bytes] IN
          ~Exceeds(measured) /\ Move(p, "clear", outcome, measured)
    /\ UNCHANGED <<debt, shown, latest, clock, faults>>

(* The provider is asked first and the refusal is left to the report.      *)
RouteUnreported(p) ==
    /\ run[p].pc = "converge"
    /\ \E bytes \in Deltas :
          LET measured == [run[p].measured EXCEPT !.delta = bytes, !.owed = TRUE] IN
          /\ Exceeds(measured)
          /\ debt' = TRUE
          /\ (Move(p, "asking", "refused", measured) \/ Move(p, "clear", "refused", measured))
    /\ UNCHANGED <<shown, latest, clock, faults>>

(* The refusal is reported without the size it was measured at.            *)
RouteUnsized(p) ==
    /\ run[p].pc = "converge"
    /\ \E bytes \in Deltas :
          LET measured == [run[p].measured EXCEPT !.owed = TRUE] IN
          /\ Exceeds([measured EXCEPT !.delta = bytes])
          /\ debt' = TRUE
          /\ (Move(p, "refusal", "refused", measured) \/ Move(p, "clear", "refused", measured))
    /\ UNCHANGED <<shown, latest, clock, faults>>

(***************************************************************************)
(* route_over_ceiling: no debt on record, no provider call; no provider,   *)
(* a refusal; a target without an image, a failure; else the refusal is    *)
(* reported before the call.                                               *)
(***************************************************************************)
RouteOverCeiling(p) ==
    /\ run[p].pc = "converge"
    /\ \E bytes \in Deltas :
          LET measured == [run[p].measured EXCEPT !.delta = bytes, !.owed = TRUE] IN
          /\ Exceeds(measured)
          /\ \/ Fault("persist") /\ Move(p, "clear", "failed", measured) /\ UNCHANGED debt
             \/ /\ debt' = TRUE
                /\ \/ Move(p, "clear", "refused", measured)
                   \/ Move(p, "clear", "failed", measured)
                   \/ Move(p, "refusal", "refused", measured)
                /\ UNCHANGED faults
    /\ UNCHANGED <<shown, latest, clock>>

(* The provider answers, or replaces the machine while it is asked.        *)
Ask(p) ==
    /\ run[p].pc = "asking"
    /\ \E outcome \in {"reimaged", "failed"} : Move(p, "clear", outcome, run[p].measured)
    /\ UNCHANGED <<debt, shown, latest, clock, faults>>

(* A run that converged pays the debt it knows of.                         *)
Clear(p) ==
    LET pays == run[p].outcome \in {"converged", "alreadyCurrent"} /\ run[p].measured.owed IN
    /\ run[p].pc = "clear"
    /\ \/ ~pays /\ Goto(p, "report") /\ UNCHANGED <<debt, faults>>
       \/ pays /\ debt' = FALSE /\ UNCHANGED faults
          /\ Move(p, "report", run[p].outcome, [run[p].measured EXCEPT !.owed = FALSE])
       \/ pays /\ Fault("clear") /\ Goto(p, "report") /\ UNCHANGED debt
    /\ UNCHANGED <<shown, latest, clock>>

(* The process is gone; who was asking has said its last words.            *)
Kill(p) ==
    /\ Fault("kill")
    /\ run[p].pc # "idle"
    /\ run' = [run EXCEPT ![p] = IF @.pc = "asking" THEN [@ EXCEPT !.pc = "killed"] ELSE Idle]
    /\ UNCHANGED <<debt, shown, latest, clock>>

Running(p) ==
    \/ Start(p) \/ EndBeforeMeasuring(p) \/ Converge(p) \/ RouteOverCeiling(p)
    \/ Ask(p) \/ Clear(p) \/ Kill(p)
Reporting(p) == Assemble(p) \/ EmitTextfile(p) \/ EmitPush(p)

Next == \E p \in Processes : Running(p) \/ Reporting(p)

Spec == Init /\ [][Next]_vars

-----------------------------------------------------------------------------
Steps == {"idle", "converge", "clear", "refusal", "refusalTextfile", "refusalPush", "asking",
          "killed", "report", "textfile", "push"}

TypeOK ==
    /\ debt \in BOOLEAN
    /\ run \in [Processes -> [pc : Steps, outcome : OutcomeLabels \union {None},
                              measured : Measured, report : Reports \union {None}]]
    /\ shown \in [Sinks -> [Series -> Nat \union {None}]]
    /\ latest \in [Sinks -> Reports \union {None}]
    /\ clock \in 0..MaxReports
    /\ faults \in 0..MaxFaults

Standing(sink) == {s \in OutcomeLabels : shown[sink][s] = 1}

(***************************************************************************)
(* metrics.rs, "Why every outcome gets its own series": whatever runs and  *)
(* faults came before, a sink has one outcome standing, and it belongs to  *)
(* the run whose time and whose debt the sink shows.                       *)
(***************************************************************************)
OneOutcomeStands ==
    \A sink \in Sinks :
        IF latest[sink] = None
        THEN Standing(sink) = {}
        ELSE /\ Standing(sink) = {latest[sink].outcome}
             /\ shown[sink]["timestamp"] = latest[sink].timestamp
             /\ shown[sink]["owed"] = Flag(latest[sink].measured.owed)

(***************************************************************************)
(* A refusal or a reimage on a sink stands next to the size and the        *)
(* ceiling that explain it, and next to the debt.                          *)
(***************************************************************************)
RefusalIsExplained ==
    \A sink \in Sinks :
        Standing(sink) \intersect {"refused", "reimaged"} # {} =>
            /\ shown[sink]["delta"] # None /\ shown[sink]["ceiling"] # None
            /\ shown[sink]["delta"] > shown[sink]["ceiling"]
            /\ shown[sink]["owed"] = 1

-----------------------------------------------------------------------------
(* The inductive invariant: a report is put together from a whole run, and *)
(* a refusal from a size over its ceiling.                                 *)

Explained(m) ==
    m.delta # None /\ m.ceiling # None /\ m.delta > m.ceiling /\ m.owed

Refusing == {"refused", "reimaged"}

WorkIsSound ==
    \A p \in Processes :
        /\ run[p].pc \in {"clear", "refusal", "report"} => run[p].outcome \in OutcomeLabels
        /\ run[p].pc \in {"refusalTextfile", "refusalPush", "textfile", "push"}
              => run[p].report # None
        /\ run[p].pc \in {"refusal", "refusalTextfile", "refusalPush", "asking"}
              => Explained(run[p].measured)
        /\ run[p].outcome \in Refusing => Explained(run[p].measured)
        /\ run[p].report # None /\ run[p].report.outcome \in Refusing
              => Explained(run[p].report.measured)

IInv == TypeOK /\ OneOutcomeStands /\ RefusalIsExplained /\ WorkIsSound

-----------------------------------------------------------------------------
(***************************************************************************)
(* route_over_ceiling: "the last thing this machine ever says is ... a     *)
(* refusal, with nixdeploy_reimage_owed at 1".  While the provider is      *)
(* asked, and after the process did not survive it, the sinks of a lone    *)
(* receiver show this run's refusal, all but one for each fault so far.    *)
(***************************************************************************)
LastWordsAreTheRefusal ==
    \A p \in Processes :
        run[p].pc \in {"asking", "killed"} =>
            /\ run[p].report # None
            /\ Cardinality({sink \in Sinks :
                   ~(/\ latest[sink] = run[p].report
                     /\ Standing(sink) = {"refused"}
                     /\ shown[sink]["owed"] = 1)}) <= faults

(***************************************************************************)
(* emit: a sink that fails takes nothing from the other one.  Once a lone  *)
(* receiver's run is over, each fault cost one sink its report at most.    *)
(***************************************************************************)
NoSinkHidesTheOther ==
    \A p \in Processes :
        run[p].pc = "idle" /\ run[p].report # None
        => Cardinality({sink \in Sinks : latest[sink] # run[p].report}) <= faults

-----------------------------------------------------------------------------
(* What the last words of a lone receiver rest on, next to IInv.           *)

(* The provider is asked by a run that holds the report of a refusal.      *)
RefusalIsInHand ==
    \A p \in Processes :
        /\ run[p].pc = "refusal" => run[p].outcome = "refused"
        /\ run[p].pc \in {"refusalTextfile", "refusalPush", "asking", "killed"} =>
              /\ run[p].report # None
              /\ run[p].report.outcome = "refused"
              /\ run[p].report.measured.owed

(* The sinks that a run at a step has offered its report to.               *)
Tried(step) ==
    IF step \in {"refusalPush", "push"} THEN {"textfile"}
    ELSE IF step \in {"asking", "killed", "idle"} THEN Sinks ELSE {}

(* Every sink that was offered a report and lacks it had a fault.          *)
MissesAreFaults ==
    \A p \in Processes :
        run[p].report # None =>
            Cardinality({sink \in Tried(run[p].pc) : latest[sink] # run[p].report}) <= faults

LoneIInv == RefusalIsInHand /\ MissesAreFaults

(***************************************************************************)
(* HELP of nixdeploy_delta_bytes: "Absent when the run ended before        *)
(* measuring".                                                             *)
(***************************************************************************)
AbsentUnlessMeasured ==
    \A sink \in Sinks :
        latest[sink] # None => shown[sink]["delta"] = latest[sink].measured.delta

(***************************************************************************)
(* reimage.md: once recorded, "the debt remains visible through            *)
(* nixdeploy_reimage_owed across unrelated failed" runs.                   *)
(***************************************************************************)
RecordedDebtStaysVisible ==
    [][\A sink \in Sinks :
          shown[sink]["owed"] = 1 /\ shown'[sink]["owed"] = 0 => ~debt]_vars
=============================================================================
