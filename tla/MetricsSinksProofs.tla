------------------------- MODULE MetricsSinksProofs -------------------------
(***************************************************************************)
(* What a sink shows is one run's answer, for any number of receivers on a *)
(* machine, any sizes and ceilings, and any faults.                        *)
(***************************************************************************)
EXTENDS MetricsSinks, FiniteSetTheorems, TLAPS

Run == [pc : Steps, outcome : OutcomeLabels \union {None},
        measured : Measured, report : Reports \union {None}]

(* The runs, and how often what happened.                                  *)
Runs ==
    /\ run \in [Processes -> Run]
    /\ WorkIsSound

Counts == debt \in BOOLEAN /\ clock \in 0..MaxReports /\ faults \in 0..MaxFaults

Shown ==
    /\ shown \in [Sinks -> [Series -> Nat \union {None}]]
    /\ latest \in [Sinks -> Reports \union {None}]
    /\ OneOutcomeStands
    /\ RefusalIsExplained

LEMMA Parts ==
    /\ IInv <=> Runs /\ Counts /\ Shown
    /\ IInv' <=> Runs' /\ Counts' /\ Shown'
BY DEF IInv, TypeOK, Runs, Run, Counts, Shown

LEMMA NoneIsNothing ==
    /\ None \notin Nat /\ None \notin OutcomeLabels
    /\ None \notin Reports
    /\ Deltas \subseteq Nat
    /\ Ceilings \subseteq Nat \union {None}
BY NoneAssumption, ReportsAssumption, SizesAssumption

(* What a process has to have in hand, apart from its type.                *)
Sound(r) ==
    /\ r.pc \in {"clear", "refusal", "report"} => r.outcome \in OutcomeLabels
    /\ r.pc \in {"refusalTextfile", "refusalPush", "textfile", "push"} => r.report # None
    /\ r.pc \in {"refusal", "refusalTextfile", "refusalPush", "asking"} => Explained(r.measured)
    /\ r.outcome \in Refusing => Explained(r.measured)
    /\ r.report # None /\ r.report.outcome \in Refusing => Explained(r.report.measured)

LEMMA SoundRuns == Runs <=> run \in [Processes -> Run] /\ \A p \in Processes : Sound(run[p])
BY DEF Runs, WorkIsSound, Sound

(* A run disturbs no other run.                                            *)
LEMMA OwnRun ==
    ASSUME Runs, NEW p \in Processes, NEW r \in Run, Sound(r), run' = [run EXCEPT ![p] = r]
    PROVE  Runs'
<1>1. run' \in [Processes -> Run]
  BY DEF Runs
<1>2. \A q \in Processes : run'[q] = IF q = p THEN r ELSE run[q]
  BY DEF Runs
<1>3. \A q \in Processes : Sound(run'[q])
  BY <1>2, SoundRuns
<1> QED
  BY <1>1, <1>3 DEF Runs, WorkIsSound, Sound

LEMMA ShownStays ==
    ASSUME Shown, UNCHANGED <<shown, latest>>
    PROVE  Shown'
BY DEF Shown, OneOutcomeStands, RefusalIsExplained, Standing

LEMMA RunsStay ==
    ASSUME Runs, UNCHANGED run
    PROVE  Runs'
BY DEF Runs, WorkIsSound

LEMMA FaultsCount ==
    ASSUME Counts, NEW kind, Fault(kind) \/ UNCHANGED faults,
           UNCHANGED clock, debt' \in BOOLEAN
    PROVE  Counts'
BY BoundsAssumption DEF Counts, Fault

LEMMA InitStep ==
    ASSUME Init
    PROVE  IInv
<1>1. Idle \in Run /\ Sound(Idle)
  BY NoneIsNothing DEF Idle, Run, Sound, Unmeasured, Measured, Steps, Refusing, OutcomeLabels
<1>2. Runs
  BY <1>1, SoundRuns DEF Init
<1>3. Counts
  <2>1. 0 \in 0..MaxReports /\ 0 \in 0..MaxFaults
    BY BoundsAssumption
  <2> QED
    BY <2>1 DEF Init, Counts
<1>4. \A sink \in Sinks : Standing(sink) = {}
  BY NoneIsNothing DEF Init, Standing, Series
<1>5. Shown
  <2>1. /\ shown \in [Sinks -> [Series -> Nat \union {None}]]
        /\ latest \in [Sinks -> Reports \union {None}]
    BY DEF Init
  <2>2. OneOutcomeStands
    BY <1>4 DEF Init, OneOutcomeStands
  <2>3. RefusalIsExplained
    BY <1>4 DEF RefusalIsExplained
  <2> QED
    BY <2>1, <2>2, <2>3 DEF Shown
<1> QED
  BY <1>2, <1>3, <1>5, Parts

-----------------------------------------------------------------------------
LEMMA MoveIsSafe ==
    ASSUME Runs, NEW p \in Processes, NEW step \in Steps, NEW outcome \in OutcomeLabels,
           NEW m \in Measured, Move(p, step, outcome, m),
           step \in {"clear", "refusal", "report"},
           step = "refusal" \/ outcome \in Refusing => Explained(m)
    PROVE  Runs'
<1> DEFINE r == [pc |-> step, outcome |-> outcome, measured |-> m, report |-> run[p].report]
<1>1. run[p] \in Run /\ Sound(run[p])
  BY SoundRuns
<1>2. r \in Run
  BY <1>1 DEF Run
<1>3. Sound(r)
  BY <1>1 DEF Sound
<1>4. run' = [run EXCEPT ![p] = r]
  BY DEF Move
<1> QED
  BY <1>2, <1>3, <1>4, OwnRun

LEMMA GotoIsSafe ==
    ASSUME Runs, NEW p \in Processes, NEW step \in Steps, Goto(p, step),
           Sound([run[p] EXCEPT !.pc = step])
    PROVE  Runs'
<1>1. [run[p] EXCEPT !.pc = step] \in Run
  BY DEF Runs, Run
<1> QED
  BY <1>1, OwnRun DEF Goto

LEMMA StartStep ==
    ASSUME IInv, NEW p \in Processes, Start(p)
    PROVE  IInv'
<1>1. Runs /\ Counts /\ Shown
  BY Parts
<1>2. PICK ceiling \in Ceilings :
         LET measured == [Unmeasured EXCEPT !.ceiling = ceiling] IN
         \/ run' = [run EXCEPT ![p] = [Idle EXCEPT !.pc = "converge",
                                          !.measured = [measured EXCEPT !.owed = debt]]]
         \/ run' = [run EXCEPT ![p] = [Idle EXCEPT !.pc = "report", !.outcome = "failed",
                                                  !.measured = measured]]
  BY DEF Start
<1> DEFINE m(owed) == [delta |-> None, ceiling |-> ceiling, owed |-> owed]
           begun == [pc |-> "converge", outcome |-> None, measured |-> m(debt), report |-> None]
           blind == [pc |-> "report", outcome |-> "failed", measured |-> m(FALSE), report |-> None]
<1>3. run' = [run EXCEPT ![p] = begun] \/ run' = [run EXCEPT ![p] = blind]
  BY <1>2 DEF Idle, Unmeasured
<1>4. /\ begun \in Run /\ Sound(begun)
      /\ blind \in Run /\ Sound(blind)
  <2>1. \A owed \in BOOLEAN : m(owed) \in Measured
    BY DEF Measured
  <2>2. m(debt) \in Measured /\ m(FALSE) \in Measured
    BY <1>1, <2>1 DEF Counts
  <2> HIDE DEF m
  <2> QED
    BY <2>2, NoneIsNothing DEF Run, Sound, Steps, OutcomeLabels, Refusing
<1>5. Runs'
  BY <1>1, <1>3, <1>4, OwnRun
<1>6. Counts' /\ Shown'
  BY <1>1, FaultsCount, ShownStays DEF Start, Counts
<1> QED
  BY <1>5, <1>6, Parts

(* A size is measured, and the ceiling stays what it was.                  *)
LEMMA SizeIsMeasured ==
    ASSUME Runs, NEW p \in Processes, NEW bytes \in Deltas
    PROVE  /\ run[p].measured \in Measured
           /\ [run[p].measured EXCEPT !.delta = bytes] \in Measured
           /\ [run[p].measured EXCEPT !.delta = bytes, !.owed = TRUE] \in Measured
           /\ [run[p].measured EXCEPT !.owed = FALSE] \in Measured
<1>1. run[p].measured \in Measured
  BY DEF Runs, Run
<1> QED
  BY <1>1 DEF Measured

LEMMA EndBeforeMeasuringStep ==
    ASSUME IInv, NEW p \in Processes, EndBeforeMeasuring(p)
    PROVE  IInv'
<1>1. Runs /\ Counts /\ Shown
  BY Parts
<1>2. run[p].measured \in Measured
  BY <1>1 DEF Runs, Run
<1>3. Runs'
  BY <1>1, <1>2, MoveIsSafe DEF EndBeforeMeasuring, Steps, OutcomeLabels, Refusing
<1>4. Counts' /\ Shown'
  BY <1>1, ShownStays DEF EndBeforeMeasuring, Counts
<1> QED
  BY <1>3, <1>4, Parts

LEMMA ConvergeStep ==
    ASSUME IInv, NEW p \in Processes, Converge(p)
    PROVE  IInv'
<1>1. Runs /\ Counts /\ Shown
  BY Parts
<1>2. PICK bytes \in Deltas, outcome \in {"converged", "failed"} :
         Move(p, "clear", outcome, [run[p].measured EXCEPT !.delta = bytes])
  BY DEF Converge
<1>3. Runs'
  BY <1>1, <1>2, SizeIsMeasured, MoveIsSafe DEF Steps, OutcomeLabels, Refusing
<1>4. Counts' /\ Shown'
  BY <1>1, ShownStays DEF Converge, Counts
<1> QED
  BY <1>3, <1>4, Parts

LEMMA RouteOverCeilingStep ==
    ASSUME IInv, NEW p \in Processes, RouteOverCeiling(p)
    PROVE  IInv'
<1>1. Runs /\ Counts /\ Shown
  BY Parts
<1>2. PICK bytes \in Deltas :
         LET measured == [run[p].measured EXCEPT !.delta = bytes, !.owed = TRUE] IN
         /\ Exceeds(measured)
         /\ \E outcome \in {"failed", "refused"}, step \in {"clear", "refusal"} :
               Move(p, step, outcome, measured)
  BY DEF RouteOverCeiling
<1> DEFINE measured == [run[p].measured EXCEPT !.delta = bytes, !.owed = TRUE]
<1>3. measured \in Measured /\ measured.delta = bytes /\ measured.owed
  <2>1. run[p].measured \in Measured
    BY <1>1 DEF Runs, Run
  <2> QED
    BY <2>1 DEF Measured
<1>4. Explained(measured)
  BY <1>2, <1>3, NoneIsNothing DEF Explained, Exceeds
<1> HIDE DEF measured
<1>5. Runs'
  BY <1>1, <1>2, <1>3, <1>4, MoveIsSafe DEF Steps, OutcomeLabels, measured
<1>6. Counts' /\ Shown'
  BY <1>1, FaultsCount, ShownStays DEF RouteOverCeiling, Counts
<1> QED
  BY <1>5, <1>6, Parts

LEMMA AskStep ==
    ASSUME IInv, NEW p \in Processes, Ask(p)
    PROVE  IInv'
<1>1. Runs /\ Counts /\ Shown
  BY Parts
<1>2. run[p].measured \in Measured /\ Explained(run[p].measured)
  BY <1>1, SoundRuns DEF Ask, Run, Sound
<1>3. Runs'
  BY <1>1, <1>2, MoveIsSafe DEF Ask, Steps, OutcomeLabels
<1>4. Counts' /\ Shown'
  BY <1>1, ShownStays DEF Ask, Counts
<1> QED
  BY <1>3, <1>4, Parts

LEMMA ClearStep ==
    ASSUME IInv, NEW p \in Processes, Clear(p)
    PROVE  IInv'
<1>1. Runs /\ Counts /\ Shown
  BY Parts
<1>2. run[p] \in Run /\ Sound(run[p]) /\ run[p].pc = "clear" /\ run[p].outcome \in OutcomeLabels
  BY <1>1, SoundRuns DEF Clear, Sound
<1>3. CASE Goto(p, "report")
  <2>1. Sound([run[p] EXCEPT !.pc = "report"])
    BY <1>2 DEF Run, Sound
  <2> QED
    BY <1>1, <1>3, <2>1, GotoIsSafe, FaultsCount, ShownStays, Parts DEF Clear, Steps, Counts
<1>4. CASE /\ run[p].outcome \in {"converged", "alreadyCurrent"}
           /\ Move(p, "report", run[p].outcome, [run[p].measured EXCEPT !.owed = FALSE])
  <2>1. [run[p].measured EXCEPT !.owed = FALSE] \in Measured
    BY <1>2 DEF Run, Measured
  <2>2. Runs'
    BY <1>1, <1>2, <1>4, <2>1, MoveIsSafe DEF Steps, Refusing
  <2>3. debt' \in BOOLEAN
    BY <1>1 DEF Clear, Counts
  <2> QED
    BY <1>1, <2>2, <2>3, FaultsCount, ShownStays, Parts DEF Clear
<1> QED
  BY <1>3, <1>4 DEF Clear

LEMMA KillStep ==
    ASSUME IInv, NEW p \in Processes, Kill(p)
    PROVE  IInv'
<1>1. Runs /\ Counts /\ Shown
  BY Parts
<1>2. run[p] \in Run /\ Sound(run[p])
  BY <1>1, SoundRuns
<1>3. Idle \in Run /\ Sound(Idle)
  BY NoneIsNothing DEF Idle, Run, Sound, Unmeasured, Measured, Steps, Refusing, OutcomeLabels
<1>4. [run[p] EXCEPT !.pc = "killed"] \in Run /\ Sound([run[p] EXCEPT !.pc = "killed"])
  BY <1>2 DEF Run, Sound, Steps
<1>5. Runs'
  BY <1>1, <1>3, <1>4, OwnRun DEF Kill
<1>6. Counts' /\ Shown'
  BY <1>1, FaultsCount, ShownStays DEF Kill, Counts
<1> QED
  BY <1>5, <1>6, Parts

-----------------------------------------------------------------------------
LEMMA AssembleStep ==
    ASSUME IInv, NEW p \in Processes, Assemble(p)
    PROVE  IInv'
<1> DEFINE report == [outcome |-> run[p].outcome, measured |-> run[p].measured,
                      timestamp |-> clock + 1]
           step == IF run[p].pc = "refusal" THEN "refusalTextfile" ELSE "textfile"
           r == [run[p] EXCEPT !.report = report, !.pc = step]
<1>1. Runs /\ Counts /\ Shown
  BY Parts
<1>2. run[p] \in Run /\ Sound(run[p]) /\ run[p].outcome \in OutcomeLabels
  BY <1>1, SoundRuns DEF Assemble, Sound
<1>3. clock + 1 \in Nat /\ clock + 1 \in 0..MaxReports
  BY <1>1, BoundsAssumption DEF Assemble, Counts
<1>4. report \in Reports
  BY <1>2, <1>3 DEF Reports, Run
<1>5. run' = [run EXCEPT ![p] = r]
  BY <1>1 DEF Assemble, Runs
<1>6. report # None /\ report.outcome = run[p].outcome /\ report.measured = run[p].measured
  BY <1>4, NoneIsNothing DEF Assemble
<1> HIDE DEF report
<1>7. r \in Run /\ Sound(r)
  <2>1. r \in Run
    BY <1>2, <1>4 DEF Run, Steps
  <2>2. /\ r.pc \in {"refusalTextfile", "textfile"}
        /\ r.pc = "refusalTextfile" <=> run[p].pc = "refusal"
        /\ r.outcome = run[p].outcome /\ r.measured = run[p].measured /\ r.report = report
    BY <1>2 DEF Run
  <2> HIDE DEF r
  <2> QED
    BY <2>1, <2>2, <1>2, <1>6 DEF Sound
<1>8. Runs'
  BY <1>1, <1>5, <1>7, OwnRun
<1>9. Counts' /\ Shown'
  BY <1>1, <1>3, ShownStays DEF Assemble, Counts
<1> QED
  BY <1>8, <1>9, Parts

(***************************************************************************)
(* A report that is taken leaves one outcome standing, whatever stood      *)
(* there: every outcome is a series of it.                                 *)
(***************************************************************************)
LEMMA TakeIsSafe ==
    ASSUME Shown, NEW taker \in Sinks, NEW report \in Reports, report # None,
           report.outcome \in Refusing => Explained(report.measured),
           Take(taker, report)
    PROVE  Shown'
<1> DEFINE text == Render(report)
<1>1. \A s \in OutcomeLabels : s \in Series /\ s # "timestamp" /\ s # "owed"
  BY DEF OutcomeLabels, Series
<1>2. \A s \in OutcomeLabels : text[s] = Flag(s = report.outcome)
  BY <1>1 DEF Render
<1>3. text["timestamp"] = report.timestamp /\ text["owed"] = Flag(report.measured.owed)
  BY DEF Render, Series, OutcomeLabels
<1>4. text["delta"] = report.measured.delta /\ text["ceiling"] = report.measured.ceiling
  BY DEF Render, Series, OutcomeLabels
<1>5. /\ report.outcome \in OutcomeLabels /\ report.timestamp \in Nat
      /\ report.measured \in Measured
      /\ \A b : Flag(b) \in {0, 1}
  BY DEF Reports, Flag
<1>6. text \in [Series -> Nat \union {None}]
  <2>1. ASSUME NEW s \in Series
        PROVE  text[s] \in Nat \union {None}
    <3>1. CASE s \in OutcomeLabels
      BY <3>1, <1>2, <1>5
    <3>2. CASE s = "timestamp"
      BY <3>2, <1>3, <1>5
    <3>3. CASE s = "owed"
      BY <3>3, <1>3, <1>5
    <3>4. CASE s \in {"delta", "ceiling"}
      BY <3>4, <1>4, <1>5, NoneIsNothing DEF Measured
    <3> QED
      BY <3>1, <3>2, <3>3, <3>4 DEF Series
  <2>2. text = [s \in Series |-> text[s]]
    BY DEF Render
  <2> QED
    BY <2>1, <2>2
<1> HIDE DEF text
<1>7. \A s \in Series : Taken(taker, text)[s] =
         IF taker # "textfile" /\ text[s] = None THEN shown[taker][s] ELSE text[s]
  BY <1>6 DEF Taken
<1>8. Taken(taker, text) \in [Series -> Nat \union {None}]
  BY <1>6 DEF Taken, Shown
<1>9. /\ shown' = [shown EXCEPT ![taker] = Taken(taker, text)]
      /\ latest' = [latest EXCEPT ![taker] = report]
  BY DEF Take, text
<1>10. /\ shown'[taker] = Taken(taker, text) /\ latest'[taker] = report
       /\ \A sink \in Sinks \ {taker} : shown'[sink] = shown[sink] /\ latest'[sink] = latest[sink]
  BY <1>9 DEF Shown
<1>11. \A s \in OutcomeLabels \union {"timestamp", "owed"} :
          s \in Series /\ text[s] \in Nat /\ shown'[taker][s] = text[s]
  <2>1. \A s \in OutcomeLabels \union {"timestamp", "owed"} : s \in Series /\ text[s] \in Nat
    BY <1>1, <1>2, <1>3, <1>5 DEF Series
  <2> QED
    BY <2>1, <1>7, <1>10, NoneIsNothing
<1>12. Standing(taker)' = {report.outcome}
  BY <1>2, <1>5, <1>11 DEF Standing, Flag
<1>13. \A sink \in Sinks \ {taker} : Standing(sink)' = Standing(sink)
  BY <1>10 DEF Standing
<1>14. OneOutcomeStands'
  <2>1. latest'[taker] # None /\ latest'[taker] = report
    BY <1>10
  <2>2. /\ shown'[taker]["timestamp"] = report.timestamp
        /\ shown'[taker]["owed"] = Flag(report.measured.owed)
    BY <1>3, <1>11
  <2> QED
    BY <1>10, <1>12, <1>13, <2>1, <2>2 DEF Shown, OneOutcomeStands
<1>15. RefusalIsExplained'
  <2>1. ASSUME report.outcome \in Refusing
        PROVE  /\ shown'[taker]["delta"] # None /\ shown'[taker]["ceiling"] # None
               /\ shown'[taker]["delta"] > shown'[taker]["ceiling"]
               /\ shown'[taker]["owed"] = 1
    <3>1. Explained(report.measured)
      BY <2>1
    <3>2. text["delta"] # None /\ text["ceiling"] # None
      BY <3>1, <1>4 DEF Explained
    <3>3. shown'[taker]["delta"] = text["delta"] /\ shown'[taker]["ceiling"] = text["ceiling"]
      BY <3>2, <1>7, <1>10 DEF Series
    <3>4. shown'[taker]["owed"] = 1
      BY <3>1, <1>3, <1>11 DEF Explained, Flag
    <3> QED
      BY <3>1, <3>2, <3>3, <3>4, <1>4 DEF Explained
  <2> QED
    BY <2>1, <1>10, <1>12, <1>13 DEF Shown, RefusalIsExplained, Refusing
<1>16. /\ shown' \in [Sinks -> [Series -> Nat \union {None}]]
       /\ latest' \in [Sinks -> Reports \union {None}]
  BY <1>8, <1>9 DEF Shown
<1> QED
  BY <1>14, <1>15, <1>16 DEF Shown

LEMMA ReportInHand ==
    ASSUME Runs, NEW p \in Processes,
           run[p].pc \in {"refusalTextfile", "refusalPush", "textfile", "push"}
    PROVE  /\ run[p].report \in Reports /\ run[p].report # None
           /\ run[p].report.outcome \in Refusing => Explained(run[p].report.measured)
BY SoundRuns DEF Run, Sound

LEMMA EmitTextfileStep ==
    ASSUME IInv, NEW p \in Processes, EmitTextfile(p)
    PROVE  IInv'
<1>1. Runs /\ Counts /\ Shown
  BY Parts
<1>2. run[p] \in Run /\ Sound(run[p])
  BY <1>1, SoundRuns
<1>3. Shown'
  BY <1>1, ReportInHand, TakeIsSafe, ShownStays DEF EmitTextfile, Sinks
<1> DEFINE step == IF run[p].pc = "textfile" THEN "push" ELSE "refusalPush"
<1>4. Sound([run[p] EXCEPT !.pc = step]) /\ step \in Steps
  BY <1>2 DEF EmitTextfile, Run, Sound, Steps
<1>5. Runs'
  BY <1>1, <1>4, GotoIsSafe DEF EmitTextfile
<1>6. Counts'
  BY <1>1, FaultsCount DEF EmitTextfile, Counts
<1> QED
  BY <1>3, <1>5, <1>6, Parts

LEMMA EmitPushStep ==
    ASSUME IInv, NEW p \in Processes, EmitPush(p)
    PROVE  IInv'
<1>1. Runs /\ Counts /\ Shown
  BY Parts
<1>2. run[p] \in Run /\ Sound(run[p])
  BY <1>1, SoundRuns
<1>3. Shown'
  BY <1>1, ReportInHand, TakeIsSafe, ShownStays DEF EmitPush, Sinks
<1> DEFINE step == IF run[p].pc = "push" THEN "idle" ELSE "asking"
<1>4. Sound([run[p] EXCEPT !.pc = step]) /\ step \in Steps
  BY <1>2 DEF EmitPush, Run, Sound, Steps
<1>5. Runs'
  BY <1>1, <1>4, GotoIsSafe DEF EmitPush
<1>6. Counts'
  BY <1>1, FaultsCount DEF EmitPush, Counts
<1> QED
  BY <1>3, <1>5, <1>6, Parts

LEMMA NextStep ==
    ASSUME IInv, [Next]_vars
    PROVE  IInv'
<1>1. CASE UNCHANGED vars
  BY <1>1, Parts, RunsStay, ShownStays DEF vars, Counts
<1>2. CASE Next
  BY <1>2, StartStep, EndBeforeMeasuringStep, ConvergeStep, RouteOverCeilingStep, AskStep,
     ClearStep, KillStep, AssembleStep, EmitTextfileStep, EmitPushStep
     DEF Next, Running, Reporting
<1> QED
  BY <1>1, <1>2

(* Reports are put together from whole runs, and sinks take whole reports. *)
THEOREM SinksInvariant == Spec => []IInv
<1>1. Init => IInv
  BY InitStep
<1>2. IInv /\ [Next]_vars => IInv'
  BY NextStep
<1> QED
  BY <1>1, <1>2, PTL DEF Spec

(***************************************************************************)
(* Every outcome is a series of every report, so that a sink which forgets *)
(* nothing still has one outcome standing: that of the run whose time and  *)
(* debt it shows (metrics.rs).                                             *)
(***************************************************************************)
THEOREM SinksHaveOneOutcome == Spec => []OneOutcomeStands
<1>1. IInv => OneOutcomeStands
  BY DEF IInv
<1> QED
  BY <1>1, SinksInvariant, PTL

(* A refusal stands next to the size and the ceiling that explain it.      *)
THEOREM SinksExplainRefusals == Spec => []RefusalIsExplained
<1>1. IInv => RefusalIsExplained
  BY DEF IInv
<1> QED
  BY <1>1, SinksInvariant, PTL
-----------------------------------------------------------------------------
(***************************************************************************)
(* The last words of a machine with one receiver, which is what the timer  *)
(* and its unit make of it.  Two receivers overwrite each other's reports. *)
(***************************************************************************)
LoneReceiver == \A p, q \in Processes : p = q

(* A run that is about to ask the provider holds a refusal.                *)
HoldsRefusal(r) ==
    /\ r.pc = "refusal" => r.outcome = "refused"
    /\ r.pc \in {"refusalTextfile", "refusalPush", "asking", "killed"} =>
          r.report # None /\ r.report.outcome = "refused" /\ r.report.measured.owed

(* The sinks that a run offered its report to, and that lack it.           *)
Missed(r, taken) == {sink \in Tried(r.pc) : taken[sink] # r.report}

Covered(r, taken, n) == r.report # None => Cardinality(Missed(r, taken)) <= n

LEMMA LoneRun ==
    ASSUME LoneReceiver, NEW p \in Processes
    PROVE  /\ LoneIInv => HoldsRefusal(run[p]) /\ Covered(run[p], latest, faults)
           /\ HoldsRefusal(run'[p]) /\ Covered(run'[p], latest', faults') => LoneIInv'
BY DEF LoneReceiver, LoneIInv, RefusalIsInHand, MissesAreFaults, HoldsRefusal, Covered, Missed

LEMMA SinksAreFinite ==
    ASSUME NEW set \in SUBSET Sinks
    PROVE  IsFiniteSet(set) /\ Cardinality(set) \in Nat
<1>1. IsFiniteSet({"textfile"})
  BY FS_Singleton
<1>2. IsFiniteSet({"textfile"} \union {"push"})
  BY <1>1, FS_AddElement
<1>3. Sinks = {"textfile"} \union {"push"}
  BY DEF Sinks
<1> QED
  BY <1>2, <1>3, FS_Subset, FS_CardinalityType

LEMMA FewerAreFewer ==
    ASSUME NEW set \in SUBSET Sinks, NEW fewer \in SUBSET set
    PROVE  Cardinality(fewer) <= Cardinality(set)
BY SinksAreFinite, FS_Subset

LEMMA OneMore ==
    ASSUME NEW set \in SUBSET Sinks, NEW sink \in Sinks, NEW more \in SUBSET (set \union {sink})
    PROVE  Cardinality(more) <= Cardinality(set) + 1
<1>1. IsFiniteSet(set) /\ Cardinality(set) \in Nat
  BY SinksAreFinite
<1>2. Cardinality(set \union {sink}) <= Cardinality(set) + 1
  BY <1>1, FS_AddElement
<1>3. Cardinality(more) <= Cardinality(set \union {sink})
  BY FewerAreFewer
<1>4. Cardinality(more) \in Nat /\ Cardinality(set \union {sink}) \in Nat
  BY SinksAreFinite
<1> QED
  BY <1>1, <1>2, <1>3, <1>4

LEMMA MissedAreSinks ==
    ASSUME NEW r, NEW taken
    PROVE  Missed(r, taken) \subseteq Sinks
BY DEF Missed, Tried, Sinks

(* A run that has a report to assemble has offered none.                   *)
LEMMA NothingTried ==
    ASSUME NEW r, NEW taken, NEW n \in Nat,
           r.pc \in {"converge", "clear", "refusal", "report", "refusalTextfile", "textfile"}
    PROVE  Covered(r, taken, n)
<1>1. Missed(r, taken) = {}
  BY DEF Missed, Tried
<1> QED
  BY <1>1, FS_EmptySet DEF Covered

LEMMA InitHolds ==
    ASSUME Init
    PROVE  LoneIInv
<1>1. \A p \in Processes : run[p].pc = "idle" /\ run[p].report = None
  BY DEF Init, Idle
<1> QED
  BY <1>1 DEF LoneIInv, RefusalIsInHand, MissesAreFaults

(* A run that starts, ends or is killed elsewhere holds no report.         *)
LEMMA EmptyHanded ==
    ASSUME NEW r, NEW taken, NEW n, r.report = None, r.pc \in {"converge", "report", "idle"}
    PROVE  HoldsRefusal(r) /\ Covered(r, taken, n)
BY DEF HoldsRefusal, Covered

LEMMA LoneStart ==
    ASSUME LoneReceiver, IInv, NEW p \in Processes, Start(p)
    PROVE  LoneIInv'
<1>1. run'[p].report = None /\ run'[p].pc \in {"converge", "report"}
  BY Parts DEF Start, Runs, Idle
<1> QED
  BY <1>1, EmptyHanded, LoneRun

(* What comes before a report is offered, and after it was.                *)
LEMMA LoneMove ==
    ASSUME LoneReceiver, IInv, LoneIInv, NEW p \in Processes,
           \/ EndBeforeMeasuring(p) \/ Converge(p) \/ RouteOverCeiling(p) \/ Ask(p) \/ Clear(p)
    PROVE  LoneIInv'
<1>1. run \in [Processes -> Run] /\ faults \in Nat
  BY Parts DEF Runs, Counts
<1>2. faults' \in Nat
  <2>1. IInv'
    BY EndBeforeMeasuringStep, ConvergeStep, RouteOverCeilingStep, AskStep, ClearStep
  <2> QED
    BY <2>1, Parts DEF Counts
<1>3. /\ run'[p].pc \in {"clear", "refusal", "report"}
      /\ run'[p].pc = "refusal" => run'[p].outcome = "refused"
  <2>1. \A step, outcome, m :
           /\ Move(p, step, outcome, m) => run'[p].pc = step /\ run'[p].outcome = outcome
           /\ Goto(p, step) => run'[p].pc = step
    BY <1>1 DEF Move, Goto, Run
  <2>2. CASE EndBeforeMeasuring(p)
    BY <2>1, <2>2 DEF EndBeforeMeasuring
  <2>3. CASE Converge(p)
    BY <2>1, <2>3 DEF Converge
  <2>4. CASE RouteOverCeiling(p)
    BY <2>1, <2>4 DEF RouteOverCeiling
  <2>5. CASE Ask(p)
    BY <2>1, <2>5 DEF Ask
  <2>6. CASE Clear(p)
    BY <2>1, <2>6 DEF Clear
  <2> QED
    BY <2>2, <2>3, <2>4, <2>5, <2>6
<1>4. HoldsRefusal(run'[p])
  BY <1>3 DEF HoldsRefusal
<1> QED
  BY <1>2, <1>3, <1>4, NothingTried, LoneRun

(* Who asked goes on having said it.                                       *)
LEMMA LoneKill ==
    ASSUME LoneReceiver, IInv, LoneIInv, NEW p \in Processes, Kill(p)
    PROVE  LoneIInv'
<1>1. run \in [Processes -> Run] /\ faults \in Nat
  BY Parts DEF Runs, Counts
<1>2. HoldsRefusal(run[p]) /\ Covered(run[p], latest, faults)
  BY LoneRun
<1>3. CASE run[p].pc = "asking"
  <2>1. /\ run'[p] = [run[p] EXCEPT !.pc = "killed"]
        /\ latest' = latest /\ faults' = faults + 1
    BY <1>1, <1>3 DEF Kill, Fault
  <2>2. run'[p].pc = "killed" /\ run'[p].report = run[p].report
    BY <1>1, <2>1 DEF Run
  <2>3. HoldsRefusal(run'[p])
    BY <1>2, <1>3, <2>2 DEF HoldsRefusal
  <2>4. Missed(run'[p], latest') = Missed(run[p], latest)
    BY <1>3, <2>1, <2>2 DEF Missed, Tried
  <2>5. Cardinality(Missed(run[p], latest)) \in Nat
    BY MissedAreSinks, SinksAreFinite
  <2>6. Covered(run'[p], latest', faults')
    BY <1>1, <1>2, <2>1, <2>2, <2>4, <2>5 DEF Covered
  <2> QED
    BY <2>3, <2>6, LoneRun
<1>4. CASE run[p].pc # "asking"
  <2>1. run'[p].report = None /\ run'[p].pc = "idle"
    BY <1>1, <1>4 DEF Kill, Idle
  <2> QED
    BY <2>1, EmptyHanded, LoneRun
<1> QED
  BY <1>3, <1>4

(* The report of a refusal is put together from the refusal.               *)
LEMMA LoneAssemble ==
    ASSUME LoneReceiver, IInv, LoneIInv, NEW p \in Processes, Assemble(p)
    PROVE  LoneIInv'
<1> DEFINE report == [outcome |-> run[p].outcome, measured |-> run[p].measured,
                      timestamp |-> clock + 1]
           step == IF run[p].pc = "refusal" THEN "refusalTextfile" ELSE "textfile"
<1>1. /\ run \in [Processes -> Run] /\ faults \in Nat /\ clock \in Nat
      /\ run[p] \in Run /\ Sound(run[p]) /\ run[p].outcome \in OutcomeLabels
  BY Parts, SoundRuns DEF Runs, Counts, Assemble, Sound
<1>2. HoldsRefusal(run[p])
  BY LoneRun
<1>3. run' = [run EXCEPT ![p] = [run[p] EXCEPT !.report = report, !.pc = step]]
  BY <1>1 DEF Assemble
<1>4. run'[p].pc = step /\ run'[p].report = report
  BY <1>1, <1>3 DEF Run
<1>5. report \in Reports /\ report # None
  BY <1>1, NoneIsNothing DEF Reports, Run
<1>6. HoldsRefusal(run'[p])
  <2>1. CASE run[p].pc = "refusal"
    <3>1. report.outcome = "refused" /\ report.measured.owed
      BY <1>1, <1>2, <2>1 DEF HoldsRefusal, Sound, Explained
    <3> QED
      BY <1>4, <1>5, <2>1, <3>1 DEF HoldsRefusal
  <2>2. CASE run[p].pc # "refusal"
    BY <1>4, <2>2 DEF HoldsRefusal
  <2> QED
    BY <2>1, <2>2
<1>7. Covered(run'[p], latest', faults')
  BY <1>1, <1>4, NothingTried DEF Assemble
<1> QED
  BY <1>6, <1>7, LoneRun

(* The text file takes the report, or had the fault.                       *)
LEMMA LoneEmitTextfile ==
    ASSUME LoneReceiver, IInv, LoneIInv, NEW p \in Processes, EmitTextfile(p)
    PROVE  LoneIInv'
<1>1. /\ run \in [Processes -> Run] /\ faults \in Nat
      /\ latest \in [Sinks -> Reports \union {None}]
  BY Parts DEF Runs, Counts, Shown
<1>2. HoldsRefusal(run[p])
  BY LoneRun
<1>3. /\ run'[p].pc = IF run[p].pc = "textfile" THEN "push" ELSE "refusalPush"
      /\ run'[p].report = run[p].report
  BY <1>1 DEF EmitTextfile, Goto, Run
<1>4. HoldsRefusal(run'[p])
  BY <1>2, <1>3 DEF HoldsRefusal, EmitTextfile
<1>5. Missed(run'[p], latest') \subseteq {"textfile"}
  BY <1>3 DEF Missed, Tried
<1>6. CASE Take("textfile", run[p].report) /\ UNCHANGED faults
  <2>1. latest'["textfile"] = run[p].report
    BY <1>1, <1>6 DEF Take, Sinks
  <2>2. Missed(run'[p], latest') = {}
    <3>1. "textfile" \notin Missed(run'[p], latest')
      BY <1>3, <2>1 DEF Missed
    <3> QED
      BY <1>5, <3>1
  <2>3. Cardinality(Missed(run'[p], latest')) = 0
    BY <2>2, FS_EmptySet
  <2>4. Covered(run'[p], latest', faults')
    BY <1>1, <1>6, <2>3 DEF Covered
  <2> QED
    BY <1>4, <2>4, LoneRun
<1>7. CASE Fault("textfile")
  <2>1. faults' = faults + 1
    BY <1>7 DEF Fault
  <2>2. Cardinality(Missed(run'[p], latest')) <= Cardinality({}) + 1
    BY <1>5, OneMore DEF Sinks
  <2>3. Cardinality({}) = 0 /\ Cardinality(Missed(run'[p], latest')) \in Nat
    BY FS_EmptySet, MissedAreSinks, SinksAreFinite
  <2>4. Cardinality(Missed(run'[p], latest')) <= faults'
    BY <1>1, <2>1, <2>2, <2>3
  <2> QED
    BY <1>4, <2>4, LoneRun DEF Covered
<1> QED
  BY <1>6, <1>7 DEF EmitTextfile

(***************************************************************************)
(* The push gateway is offered the report whatever became of the text      *)
(* file, and lacks it afterwards only by a fault of its own.               *)
(***************************************************************************)
LEMMA LoneEmitPush ==
    ASSUME LoneReceiver, IInv, LoneIInv, NEW p \in Processes, EmitPush(p)
    PROVE  LoneIInv'
<1> DEFINE missed == Missed(run[p], latest)
           missedThen == Missed(run'[p], latest')
<1>1. /\ run \in [Processes -> Run] /\ faults \in Nat
      /\ latest \in [Sinks -> Reports \union {None}]
      /\ run[p].report # None
  BY Parts, ReportInHand DEF Runs, Counts, Shown, EmitPush
<1>2. HoldsRefusal(run[p]) /\ Cardinality(missed) <= faults
  BY <1>1, LoneRun DEF Covered
<1>3. /\ run'[p].pc = IF run[p].pc = "push" THEN "idle" ELSE "asking"
      /\ run'[p].report = run[p].report
  BY <1>1 DEF EmitPush, Goto, Run
<1>4. HoldsRefusal(run'[p])
  BY <1>2, <1>3 DEF HoldsRefusal, EmitPush
<1>5. /\ missed = {sink \in {"textfile"} : latest[sink] # run[p].report}
      /\ missedThen = {sink \in Sinks : latest'[sink] # run[p].report}
  BY <1>3 DEF Missed, Tried, EmitPush
<1>6. missed \in SUBSET Sinks /\ missedThen \in SUBSET Sinks
  BY MissedAreSinks
<1>7. Cardinality(missed) \in Nat /\ Cardinality(missedThen) \in Nat
  BY <1>6, SinksAreFinite
<1> HIDE DEF missed, missedThen
<1>8. CASE Take("push", run[p].report) /\ (UNCHANGED faults \/ Fault("push"))
  <2>1. latest'["push"] = run[p].report /\ latest'["textfile"] = latest["textfile"]
    BY <1>1, <1>8 DEF Take, Sinks
  <2>2. missedThen \subseteq missed
    BY <1>5, <2>1 DEF Sinks
  <2>3. Cardinality(missedThen) <= Cardinality(missed)
    BY <1>6, <2>2, FewerAreFewer
  <2>4. faults' \in Nat /\ faults <= faults'
    BY <1>1, <1>8 DEF Fault
  <2>5. Cardinality(missedThen) <= faults'
    BY <1>1, <1>2, <1>7, <2>3, <2>4
  <2> QED
    BY <1>4, <2>5, LoneRun DEF Covered, missedThen
<1>9. CASE Fault("push") /\ UNCHANGED <<shown, latest>>
  <2>1. missedThen \subseteq missed \union {"push"}
    BY <1>5, <1>9 DEF Sinks
  <2>2. Cardinality(missedThen) <= Cardinality(missed) + 1
    BY <1>6, <2>1, OneMore DEF Sinks
  <2>3. faults' = faults + 1
    BY <1>9 DEF Fault
  <2>4. Cardinality(missedThen) <= faults'
    BY <1>1, <1>2, <1>7, <2>2, <2>3
  <2> QED
    BY <1>4, <2>4, LoneRun DEF Covered, missedThen
<1> QED
  BY <1>8, <1>9 DEF EmitPush

LEMMA LoneNextStep ==
    ASSUME LoneReceiver, IInv, LoneIInv, [Next]_vars
    PROVE  LoneIInv'
<1>1. CASE UNCHANGED vars
  BY <1>1 DEF vars, LoneIInv, RefusalIsInHand, MissesAreFaults
<1>2. CASE Next
  BY <1>2, LoneStart, LoneMove, LoneKill, LoneAssemble, LoneEmitTextfile, LoneEmitPush
     DEF Next, Running, Reporting
<1> QED
  BY <1>1, <1>2

(* What a lone receiver has reported, for any faults.                      *)
THEOREM LoneInvariant ==
    ASSUME LoneReceiver
    PROVE  Spec => []LoneIInv
<1>1. Init => LoneIInv
  BY InitHolds
<1>2. IInv /\ LoneIInv /\ [Next]_vars => LoneIInv'
  BY LoneNextStep
<1> QED
  BY <1>1, <1>2, SinksInvariant, PTL DEF Spec

(***************************************************************************)
(* route_over_ceiling reports the refusal before it calls the provider:    *)
(* while the provider is asked, and once the machine is gone, each sink    *)
(* shows the refusal of this run and its debt, all but one per fault.      *)
(***************************************************************************)
THEOREM RefusalIsLastWords ==
    ASSUME LoneReceiver
    PROVE  Spec => []LastWordsAreTheRefusal
<1>1. IInv /\ LoneIInv => LastWordsAreTheRefusal
  <2> SUFFICES ASSUME IInv, LoneIInv, NEW p \in Processes, run[p].pc \in {"asking", "killed"}
               PROVE  /\ run[p].report # None
                      /\ Cardinality({sink \in Sinks :
                             ~(/\ latest[sink] = run[p].report
                               /\ Standing(sink) = {"refused"}
                               /\ shown[sink]["owed"] = 1)}) <= faults
    BY DEF LastWordsAreTheRefusal
  <2> DEFINE silent == {sink \in Sinks : ~(/\ latest[sink] = run[p].report
                                           /\ Standing(sink) = {"refused"}
                                           /\ shown[sink]["owed"] = 1)}
             missed == Missed(run[p], latest)
  <2>1. faults \in Nat /\ OneOutcomeStands
    BY Parts DEF Counts, Shown
  <2>2. HoldsRefusal(run[p]) /\ Covered(run[p], latest, faults)
    BY LoneRun
  <2>3. /\ run[p].report # None /\ run[p].report.outcome = "refused"
        /\ run[p].report.measured.owed
        /\ Cardinality(missed) <= faults
    BY <2>2 DEF HoldsRefusal, Covered
  <2>4. missed = {sink \in Sinks : latest[sink] # run[p].report}
    BY DEF Missed, Tried
  <2>5. silent \subseteq missed
    BY <2>1, <2>3, <2>4 DEF OneOutcomeStands, Flag
  <2>6. missed \in SUBSET Sinks
    BY <2>4
  <2> HIDE DEF silent, missed
  <2>7. Cardinality(silent) <= Cardinality(missed)
    BY <2>5, <2>6, FewerAreFewer
  <2>8. Cardinality(silent) \in Nat /\ Cardinality(missed) \in Nat
    BY <2>5, <2>6, SinksAreFinite
  <2>9. Cardinality(silent) <= faults
    BY <2>1, <2>3, <2>7, <2>8
  <2> QED
    BY <2>3, <2>9 DEF silent
<1> QED
  BY <1>1, SinksInvariant, LoneInvariant, PTL

(***************************************************************************)
(* emit offers a report to every sink, whatever the others did with it: a  *)
(* sink that lacks the last report of a finished run had its own fault.    *)
(***************************************************************************)
THEOREM SinksAreIndependent ==
    ASSUME LoneReceiver
    PROVE  Spec => []NoSinkHidesTheOther
<1>1. LoneIInv => NoSinkHidesTheOther
  BY DEF LoneIInv, MissesAreFaults, NoSinkHidesTheOther, Tried
<1> QED
  BY <1>1, LoneInvariant, PTL

-----------------------------------------------------------------------------
(***************************************************************************)
(* A run that could read the debt at its start goes on knowing of it, and  *)
(* puts it into its report: there is nobody else who could record one      *)
(* meanwhile.                                                              *)
(***************************************************************************)
Emitting == {"refusalTextfile", "refusalPush", "textfile", "push"}

KnowsDebt(r) ==
    /\ r.pc \notin {"idle", "killed"} => r.measured.owed
    /\ r.pc \in Emitting => r.report.measured.owed

DebtIsKnown == debt => \A p \in Processes : KnowsDebt(run[p])

LEMMA LoneDebt ==
    ASSUME LoneReceiver, NEW p \in Processes, debt' => KnowsDebt(run'[p])
    PROVE  DebtIsKnown'
BY DEF LoneReceiver, DebtIsKnown, KnowsDebt

(* What happens before the report: locals change, the debt with them.      *)
LEMMA DebtInMoves ==
    ASSUME LoneReceiver, "load" \notin Faults, IInv, DebtIsKnown, NEW p \in Processes,
           Start(p) \/ EndBeforeMeasuring(p) \/ Converge(p) \/ RouteOverCeiling(p)
             \/ Ask(p) \/ Clear(p) \/ Kill(p)
    PROVE  DebtIsKnown'
<1>1. run \in [Processes -> Run] /\ debt \in BOOLEAN
  BY Parts DEF Runs, Counts
<1>2. run[p].measured \in Measured /\ (debt => KnowsDebt(run[p]))
  BY <1>1 DEF Run, DebtIsKnown
<1>3. \A step, outcome, m :
         Move(p, step, outcome, m) => run'[p].pc = step /\ run'[p].measured = m
  BY <1>1 DEF Move, Run
<1>4. CASE Start(p)
  <2>1. PICK ceiling \in Ceilings :
           run' = [run EXCEPT ![p] = [Idle EXCEPT !.pc = "converge",
                     !.measured = [[Unmeasured EXCEPT !.ceiling = ceiling] EXCEPT !.owed = debt]]]
    BY <1>4 DEF Start, Fault
  <2>2. /\ run'[p].pc = "converge"
        /\ run'[p].measured = [[Unmeasured EXCEPT !.ceiling = ceiling] EXCEPT !.owed = debt]
    BY <1>1, <2>1 DEF Idle
  <2>3. run'[p].measured.owed = debt
    BY <2>2 DEF Unmeasured
  <2>4. debt' = debt
    BY <1>4 DEF Start
  <2> QED
    BY <2>2, <2>3, <2>4, LoneDebt DEF KnowsDebt, Emitting
<1>5. CASE EndBeforeMeasuring(p) \/ Ask(p)
  <2>1. /\ run'[p].pc = "clear" /\ run'[p].measured = run[p].measured
        /\ run[p].pc \in {"converge", "asking"} /\ debt' = debt
    BY <1>3, <1>5 DEF EndBeforeMeasuring, Ask
  <2> QED
    BY <1>2, <2>1, LoneDebt DEF KnowsDebt, Emitting
<1>6. CASE Converge(p)
  <2>1. PICK bytes \in Deltas :
           /\ run'[p].pc = "clear"
           /\ run'[p].measured = [run[p].measured EXCEPT !.delta = bytes]
           /\ run[p].pc = "converge" /\ debt' = debt
    BY <1>3, <1>6 DEF Converge
  <2>2. run'[p].measured.owed = run[p].measured.owed
    BY <1>2, <2>1 DEF Measured
  <2> QED
    BY <1>2, <2>1, <2>2, LoneDebt DEF KnowsDebt, Emitting
<1>7. CASE RouteOverCeiling(p)
  <2>1. PICK bytes \in Deltas :
           /\ run'[p].pc \in {"clear", "refusal"}
           /\ run'[p].measured = [run[p].measured EXCEPT !.delta = bytes, !.owed = TRUE]
    BY <1>3, <1>7 DEF RouteOverCeiling
  <2>2. run'[p].measured.owed
    BY <1>2, <2>1 DEF Measured
  <2> QED
    BY <2>1, <2>2, LoneDebt DEF KnowsDebt, Emitting
<1>8. CASE Clear(p)
  <2>1. CASE debt' = FALSE
    BY <2>1, LoneDebt
  <2>2. CASE Goto(p, "report") /\ debt' = debt
    <3>1. run'[p].pc = "report" /\ run'[p].measured = run[p].measured
      BY <1>1, <2>2 DEF Goto, Run
    <3> QED
      BY <1>2, <1>8, <2>2, <3>1, LoneDebt DEF KnowsDebt, Emitting, Clear
  <2> QED
    BY <1>8, <2>1, <2>2 DEF Clear
<1>9. CASE Kill(p)
  <2>1. run'[p].pc \in {"idle", "killed"}
    BY <1>1, <1>9 DEF Kill, Idle, Run
  <2> QED
    BY <2>1, LoneDebt DEF KnowsDebt, Emitting
<1> QED
  BY <1>4, <1>5, <1>6, <1>7, <1>8, <1>9

LEMMA DebtInReports ==
    ASSUME LoneReceiver, IInv, DebtIsKnown, NEW p \in Processes,
           Assemble(p) \/ EmitTextfile(p) \/ EmitPush(p)
    PROVE  DebtIsKnown'
<1>1. run \in [Processes -> Run] /\ debt \in BOOLEAN
  BY Parts DEF Runs, Counts
<1>2. (debt => KnowsDebt(run[p])) /\ debt' = debt
  BY <1>1 DEF DebtIsKnown, Assemble, EmitTextfile, EmitPush
<1>3. CASE Assemble(p)
  <2>1. PICK report, step :
           /\ report.measured = run[p].measured
           /\ run' = [run EXCEPT ![p] = [run[p] EXCEPT !.report = report, !.pc = step]]
    BY <1>1, <1>3 DEF Assemble
  <2>2. run'[p].report = report /\ run'[p].measured = run[p].measured
    BY <1>1, <2>1 DEF Run
  <2>3. run[p].pc \in {"refusal", "report"}
    BY <1>3 DEF Assemble
  <2>4. debt => run[p].measured.owed
    BY <1>2, <2>3 DEF KnowsDebt
  <2>5. debt' => KnowsDebt(run'[p])
    BY <1>2, <2>1, <2>2, <2>4 DEF KnowsDebt
  <2> QED
    BY <2>5, LoneDebt
<1>4. CASE EmitTextfile(p) \/ EmitPush(p)
  <2>1. /\ run[p].pc \in Emitting
        /\ run'[p].pc \in Emitting \union {"idle", "asking"}
        /\ run'[p].measured = run[p].measured /\ run'[p].report = run[p].report
    BY <1>1, <1>4 DEF EmitTextfile, EmitPush, Goto, Run, Emitting
  <2> QED
    BY <1>2, <2>1, LoneDebt DEF KnowsDebt, Emitting
<1> QED
  BY <1>3, <1>4

(* Only a sink that takes a report changes what it says of the debt.       *)
LEMMA DebtIsShown ==
    ASSUME IInv, IInv', DebtIsKnown, [Next]_vars, debt, NEW sink \in Sinks,
           shown[sink]["owed"] = 1
    PROVE  shown'[sink]["owed"] # 0
<1>1. /\ OneOutcomeStands /\ OneOutcomeStands'
      /\ latest \in [Sinks -> Reports \union {None}]
  BY Parts DEF Shown
<1>2. CASE latest'[sink] = latest[sink] /\ latest[sink] # None
  <2>1. /\ shown[sink]["owed"] = Flag(latest[sink].measured.owed)
        /\ shown'[sink]["owed"] = Flag(latest'[sink].measured.owed)
    BY <1>1, <1>2 DEF OneOutcomeStands
  <2> QED
    BY <1>2, <2>1
<1>3. CASE UNCHANGED shown
  BY <1>3
<1>4. ASSUME NEW p \in Processes, EmitTextfile(p) \/ EmitPush(p), ~UNCHANGED shown,
             ~(latest'[sink] = latest[sink] /\ latest[sink] # None)
      PROVE  shown'[sink]["owed"] # 0
  <2>1. run[p].pc \in Emitting
    BY <1>4 DEF EmitTextfile, EmitPush, Emitting
  <2>2. KnowsDebt(run[p]) /\ Sound(run[p])
    BY Parts, SoundRuns DEF DebtIsKnown
  <2>3. run[p].report.measured.owed /\ run[p].report # None
    BY <2>1, <2>2 DEF KnowsDebt, Sound, Emitting
  <2>4. PICK taker \in Sinks : Take(taker, run[p].report)
    BY <1>4 DEF EmitTextfile, EmitPush, Sinks
  <2>5. CASE sink = taker
    <3>1. latest'[sink] = run[p].report
      BY <1>1, <2>4, <2>5 DEF Take
    <3>2. shown'[sink]["owed"] = Flag(run[p].report.measured.owed)
      BY <1>1, <2>3, <3>1 DEF OneOutcomeStands
    <3> QED
      BY <2>3, <3>2 DEF Flag
  <2>6. CASE sink # taker
    <3>1. shown'[sink] = shown[sink]
      BY <2>4, <2>6, Parts DEF Take, Shown
    <3> QED
      BY <3>1
  <2> QED
    BY <2>5, <2>6
<1>5. CASE UNCHANGED vars
  BY <1>3, <1>5 DEF vars
<1>6. ASSUME NEW p \in Processes, Running(p) \/ Assemble(p)
      PROVE  UNCHANGED shown
  BY <1>6 DEF Running, Start, EndBeforeMeasuring, Converge, RouteOverCeiling, Ask, Clear,
              Kill, Assemble
<1> QED
  BY <1>2, <1>3, <1>4, <1>5, <1>6 DEF Next, Reporting

LEMMA DebtStaysKnown ==
    ASSUME LoneReceiver, "load" \notin Faults, IInv, DebtIsKnown, [Next]_vars
    PROVE  DebtIsKnown'
<1>1. CASE UNCHANGED vars
  BY <1>1 DEF vars, DebtIsKnown
<1>2. CASE Next
  BY <1>2, DebtInMoves, DebtInReports DEF Next, Running, Reporting
<1> QED
  BY <1>1, <1>2

(***************************************************************************)
(* docs/reimage.md, "the debt remains visible": where one receiver runs    *)
(* and its debt file can be read, no sink that showed a debt is told that  *)
(* there is none while it is on record, whatever else fails.  (Two         *)
(* receivers, or a file that cannot be read, refute it.)                   *)
(***************************************************************************)
THEOREM LoneReceiverKeepsDebtShown ==
    ASSUME LoneReceiver, "load" \notin Faults
    PROVE  Spec => RecordedDebtStaysVisible
<1> DEFINE Kept == \A sink \in Sinks :
              shown[sink]["owed"] = 1 /\ shown'[sink]["owed"] = 0 => ~debt
<1>1. Init => DebtIsKnown
  BY DEF Init, DebtIsKnown
<1>2. IInv /\ DebtIsKnown /\ [Next]_vars => DebtIsKnown'
  BY DebtStaysKnown
<1>3. IInv /\ IInv' /\ DebtIsKnown /\ [Next]_vars => [Kept]_vars
  BY DebtIsShown
<1>4. RecordedDebtStaysVisible <=> [][Kept]_vars
  BY DEF RecordedDebtStaysVisible
<1> HIDE DEF Kept
<1> QED
  BY <1>1, <1>2, <1>3, <1>4, SinksInvariant, PTL DEF Spec
=============================================================================
