# nixdeploy in TLA+

TLA+ modules, TLC configurations and TLAPS proofs for nixdeploy: a publisher
that signs which store path each host and plane of a fleet should run, an
origin that keeps those signed sets, and a receiver on every machine that pulls
the set and converges on its own. File references are to the repository;
`src/release.rs` and the like are the Rust sources.

    tlc -config ReceiverSafety.cfg MCReceiver
    tlapm ReceiverProofs.tla

## 1. Inventory

### Origin: release store, promote, recover (`src/release.rs`, `src/promote.rs`)

State: `releases/<id>.json` (immutable signed deployment sets, written once by
hard link), `promotions/<generation>-<id>.json` (immutable signed journal),
`channels/stable.json` (the one mutable file), `.promotion.lock` (flock), the
request and the result file of each queue owner. Operations: `promote` takes
the lock, recovers, verifies the request, compares it with stable, composes,
and writes release, record, channel; `recover` repairs the channel from the
journal. Several promoters share one origin; a run may die anywhere.

Correct when: the journal is one its own verifier accepts, every record has its
release, the channel never runs ahead of the journal, no promotion overwrites
work its author had not seen, a retry never repeats, a reported success is
true, the lock is always given back.

### Receiver (`src/receive.rs`, `src/activate.rs`, `src/outcome.rs`)

State that outlives a run: the rejection pin, the reimage debt, the metrics
file, and the machine (registered generation, current marker, units in force,
boot media). One run: read the debt, fetch and verify the manifest, read
`currentPath`, read the pin, then either health-check a target that is current
already (and reconcile its boot medium), or size the change, refuse or ask a
provider for a replacement when it is over the ceiling, or activate, health
check, and on rejection pin the target and roll back; report. A timer starts
runs for as long as the machine lives.

Correct when: what a run reports is what the machine is; a rejected closure is
not activated again; a rejection is undone exactly; no replacement is asked for
off the record; a debt stays visible; the machine settles.

### Backend adapters (`modules/adapters/*.nix`)

Generated scripts `activate`, `currentPath`, `rollback`. They differ in when
`currentPath` starts to name the target: at registration (system-manager,
nix-darwin), in the middle of the switch (NixOS), at its end (Home Manager).
The systemd units give the timer, one instance at a time, and no time limit.

### v3 publisher and its readers (`src/publish.rs`, `src/manifest.rs`)

State: `<out>` and `<out>.sig`, replaced one after the other, without a lock. A
partial publication reads a base, usually its own output, verifies it and
composes its selection onto it. A v3 receiver asks for manifest and signature in
two requests; a v4 receiver for one file. Then the document is validated and
reduced to one leaf. Correct when: what is accepted was published as a whole;
an interrupted publication is made whole by a later one; nothing unselected is
lost.

### Closure delta and ceiling (`src/delta.rs`, sizing in `src/receive.rs`)

No state of its own: asks Nix for substituters, tests its own store query, walks
references through narinfos, prunes at what is present, adds sizes, compares
with the ceiling. The store changes under it. Correct when: it counts what is
missing, and no failing or lying query moves a machine across its ceiling.

### Files (`src/atomicfile.rs`, `write_immutable` in `src/release.rs`)

A temporary file named after file and process, filled, synced, then renamed
(mutable files) or linked (immutable ones); the origin also syncs directories.
Correct when: nobody reads part of a file, immutable names never change, and
what has been promised survives power loss.

### Metrics (`src/metrics.rs`)

A text file that is replaced whole, a push gateway that keeps what it is not
told of. One report a run, two around a provider call. Correct when: one
outcome stands, a refusal has its numbers, a failing sink takes nothing from
the other, a recorded debt is not shown as paid.

### Documents (`lib/manifest.nix`, first half of `src/release.rs`, `validate`)

Pure: three validators of one schema, selection, composition, compatibility,
the inventory of `verify-release`. Correct when: they agree.

### Other components

| component | state and operations | what makes it correct |
|---|---|---|
| provisioning adapter | the operator's provider command | accepts, refuses, or kills the caller |
| scheduling adapters | timers, one instance at a time | runs repeat; a run by hand is beside them |
| binary entry point, module options, tests, packaging | none | read for what they promise; not modelled |

### How they interact

A publisher or queue owner hands a request to `promote`; the channel it writes
is what receivers fetch, each at a time of its own. Receiver and adapter
interact by processes, exit codes and the filesystem; receiver and provider by
one call that may never return; runs of one receiver by pin, debt and machine
only. There is no controller: nothing else carries state from one to another.

### What is hard

Crashes between any two file operations, and a switch or a provider call that
outlives nothing; races of promoters and stale requests; retries of what has
landed; the marker, the profile and the units moving at different times; state
read early and used late; one pin per plane; a run by hand beside the timer's
with nothing to keep them apart but process IDs; two files that mean something
only together; what a disk keeps of a rename. `PROJECT.json` lists each hazard
with its line and the property that covers it.

## 2. Modules

| module | models |
|---|---|
| `DeploymentSets` | deployment sets, requests, selection, comparison and composition, leaf by leaf |
| `StableChannel` | the abstract channel: one history, appended to by an atomic compare-and-swap |
| `ReleaseStore` | the origin and its promoters; refines `StableChannel` |
| `MCReleaseStore` | fleets and requests for TLC |
| `ReleaseStoreProofs` | proofs about `ReleaseStore` |
| `Receiver` | one receiver, the adapter, the health gate, the provider and the machine |
| `MCReceiver` | closures for TLC |
| `ReceiverProofs` | proofs about `Receiver` |
| `TwoReceivers`, `MCTwoReceivers`, `TwoReceiversProofs` | two instances of `Receiver` over one machine |
| `LegacyPublish`, `MCLegacyPublish`, `LegacyPublishProofs` | v3 publishers and the two requests of their readers |
| `DeltaWalk`, `MCDeltaWalk`, `DeltaWalkProofs` | sizing a change: the walk, its queries, the ceiling |
| `DurableFiles`, `MCDurableFiles`, `DurableFilesProofs` | the file writes of promoter and receiver, call by call, and what a disk keeps |
| `MetricsSinks`, `MetricsSinksProofs` | what the two sinks show |
| `SignedTargets`, `MCSignedTargets`, `SignedTargetsProofs` | one document from its author to the commands of a machine |

### ReleaseStore and the code

A leaf is a (host, plane) pair; a deployment set maps leaves to artifact
records or `Absent`. A set's ID is the set itself, since the ID is a digest of
its canonical form (collisions aside), and `releaseDigest` is the bytes. A
release is a set, a parent and a time; two runs that propose the same set with
another parent or time propose different bytes, which is what makes reuse of an
existing file visible. `promoted_at` is left out: nothing reads it.

Each action is one file operation other processes can observe, or one decision
under the lock. `Abort` is an I/O error or the death of the process, at any
step: both drop the flock and leave the files. A file operation that takes
effect and then fails (a sync error after the link) is the step followed by
`Abort`. The request carries the verdict of candidate validation as
`wellFormed`: validation is per leaf, so a composition of valid sets is valid.

`DamageChannel` is something outside the program removing or spoiling the
channel, which `recover_locked` repairs; it happens while nobody holds the lock.
Key rotation, an origin rolled back by its operator and damage to immutable
files are not modelled.

### Receiver and the code

`run` is the process: a program counter and the locals of `run_with`,
`converge`, `route_over_ceiling` and `reject_and_rollback`. A run starts with
the config of a closure that is in force, as the unit does. `machine` is what
the adapter scripts change: `profile` (registered generation), `marker`
(`/run/current-system`), `applied` (the closures whose units and files may be
in force: one element when a switch is whole, more when it is not).
`MarkerMoves` chooses what `currentPath` reads and when it moves. The
configuration of a closure (rollback command, reconciler, ceiling, reimage
request) is membership in a constant set.

The manifest's verification, compatibility check and delta appear as the
outcomes they can have. A gate passes, fails or cannot run; a switch may fail
at any point, before or after the marker moved; registration may take effect
and still fail; the step back of a profile may land on any generation. `Kill`
takes the process at any step, `Replace` is the provider keeping its word at
any later time. Writes of pin and debt are atomic (`src/atomicfile.rs`).
A config that does not load ends a run before anything is read, reported or
changed, and is not a step.

### TwoReceivers and the code

`ByHand == INSTANCE Receiver WITH run <- hand`: profile, marker, pin, debt and
gauge are shared, the locals are not. `OneSwitch` is an assumption about code
outside the repository, switch-to-configuration's own lock: two switches do not
overlap, everything else of two runs does. The timer never starts a second run
of its own (`systemd-scheduling.nix`), so two processes are all there are unless
an operator starts several.

### LegacyPublish and the code

A signature is the document it signs. A run is `publish`: arguments and clock,
the two reads of the base, the composition, the two `write_atomic` calls; `Stop`
is an error, a kill or the unit's time limit anywhere between. `builtAt` stands
for `built_at` and `revision` together. It comes from the invocation
(`--built-at`) or from a clock that counts seconds, so `Begin` takes any instant,
and two runs may render the same document: identical input makes identical bytes
(`republishing_identical_input_produces_identical_bytes` in `src/publish.rs`).
Three variables are history or count: `copies`, how many runs have rendered each
document; `rendered`, how many have rendered one at all; `complete`, what was
ever manifest and signature at once.

### DeltaWalk and the code

`compute` with its queue and its `seen` set, one path at a time; the queue is a
set, since the order of a walk changes nothing that is asked of it. A query
answers, fails, or, on a `blind` machine, says "no such path" of everything,
which is what `store_query_is_unreliable` tests for. A lookup asks one
substituter after the other. `StoreGains` is other processes that add paths;
a garbage collection during the walk is not modelled (section 7). Sizes are natural
numbers up to `MaxBytes`; the sum saturates there.

### DurableFiles and the code

`name` is what processes see; `images` is the set of all the contents a disk
may have after power loss, which grows with every rename, link and unlink and
shrinks with every directory sync. `Journaled` chooses whether a file system
keeps the order of directory operations. A process ID comes back after a kill,
and with it the temporary names it left. Data that was not synced is lost as a
whole or in part (`whole`). `Fault` is a call that fails; `FailStep` is the
clean-up of each function.

### MetricsSinks and the code

`shown[sink]` is what a sink shows of each series: the text file replaces all
of it, the gateway what a report mentions (`Taken`). A run is reduced to what a
report is made of: debt loaded or not, delta and ceiling measured or not, debt
recorded, outcome.

### SignedTargets and the code

A document is what serde parsed (unknown and missing fields are refused there).
`ValidHosts`, `ValidManifest`, `ValidRelease` are the Rust validators,
`NixChecks` the library's, each rule a conjunct. `Render`, `Publish`, `Promote`
are the three ways to a signature, `Select` to `Use` the receiver's. A string
is empty, blank or neither; a path looks like a store path or not; the rest of
an artifact's provenance is one flag. Versions are sequences of numbers of any
length; that `parse_version` stops a component at its first non-digit is
abstracted. `Runs` is `ArtifactRequirements::check`; a store that does not answer,
or whose version does not parse, refuses the release (`FactsFail`). A required
version that does not parse is an unsound artifact, refused by validation. Whether
a base verifies is `LegacyPublish`'s matter.

## 3. Runs

A run is a configuration of `PROJECT.json`. Two of them are meant to be
violated; the other ten hold, each of their properties with a mutation of the
model that breaks it.

| run | question | result |
|---|---|---|
| `release_store_safety` | two promoters, two hosts, three generations, full, partial, stale and unsatisfiable requests, a stop at every step, a damaged channel | holds |
| `release_store_refinement` | one host, two planes: is every behaviour one of the atomic channel, does every waiting run end | holds |
| `release_store_recovery` | is the newest generation always recoverable, as docs/release-system.md says | violated |
| `receiver_safety` | NixOS-like backend, two closures, two faults of any kind, two publications | holds |
| `receiver_liveness` | Home-Manager-like backend: does the machine settle, is a debt always shown | holds |
| `receiver_partial` | is a half-switched machine ever called current | violated |
| `two_receivers` | a run by hand beside the timer's, with a kill, an operator or damage, ceilings and a provider: does the machine settle | holds |
| `legacy_publish` | two publishers without a lock, documents rendered once or again, stops, a reader: what can be accepted, what is lost, do retries end | holds |
| `delta_walk` | all acyclic graphs of four paths, growing stores, blind queries, saturation | holds |
| `durable_files` | two processes, kills, failing calls, power loss on a disk that keeps the order of names | holds |
| `metrics_sinks` | failing state files and sinks, kills, a provider: what a sink shows | holds |
| `signed_targets` | documents from three authors, four receivers, store upgrades | holds |

### Further configurations

These cfg files are kept beside the runs; each asks one more question, most of
them the literal question a document of the repository answers otherwise.

| configuration | module | question | result |
|---|---|---|---|
| `ReceiverRetry` | `MCReceiver` | `NeverRetriesRejected`: is a rejected closure retried without an operator | violated |
| `ReceiverBoot` | `MCReceiver` | `ReconciledByItsOwn`: are boot media reconciled only by the configuration they belong to, half-switched machines included | violated |
| `ReceiverDebt` | `MCReceiver` | `DebtRemainsVisible` with damaged state files | violated |
| `ReceiverStalePin` | `MCReceiver` | `HealthyPathClearsPin`: does a healthy other closure always clear the pin | violated |
| `TwoReceiversPin` | `MCTwoReceivers` | `RejectionIsRemembered`: is the published closure, once rejected, pinned for both runs | violated |
| `TwoReceiversBoot` | `MCTwoReceivers` | `WholeMachineReconcilesItself` with a run by hand beside the timer's | violated |
| `LegacyPublishLiveness` | `MCLegacyPublish` | one publisher: `WindowCloses`, full publications on a timer make the pair verify again; `AcceptedWasComplete`, whatever is accepted was a whole publication | holds |
| `LegacyPublishAgain` | `MCLegacyPublish` | `AcceptedWasComplete` with two publishers | violated |
| `LegacyPublishWedge` | `MCLegacyPublish` | `WindowCloses` for partial publications onto their own output | violated |
| `LegacyPublishRace` | `MCLegacyPublish` | `PairedAtRest` with two publishers | violated |
| `LegacyPublishLost` | `MCLegacyPublish` | `UnselectedSurvive` with two partial publishers | violated |
| `DurableFilesUnordered` | `MCDurableFiles` | `JournalSurvives` on a disk that orders no directory entries | violated |
| `DurableFilesUnchanged` | `MCDurableFiles` | `UnchangedSurvives`: does a reported `unchanged` survive power loss | violated |
| `DurableFilesDebt` | `MCDurableFiles` | `DebtIsDurable`: does the debt survive power loss at the provider call | violated |
| `MetricsSinksStale` | `MetricsSinks` | `AbsentUnlessMeasured`: is the delta absent where the run did not measure | violated |
| `MetricsSinksRace` | `MetricsSinks` | `RecordedDebtStaysVisible`: does a recorded debt stay shown beside a run by hand | violated |
| `SignedTargetsLockstep` | `MCSignedTargets` | `RenderedIsAccepted`: is every rendered document accepted | violated |

Properties, by what they would catch:

- Origin. `JournalIsChain`, `JournalIsBacked`, `ChannelIsJournaled`: lost or
  repeated generations, records without their bytes, hosts that see what
  recovery takes back. `EveryGenerationMoves`: a retry promoted twice.
  `SuccessIsJournaled`: a result that is not true. `NoLostUpdate`,
  `ChannelGetsNewest`: work overwritten unseen, an old set put back.
  `ImplementsStableChannel`: all of that against the atomic specification.
  `EveryRunEnds`: a path that keeps the lock.
- Receiver. `ConvergedIsWhole`, `RollbackIsExact`: a report of success or of a
  finished rollback on a machine that is neither. `PinnedIsNeverActivated`: the
  poison loop. `ProviderCallIsOnRecord`: a replacement nobody would miss.
  `DebtRemainsVisible`: a gauge cleared by an unrelated run. `Settles`: a
  receiver that tries for ever. `BothSettle`: two that undo each other for ever.
  `WholeMachineReconcilesItself`: a boot medium written by another
  configuration's command on a machine that is whole.
- Publication. `NewIsAcceptedWhole`: a mixed pair that verifies, of a document
  that one run has rendered.
  `UnselectedSurviveOnBase`: a target lost although the base still stands.
  `RetriesEnd`: a receiver that asks for the second file for ever.
- Sizing. `WalkIsExact`: a pruned walk that skips or counts twice, a failed
  query taken for an answer. `VerdictIsRight`: a wrapped sum, a blind query.
  `VerdictReached`: a walk in circles.
- Files. `NeverTorn`, `WriteOnce`, `JournalSurvives`, `LeftoversAreRemoved`.
- Metrics. `OneOutcomeStands`, `RefusalIsExplained`, `LastWordsAreTheRefusal`,
  `NoSinkHidesTheOther`.
- Documents. `CompositionIsNeverRefused`: a document signed and then refused.
  `BackendAlwaysFits`, `UsesAreSound`: a foreign or unsound path handed to a
  command, or one a cache may have dropped. `FitSurvivesUpgrade`: versions
  compared by the wrong component.

### Bounds

`MaxGenerations = 3`: promotions of A, B and A again, with the other promoter's
stale view between them, need three generations; a fourth repeats a state up to
the journal's length. Two promoters: each rule of the protocol compares one run
with the files, so a third adds waiting only. Two hosts with one plane and one
host with two planes are the two ways in which leaves can be selected apart.
Two artifacts and two times: equal or different is all the code asks.

Receiver: two closures and the uninitialized machine make every relation of
target, current, pin and config; `ReceiverRetry` needs a third closure, to roll
back to. `MaxFaults = 2` allows a fault during the recovery from another.
`MaxPublications` is 2 where a target may come back, 1 where one change is
enough to disturb a run in flight.

`TwoReceivers`: a machine that runs `b` while `a` is published, and nothing is
published any more. The run by hand has fetched `a` and is under way when the
timer starts its own; it is not repeated; one fault. A run by hand with a target
it read before the last publication is in `TwoReceiversPin`.

`LegacyPublish`: two instants, and no run begins once three have rendered a
document; one that has begun may render a fourth. That is enough for a document
to be rendered again after another run has replaced it, which
`LegacyPublishAgain` needs. Two hosts, one selected by each partial job, one full
job and one that fails validation; one stop.

`DeltaWalk`: four paths have chains, diamonds and a shared, self-referring
dependency; 3-bit sizes reach the top of their range. One substituter besides
the failing first answer is all a lookup distinguishes.

`DurableFiles`: two documents (promoted, and promoted over), two generations,
one fault of any kind. `OneMachine` in the MC module names what is left out: a
disk has the receiver's debt or the origin's files, not both, and the process
without the lock is always the second. The proofs have no such bound.

`MetricsSinks`: deltas below and above one ceiling or none, four reports: two
around a provider call, one that should retire them, and one more; three
faults. The proofs are for any number of processes at once.

`SignedTargets`: each document has one field wrong or none, so each rule of a
validator is alone decisive somewhere; versions have lengths two and three.

### Fairness

Origin: weak fairness of each run's steps, strong fairness of `Acquire`: the
kernel grants a lock that is freed again and again to each waiter. Nothing
makes anyone submit, and nothing makes a run fail. Receiver: weak fairness of
`Running`, the steps of a run together with the timer's next start
(`OnUnitActiveSec`, `TimeoutStartSec = "infinity"` in
`modules/adapters/systemd-scheduling.nix`). No fairness for the gate passing,
a switch succeeding, or a provider replacing anything. Faults are bounded, so
the liveness result is about what happens once they stop.
`TwoReceivers`: the timer as before, and a run by hand that was started goes on;
nobody has to start one. `LegacyPublish`: the publisher's timer fires again and
its runs go on; a receiver repeats its requests, and one that keeps being sent
is answered in the end (strong fairness of the second request: the first may
withdraw it between). `DeltaWalk`: every command and request returns
(`FETCH_TIMEOUT`). `DurableFiles`: the queue sends its request again, and a
process that lives goes on.

## 4. What the runs found

Listed as findings in `PROJECT.json`:

1. `release_store_recovery`: promote A, B, A. The third promotion reuses the
   first release of A, whose parent is not B; it reports `promoted`, and every
   later `recover` and `promote` refuses the origin.
2. `receiver_partial`: killed after the marker moved, the next run finds the
   target current and reports `AlreadyCurrent`; nothing completes the switch.

Shown by the further configurations, with the sentence each is measured by:

3. `ReceiverRetry`: there is one pin per plane. A fails and is undone, B fails
   and is undone, A is published again and is activated again.
   docs/design.md:104-106: "retrying the exact same immutable closure before
   then requires an operator to remove the plane-scoped pin explicitly".
4. `ReceiverBoot`: where the profile is the marker, a run killed before
   activation lets the old unit reconcile the new boot medium.
   src/receive.rs:87-89: "the old process must never reconcile new signed media
   with an actuator declared by the previous closure".
5. `ReceiverDebt`: a debt file that does not parse is reported as owed 0.
   docs/reimage.md:73-76: "Once recorded, the debt remains visible".
6. `ReceiverStalePin`: a closure that is current again and healthy leaves the
   pin of the one that was undone. docs/design.md:104-106: a different path
   "clears the stale pin once it passes health" (README.md:199 says the first
   healthy convergence does, and this run is not one).
7. `TwoReceiversPin`: a run with the target of before the last publication
   fails and pins it over the published closure's pin; the next tick activates
   the published closure again. README.md:194-197: a target that failed "is
   not activated on every timer tick".
8. `TwoReceiversBoot`: a run by hand of the old closure looks while the timer's
   switch completes, finds its target current and reconciles the new closure's
   boot medium with the old closure's command, on a machine that is whole. The
   sentence of 4.
9. `LegacyPublishWedge`: killed between signature and manifest, a partial
   publisher on its own output refuses its base from then on.
   modules/publisher.nix:144: "Re-publishing unchanged candidates is safe and
   atomic."
10. `LegacyPublishRace`, `LegacyPublishLost`: two publishers leave a pair that
   does not verify, or drop each other's targets. README.md:173-174: "selecting one
   plane cannot remove the targets needed by every other receiver".
   `LegacyPublishAgain`: a receiver holds manifest d while a run that signed e
   replaces it by e; a third run renders d once more and signs it, and the receiver
   accepts d, although d and its signature were never there together. What it
   accepts is a document the publishers signed and are about to publish again.
11. `DurableFilesUnordered`: a release that is found is not synced, its record
    is; on a disk without order the record may outlive its release.
    docs/release-system.md:105: "The immutable release and journal are
    sufficient for recovery."
12. `DurableFilesUnchanged`: `unchanged` is reported of what was never synced;
    the same sentence.
13. `DurableFilesDebt`: the debt's directory entry is not synced before the
    provider is called. docs/design.md:241-243: "after it has durably recorded"
    the debt.
14. `MetricsSinksStale`: the push gateway keeps a delta that was not measured.
    src/metrics.rs:162-164: "Absent when the run ended before measuring".
15. `MetricsSinksRace`: a run by hand shows a recorded debt as 0; the sentence
    of 5.
16. `SignedTargetsLockstep`: the Nix library renders blank strings that every
    receiver refuses. src/manifest.rs:3-6: "the shapes below are kept in
    lockstep".

7, 8, 10 and 15 need two processes at once, which the code counts on
(`src/atomicfile.rs:47`) or at least does not prevent; 11 to 13 need power loss
and a file system that allows what POSIX allows.

## 5. Proofs

TLC checks the instances above; TLAPS proves the safety results for every value
of the constants.

`ReleaseStoreProofs`. `IInv` adds to the properties what a run may rely on at
each step: the lock is held by exactly the run inside (`LockedRunIsAlone`), the
channel agrees with the journal once recovery is done (`Settled`), and a run
about to write has composed its release from the newest set (`RunInv`). It is
needed because `JournalIsChain` alone is lost by a run whose stable is not the
newest. From it: `TypeCorrect`, `ChainAlways`, `BackedAlways`,
`JournaledAlways`, `MovesAlways`, `SuccessAlways`, `NoUpdateLost`,
`NewestAlways`; `Refinement`, that every step is a step of `StableChannel` or
stutters; and `WedgeHasOneCause`, that parent disagreement (finding 1) is the
only thing that can make the newest release unrecoverable. `PromotionsAreFinite`
is the safety half of `EveryRunEnds`: the steps of a run, in the order the code
takes them, are at most eight from the queue to the return; each step uses one
up, nobody else's step gives one back, and the lock leaves its holder only by
the holder's return or death, never to another run. What fairness adds is that
the steps are taken. Assumed: requests
are well typed, the marks (`Missing`, `Garbage`, `Free`, ...) are not data.

`ReceiverProofs`. `IInv` adds to the properties which locals are set at each
step (`LocalsAreSet`), that until a run pins its own target the target is not
pinned (`PinIsOwn`), and the order of a switch: the profile leads, and a
command that exited zero left profile, marker and units in one closure
(`SwitchIsOrdered`). Without the last, `ConvergedIsWhole` is not inductive: the
health gate comes steps after the evidence. `ReceiverInvariant` gives
`ReceiverTypes`, `ConvergenceIsWhole`, `RollbackIsWhole`, `NoPinnedActivation`
and `ProviderCallsRecorded`, for every backend order and any number of faults.

`DebtStaysVisible`: `DebtRemainsVisible` wherever state files can be read and
are not damaged; `ReceiverDebt` is why the assumption is needed.
`BootMediaAreReconciledByTheirOwn`: on a machine with one closure in force the
boot medium is written by that closure's command, for every backend;
`ReceiverBoot` is why the machine has to be whole, `TwoReceiversBoot` why the
receiver has to be alone.

A second invariant, `Knowing`, is about what a run read early and acts on late:
a run that found no pin is right about that until it writes one itself
(`PinIsKnown`), and what `currentPath` said at the start is still so where the
run relies on it (`CurrentIsKnown`), since only the run itself moves the marker.
From it, `ConvergenceLeavesNoPin`: nothing is pinned when a run says Converged,
although the pin was read before the switch; and `DebtsArePaidByHealth`:
docs/reimage.md's rule that a debt is cleared only after Converged or
AlreadyCurrent, at which point the machine is still on that run's target.
`RunsAreFinite` is the safety half of `Settles`: `StepsLeft` counts the steps to
the end of a run, at most 19; every step uses one up, and neither a publication
nor an operator, a damaged file or the provider gives one back.

`TwoReceiversProofs`. `Hand` is `ReceiverProofs` again with the run by hand for
`run`, so every lemma about one run's steps holds of the other's. `InvBoth` has
what a run keeps for itself (`RunKeepsLocals`) and `OneAtATime`, which is what
`OneSwitch` assumes of the backend. The rest of the receiver's `IInv` is not in
it, because it is false of two: pin, profile and the closures in force are
changed by the other run, which `TwoReceiversPin` and `TwoReceiversBoot` show.
What is left is worth stating: `NeitherRunGoesOnForEver`, the safety half of
`BothSettle` (only `OneAtATime` keeps the marker still under a switch), and
`OnlyHealthyRunsPay`, which says less than `DebtsArePaidByHealth` does of one
run: by the time a debt is cleared the other run may have left that target.

`LegacyPublishProofs`. `IInv` says of a document that one run has rendered
(`Once`) that it is on its way in that run only (`OnceIsAlone`), has not been seen
by anyone before it is written (`UnseenUntilWritten`) nor been signed before its
own step (`UnsignedUntilSigned`), so that a body in a reader's hand is signed by
the present signature only if it was published whole (`SignedMeansComplete`).
`AllIsRendered`, that whatever is anywhere was rendered by some run, is what makes
a document of a new run either new or no longer `Once`. `NewIsAcceptedWhole`
follows for any number of publishers and any clock. Without `Once` it is false of
two publishers (`LegacyPublishAgain`); of one publisher
`LonePublisherIsAcceptedWhole` proves it of every document, however often it is
rendered, since what has been seen then was whole when it landed
(`SeenWasComplete`).
`WritesOnTheBaseKeepUnselected` says that a manifest written while its base still
stands keeps what it did not select (`ComposedOnBase`), for any number too, and
`LonePublisherKeepsUnselected` is `UnselectedSurvive` for one publisher, since
`LegacyPublishLost` refutes it for two. `LonePublisherLeavesAPair` is
`PairedAtRest`, again for one (`LegacyPublishRace`): the signature is ahead of the
manifest only between the two writes of a run.

`DeltaWalkProofs`. `IInv`: what was met is counted, pruned or queued
(`SeenIsAccounted`), each once (`CountedOnce`), and the store stays closed
under references (`StoreIsComplete`), without which pruning would lose paths.
`PrunedWalkIsExact` is induction-free: an empty queue makes what was met closed,
and the closure of the target is the least closed set. `VerdictsAreRight` adds
the numbers: a saturating sum over what was counted is the sum over what was
missing, for any sizes, so no wrap-around and no double count moves a machine
across its ceiling. The lemmas about sums over a set are proved by a smallest
counterexample (the library's induction theorems cannot be instantiated), for
which `Paths` is assumed finite. `EverySizingIsFinite` is the safety half of
`VerdictReached`: each query uses up one of a number of steps fixed by the number
of paths and substituters, whatever cycles the references have.

`DurableFilesProofs`. `IInv`: every visible name and every image has whole,
synced bytes (`NamesAreOnDisk`, `ImagesAreOnDisk`), an immutable name never has
two contents in name and image (`ImagesLag`), and who installs owns a filled
temporary file (`TempsAreOwned`). Gives `FilesAreWhole` and
`ImmutableFilesNeverChange`, with and without `Journaled`. `JournalIInv` adds
that neither processes nor any image of the disk see a record without its release
and its predecessors, or a report without its record (`InOrder`), which each write
keeps by coming after the one it builds on (`WritesInOrder`). `JournalSurvivesPowerLoss` follows where
names become durable in the order they were made (`Journaled`, as file systems
with a journal do; `DurableFilesUnordered` refutes it elsewhere), for any number
of promoters, and without using the lock.

`MetricsSinksProofs`. `WorkIsSound` carries the numbers of a refusal from the
comparison to the report; `SinksHaveOneOutcome` and `SinksExplainRefusals`
hold for any number of processes and faults. `LoneInvariant` is about one
receiver (`LoneReceiver`): which sink lacks the report in hand, and the fault it
had. It gives `RefusalIsLastWords`, `SinksAreIndependent` and, where the debt
file can be read, `LoneReceiverKeepsDebtShown`; of two receivers either may
overwrite the other's report (`MetricsSinksRace`).

`SignedTargetsProofs`. `CompositionIsValid` is the lemma behind
`CompositionNeverRefused`: no rule of `validate` is about two leaves.
`AcceptedIsRenderable` is the direction of the lockstep that holds.
`BackendsAlwaysFit`: `converge`'s backend comparison cannot fail, since plane
names are bound to backends at both ends. `UpgradeKeepsFit` is monotonicity of
the version comparison, by the first component that differs.

Only model-checked: liveness (`EveryRunEnds`, `Settles`, `BothSettle`,
`RetriesEnd`, `VerdictReached`, `LeftoversAreRemoved`; fairness and ENABLED are
outside the prover, which is why their safety halves above are stated as
decreasing distances), and all violations. Every invariant and action property
of the passing runs is a theorem, those of `MetricsSinks` and `DurableFiles` named
above under the condition given there. Properties stated in a proof module
(`ConvergedClearsPin`, `DebtIsPaidByHealth`, `EveryRunIsFinite`,
`EveryPromotionIsFinite`, `SizingIsFinite`, `BothRunsAreFinite`,
`DebtsNeedAHealthyRun`) are not in a run of `PROJECT.json`: TLC checked them on the
instances of section 3 before they were proved. `TypeOK` is a conjunct of each
`IInv` and a theorem of its own where it says something.

## 6. Plan

In this order:

1. Safety halves of `RetriesEnd` and `LeftoversAreRemoved`, the two liveness
   properties without one: what a lone retrying process may never undo.
2. `Adapters`: the scripts of each backend step by step, implementing the
   `MarkerMoves` abstraction of `Receiver`.
3. `ReleaseStore`'s writes refined by `DurableFiles`.
4. A system of one origin and several receivers: a machine only ever runs what
   some journal generation names.

## 7. Not modelled, and why

JSON syntax, base64, ed25519 and digests (bytes verify or do not); HTTP and
narinfo syntax; flag parsing; texts and exit codes (a fixed table); Nix
evaluation-time options and assertions (no run-time state); the command
lines of `verify-release` and the entry point (read-only, dispatch); the Nix-side
delta (an estimate at build time); a garbage collection while a change is sized
(`src/delta.rs:6-8` names collections between runs; one that removes what the walk
has just found present makes its sum too small); launchd and unit hardening; tests
and packaging.
