---------------------------- MODULE SignedTargets ----------------------------
(***************************************************************************)
(* One document on its way from its author to the commands of a machine:   *)
(* rendered by the Nix library (lib/manifest.nix), signed by the v3        *)
(* publisher (src/publish.rs) or composed and signed by a promoter         *)
(* (src/release.rs), validated again and reduced to one target by the      *)
(* receiver (src/manifest.rs), compared with the receiver's configuration  *)
(* and store (src/receive.rs), and handed to activation, boot-role         *)
(* reconciler or provider.                                                 *)
(*                                                                         *)
(* A document is what serde parsed.  Strings matter by being empty, blank  *)
(* or neither, paths by looking like store paths, provenance by passing    *)
(* its own checks.                                                         *)
(***************************************************************************)
EXTENDS Naturals, Sequences

CONSTANTS
    HostNames, Strings,
    Empty,         \* the empty string
    Blank,         \* the strings without anything but white space
    Paths,
    StorePaths,    \* those that looks_like_store_path accepts
    Versions,      \* store versions, parsed
    Systems,       \* the systems that closures are built for
    None,          \* no value
    Documents,     \* what authors write
    Configs        \* what receivers are configured with

Backends == {"nixos", "system-manager", "home-manager", "nix-darwin"}
SystemPlanes == {"nixos", "system-manager"}
PlaneNames == Backends \union {"another"}
Roles == {"primary", "nixrescue"}
Authors == {"rendered", "published", "promoted"}
Leaves == HostNames \X PlaneNames

BootArtifact == [artifact : Paths, sound : BOOLEAN, image : Strings \union {None}]

(* serde: a managed boot object has its primary role.                      *)
Boot ==
    [mode : {"absent", "none"}] \union
    [mode : {"managed"}, primary : BootArtifact, nixrescue : BootArtifact \union {None}]

(* sound: what validate_artifact asks of the rest of a v4 artifact.        *)
PlaneEntry ==
    [backend : Backends, identity : Strings \union {None}, target : Paths,
     sound : BOOLEAN, system : Systems, minimum : Versions, boot : Boot]

(* A host may be there and have no planes.                                 *)
Document ==
    {d \in [revision : Strings, dated : BOOLEAN, hosts : SUBSET HostNames,
            planes : [Leaves -> PlaneEntry \union {None}]] :
        \A l \in Leaves : d.planes[l] # None => l[1] \in d.hosts}

(* With the system of the machine the receiver runs on.                    *)
Config ==
    [host : HostNames, system : Systems, plane : PlaneNames, backend : Backends,
     identity : Strings \union {None}, reconcile : Roles \union {None},
     reimage : Roles \union {None}]

ASSUME StringsAssumption ==
    /\ Blank \subseteq Strings /\ Empty \in Blank /\ None \notin Strings
    /\ HostNames \subseteq Strings
ASSUME PathsAssumption == StorePaths \subseteq Paths /\ None \notin Paths
ASSUME NoneAssumption ==
    /\ None \notin PlaneEntry \union BootArtifact \union Roles
    /\ None \notin Authors \union {"composed", "backend"}
ASSUME VersionsAssumption == Versions \subseteq Seq(Nat)
ASSUME DocumentsAssumption == Documents \subseteq Document /\ Configs \subseteq Config

VARIABLES
    config,  \* the receiver's configuration
    store,   \* its store daemon's version
    origin,  \* who signed: "rendered", "published", "promoted", or None
    doc,     \* what was signed
    pc,
    stage,   \* why it ended
    uses     \* what was handed to commands

vars == <<config, store, origin, doc, pc, stage, uses>>

-----------------------------------------------------------------------------
(* Validation.                                                             *)

Trimmed(s) == IF s \in Blank THEN Empty ELSE s

ValidBootArtifact(b) ==
    /\ b.artifact \in StorePaths
    /\ b.sound
    /\ b.image # Empty

(* Only the primary role is looked at.                                     *)
PrimaryOnly(boot) == boot.mode = "managed" => ValidBootArtifact(boot.primary)

ValidRoles(boot) ==
    boot.mode = "managed" =>
        /\ ValidBootArtifact(boot.primary)
        /\ boot.nixrescue # None => ValidBootArtifact(boot.nixrescue)

BootFits(backend, boot) ==
    /\ backend = "nixos" => boot.mode # "absent"
    /\ backend \notin SystemPlanes => boot.mode = "absent"

ValidPlane(name, e) ==
    /\ name = e.backend
    /\ IF e.backend = "home-manager"
       THEN e.identity # None /\ Trimmed(e.identity) # Empty
       ELSE e.identity = None
    /\ e.target \in StorePaths
    /\ e.sound
    /\ BootFits(e.backend, e.boot)
    /\ ValidRoles(e.boot)

Present(d) == {l \in Leaves : d.planes[l] # None}

(* validate and validate_set                                               *)
ValidHosts(d) ==
    /\ d.hosts # {}
    /\ \A h \in d.hosts : Trimmed(h) # Empty /\ \E l \in Present(d) : l[1] = h
    /\ \A l \in Present(d) : ValidPlane(l[2], d.planes[l])

ValidManifest(d) == Trimmed(d.revision) # Empty /\ d.dated /\ ValidHosts(d)

ValidRelease(d) == d.dated /\ ValidHosts(d)

(* check of lib/manifest.nix: strings are compared with the empty one.     *)
NixChecksPlane(name, e) ==
    /\ name \in Backends /\ name = e.backend
    /\ IF e.backend = "home-manager"
       THEN e.identity \notin {None, Empty}
       ELSE e.identity = None
    /\ e.target \in StorePaths
    /\ BootFits(e.backend, e.boot)
    /\ ValidRoles(e.boot)

NixChecks(d) ==
    /\ d.revision # Empty /\ d.dated
    /\ d.hosts # {}
    /\ \A h \in d.hosts : \E l \in Present(d) : l[1] = h
    /\ \A l \in Present(d) : NixChecksPlane(l[2], d.planes[l])

(* A v3 document has no provenance that could be unsound.                  *)
IsManifest(d) ==
    \A l \in Present(d) :
        LET e == d.planes[l] IN
        /\ e.sound
        /\ e.boot.mode = "managed" =>
              /\ e.boot.primary.sound
              /\ e.boot.nixrescue # None => e.boot.nixrescue.sound

-----------------------------------------------------------------------------
(* Authors.                                                                *)

(* select_targets                                                          *)
Selected(d, hosts, planes) ==
    {l \in Present(d) : /\ hosts = {} \/ l[1] \in hosts
                        /\ planes = {} \/ l[2] \in planes}

SelectsNothing(d, hosts, planes) ==
    \/ ~(hosts \subseteq d.hosts)
    \/ ~(planes \subseteq {l[2] : l \in Present(d)})
    \/ Selected(d, hosts, planes) = {}

(* Hosts are taken whole: what the base has on them is gone.               *)
ReplaceHosts(base, candidates, selected) ==
    [revision |-> candidates.revision, dated |-> candidates.dated,
     hosts |-> base.hosts \union candidates.hosts,
     planes |-> [l \in Leaves |-> IF l \in selected THEN candidates.planes[l]
                                  ELSE IF l[1] \in candidates.hosts THEN None
                                  ELSE base.planes[l]]]

(* compose_selected                                                        *)
Composed(base, candidates, selected) ==
    [revision |-> candidates.revision, dated |-> candidates.dated,
     hosts |-> base.hosts \union {l[1] : l \in selected},
     planes |-> [l \in Leaves |-> IF l \in selected THEN candidates.planes[l]
                                  ELSE base.planes[l]]]

Sign(by, d) ==
    /\ origin' = by
    /\ doc' = d
    /\ pc' = "signed"
    /\ UNCHANGED <<config, store, stage, uses>>

Refuse(reason) ==
    /\ stage' = reason
    /\ pc' = "ended"
    /\ UNCHANGED <<config, store, origin, doc, uses>>

(* A publisher of one's own that uses the Nix library.                     *)
Render ==
    /\ pc = "written"
    /\ \E d \in Documents :
          /\ IsManifest(d)
          /\ IF NixChecks(d) THEN Sign("rendered", d) ELSE Refuse("unrendered")

(* hosts_from_selection                                                    *)
HostsFromSelection(d, selected) ==
    [revision |-> d.revision, dated |-> d.dated,
     hosts |-> {l[1] : l \in selected},
     planes |-> [l \in Leaves |-> IF l \in selected THEN d.planes[l] ELSE None]]

(***************************************************************************)
(* nixdeploy publish: what is selected is validated by itself, the base of *)
(* a partial publication too, and what is composed of them once more.      *)
(***************************************************************************)
Publish ==
    /\ pc = "written"
    /\ \E d, base \in Documents, hosts \in SUBSET HostNames, planes \in SUBSET PlaneNames :
          LET selected == Selected(d, hosts, planes)
              full == hosts = {} /\ planes = {}
              made == IF full THEN HostsFromSelection(d, selected)
                              ELSE Composed(base, d, selected)
          IN  /\ IsManifest(d) /\ IsManifest(base)
              /\ IF \/ SelectsNothing(d, hosts, planes)
                    \/ ~ValidManifest(HostsFromSelection(d, selected))
                    \/ ~full /\ ~ValidManifest(base)
                 THEN Refuse("rejected")
                 ELSE IF ~ValidManifest(made) THEN Refuse("composed")
                 ELSE Sign("published", made)

(***************************************************************************)
(* promote: candidates are validated whole, stable is a verified release.  *)
(***************************************************************************)
Promote ==
    /\ pc = "written"
    /\ \E d, stable \in Documents, hosts \in SUBSET HostNames, planes \in SUBSET PlaneNames :
          LET made == IF hosts = {} /\ planes = {} THEN d
                      ELSE Composed(stable, d, Selected(d, hosts, planes))
          IN  /\ ValidRelease(stable)
              /\ IF ~ValidRelease(d) \/ SelectsNothing(d, hosts, planes)
                 THEN Refuse("rejected")
                 ELSE IF ~ValidRelease(made) THEN Refuse("composed")
                 ELSE Sign("promoted", made)

-----------------------------------------------------------------------------
(* The receiver.                                                           *)

(* Plane names and backends are not compared.                              *)
LoadsAnyName(c) ==
    /\ IF c.backend = "home-manager"
       THEN c.identity # None /\ Trimmed(c.identity) # Empty
       ELSE c.identity = None
    /\ c.reimage # None => c.backend = "nixos"
    /\ c.reconcile # None => c.backend \in SystemPlanes

(* load_config                                                             *)
Loads(c) ==
    /\ IF c.backend = "home-manager"
       THEN c.identity # None /\ Trimmed(c.identity) # Empty
       ELSE c.identity = None
    /\ c.plane = c.backend
    /\ c.reimage # None => c.backend = "nixos"
    /\ c.reconcile # None => c.backend \in SystemPlanes

Accepted == IF origin = "promoted" THEN ValidRelease(doc) ELSE ValidManifest(doc)

Leaf == <<config.host, config.plane>>
Target == doc.planes[Leaf]

(* verify_and_select and verify_release_and_select                         *)
Select ==
    /\ pc = "signed"
    /\ IF ~Accepted THEN Refuse("invalid")
       ELSE IF Leaf \notin Present(doc) THEN Refuse("notFound")
       ELSE pc' = "selected" /\ UNCHANGED <<config, store, origin, doc, stage, uses>>

(* A component that is not there is zero.                                  *)
Component(version, i) == IF i <= Len(version) THEN version[i] ELSE 0

(* Any component that is smaller.                                          *)
SomeComponentLess(actual, required) ==
    \E i \in 1..Len(required) : Component(actual, i) < required[i]

(* version_less_than                                                       *)
VersionLess(actual, required) ==
    \E i \in 1..Len(required) :
        /\ Component(actual, i) < required[i]
        /\ \A j \in 1..(i - 1) : Component(actual, j) = required[j]

(* ArtifactRequirements::check; a v3 target requires nothing.              *)
Runs(version) ==
    origin = "promoted" =>
        /\ Target.system = config.system
        /\ ~VersionLess(version, Target.minimum)

Fit ==
    /\ pc = "selected"
    /\ IF Target.backend # config.backend THEN Refuse("backend")
       ELSE IF Target.identity # config.identity THEN Refuse("identity")
       ELSE IF ~Runs(store) THEN Refuse("compatibility")
       ELSE pc' = "fits" /\ UNCHANGED <<config, store, origin, doc, stage, uses>>

(* The store does not answer, or with a version that does not parse.       *)
FactsFail ==
    /\ pc = "selected" /\ origin = "promoted"
    /\ Target.backend = config.backend /\ Target.identity = config.identity
    /\ Refuse("compatibility")

(* BootSpec::artifact                                                      *)
Artifact(boot, role) ==
    IF boot.mode = "managed" THEN boot[role] ELSE None

Use(use) ==
    /\ uses' = uses \union {use}
    /\ pc' = "ended"
    /\ UNCHANGED <<config, store, origin, doc, stage>>

Activate ==
    /\ pc = "fits"
    /\ Use([path |-> Target.target, image |-> None])

(* reconcile_boot_role, of a target that is current already.               *)
Reconcile ==
    /\ pc = "fits" /\ config.reconcile # None
    /\ LET b == Artifact(Target.boot, config.reconcile) IN
       IF b = None THEN Refuse("bootReconcile")
       ELSE Use([path |-> b.artifact, image |-> None])

(* route_over_ceiling, of a target that is over the ceiling.               *)
Reimage ==
    /\ pc = "fits" /\ config.reimage # None
    /\ LET b == Artifact(Target.boot, config.reimage) IN
       IF config.reimage # "primary" \/ b = None THEN Refuse("reimage")
       ELSE IF b.image = None THEN Refuse("reimage")
       ELSE Use([path |-> b.artifact, image |-> b.image])

(* The next run: the configuration may be the one that was activated.      *)
Tick ==
    /\ pc = "ended" /\ origin # None
    /\ pc' = "signed"
    /\ stage' = None
    /\ config' \in {c \in Configs : Loads(c)}
    /\ UNCHANGED <<store, origin, doc, uses>>

(* The daemon is upgraded: some component rises, what follows is anything. *)
UpgradeStore ==
    /\ pc = "signed"
    /\ store' \in {v \in Versions :
          \E i \in 1..Len(v) : /\ v[i] > Component(store, i)
                               /\ \A j \in 1..(i - 1) : v[j] = Component(store, j)}
    /\ UNCHANGED <<config, origin, doc, pc, stage, uses>>

Init ==
    /\ config \in {c \in Configs : Loads(c)}
    /\ store \in Versions
    /\ origin = None
    /\ doc = None
    /\ pc = "written"
    /\ stage = None
    /\ uses = {}

Next ==
    \/ Render \/ Publish \/ Promote
    \/ Select \/ Fit \/ FactsFail \/ Activate \/ Reconcile \/ Reimage \/ Tick
    \/ UpgradeStore

Spec == Init /\ [][Next]_vars

-----------------------------------------------------------------------------
(***************************************************************************)
(* release.rs, "composed release", and the second validation of publish.rs:*)
(* no composition of valid targets onto a valid document comes out invalid,*)
(* whatever is selected.                                                   *)
(***************************************************************************)
CompositionIsNeverRefused == stage # "composed"

(* With the plane's name checked at both ends, a selected target is never  *)
(* one of another backend: no adapter meets a foreign closure.             *)
BackendAlwaysFits == stage # "backend"

(* Plane targets only.                                                     *)
PlaneTargets(d) == {d.planes[l].target : l \in Present(d)}

(* inventory of verify_release.rs                                          *)
Inventory(d) ==
    {d.planes[l].target : l \in Present(d)} \union
    {b.artifact : b \in {Artifact(d.planes[l].boot, role) :
                            l \in Present(d), role \in Roles} \ {None}}

(***************************************************************************)
(* verify_release.rs: the inventory is "the complete set of Nix store      *)
(* roots named by the trusted deployment set".  Whatever a receiver hands  *)
(* to its activation, its boot-role reconciler or its provider is one of   *)
(* those roots (so a cache that keeps them keeps it), looks like a store   *)
(* path, and comes with no empty image.                                    *)
(***************************************************************************)
UsesAreSound ==
    \A use \in uses :
        /\ use.path \in StorePaths
        /\ use.image # Empty
        /\ origin = "promoted" => use.path \in Inventory(doc)

(* A release that runs on a store runs on every later version of it.       *)
FitSurvivesUpgrade ==
    [][pc = "signed" /\ Accepted /\ Leaf \in Present(doc) /\ Runs(store) /\ store' # store
          => Runs(store')]_vars

(***************************************************************************)
(* manifest.rs keeps the Nix schema's one consumer in lockstep with it: a  *)
(* document that lib/manifest.nix renders is one that receivers accept.    *)
(***************************************************************************)
RenderedIsAccepted == stage # "invalid"

-----------------------------------------------------------------------------
(* What is signed, and what has been used of it: the inductive invariant.  *)

TypeOK ==
    /\ config \in Configs /\ Loads(config)
    /\ store \in Versions
    /\ origin \in Authors \union {None}
    /\ IF origin = None THEN doc = None /\ uses = {} ELSE doc \in Document
    /\ pc \in {"written", "signed", "selected", "fits", "ended"}
    /\ pc = "written" => origin = None
    /\ pc \in {"signed", "selected", "fits"} => origin # None
    /\ uses \subseteq [path : Paths, image : Strings \union {None}]

SignedIsValid ==
    /\ origin = "published" => ValidManifest(doc)
    /\ origin = "promoted" => ValidRelease(doc)

SelectedIsValid == pc \in {"selected", "fits"} => Accepted /\ Leaf \in Present(doc)

IInv ==
    /\ TypeOK
    /\ SignedIsValid
    /\ SelectedIsValid
    /\ UsesAreSound
=============================================================================
