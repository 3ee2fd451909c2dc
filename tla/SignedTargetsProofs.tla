------------------------- MODULE SignedTargetsProofs -------------------------
(***************************************************************************)
(* Proofs about SignedTargets: for every set of documents, hosts, paths,   *)
(* strings and store versions.                                             *)
(***************************************************************************)
EXTENDS SignedTargets, TLAPS

-----------------------------------------------------------------------------
(* Composition.                                                            *)

(* A leaf is there when an entry is; the entry of a document is one.       *)
LEMMA EntryIsTyped ==
    ASSUME NEW d \in Document, NEW l \in Present(d)
    PROVE  /\ l \in Leaves /\ l[1] \in HostNames /\ l[1] \in d.hosts
           /\ d.planes[l] \in PlaneEntry /\ d.planes[l] # None
<1>1. l \in Leaves /\ d.planes[l] # None
  BY DEF Present
<1>2. d.planes[l] \in PlaneEntry /\ l[1] \in d.hosts
  BY <1>1 DEF Document
<1> QED  BY <1>1, <1>2 DEF Leaves

LEMMA SelectedIsPresent ==
    ASSUME NEW d \in Document, NEW hosts, NEW planes
    PROVE  Selected(d, hosts, planes) \subseteq Present(d)
BY DEF Selected

(* What is composed is a document.                                         *)
LEMMA ComposedIsDocument ==
    ASSUME NEW base \in Document, NEW d \in Document,
           NEW selected \in SUBSET Present(d)
    PROVE  Composed(base, d, selected) \in Document
<1> DEFINE c == Composed(base, d, selected)
<1>1. c = [revision |-> d.revision, dated |-> d.dated,
           hosts |-> base.hosts \union {l[1] : l \in selected},
           planes |-> [l \in Leaves |-> IF l \in selected THEN d.planes[l]
                                        ELSE base.planes[l]]]
  BY DEF Composed
<1>2. c.planes \in [Leaves -> PlaneEntry \union {None}]
  BY <1>1 DEF Document
<1>3. c.hosts \in SUBSET HostNames
  <2>1. ASSUME NEW l \in selected PROVE l[1] \in HostNames
    BY EntryIsTyped
  <2> QED  BY <1>1, <2>1 DEF Document
<1>4. ASSUME NEW l \in Leaves, c.planes[l] # None PROVE l[1] \in c.hosts
  BY <1>1, <1>4 DEF Document
<1> QED  BY <1>1, <1>2, <1>3, <1>4 DEF Document

LEMMA FromSelectionIsDocument ==
    ASSUME NEW d \in Document, NEW selected \in SUBSET Present(d)
    PROVE  HostsFromSelection(d, selected) \in Document
<1> DEFINE c == HostsFromSelection(d, selected)
<1>1. c = [revision |-> d.revision, dated |-> d.dated,
           hosts |-> {l[1] : l \in selected},
           planes |-> [l \in Leaves |-> IF l \in selected THEN d.planes[l] ELSE None]]
  BY DEF HostsFromSelection
<1>2. c.planes \in [Leaves -> PlaneEntry \union {None}]
  BY <1>1 DEF Document
<1>3. c.hosts \in SUBSET HostNames
  <2>1. ASSUME NEW l \in selected PROVE l[1] \in HostNames
    BY EntryIsTyped
  <2> QED  BY <1>1, <2>1 DEF Document
<1>4. ASSUME NEW l \in Leaves, c.planes[l] # None PROVE l[1] \in c.hosts
  BY <1>1, <1>4
<1> QED  BY <1>1, <1>2, <1>3, <1>4 DEF Document

(***************************************************************************)
(* release.rs 541-557, publish.rs 225-243: leaves that are valid by        *)
(* themselves, put onto a valid document, make a valid document.  Nothing  *)
(* that validate asks of a document is about two of its leaves.            *)
(***************************************************************************)
THEOREM CompositionIsValid ==
    ASSUME NEW base \in Document, NEW d \in Document,
           NEW selected \in SUBSET Present(d),
           ValidHosts(base),
           \A l \in selected : Trimmed(l[1]) # Empty /\ ValidPlane(l[2], d.planes[l])
    PROVE  ValidHosts(Composed(base, d, selected))
<1> DEFINE c == Composed(base, d, selected)
<1>1. c.hosts = base.hosts \union {l[1] : l \in selected}
  BY DEF Composed
<1>2. \A l \in Leaves : c.planes[l] = IF l \in selected THEN d.planes[l] ELSE base.planes[l]
  BY DEF Composed
<1>3. Present(c) = Present(base) \union selected
  BY <1>2, EntryIsTyped DEF Present
<1>4. c.hosts # {}
  BY <1>1 DEF ValidHosts
<1>5. ASSUME NEW h \in c.hosts
      PROVE  Trimmed(h) # Empty /\ \E l \in Present(c) : l[1] = h
  BY <1>1, <1>3 DEF ValidHosts
<1>6. ASSUME NEW l \in Present(c) PROVE ValidPlane(l[2], c.planes[l])
  <2>1. CASE l \in selected
    BY <1>2, <2>1, EntryIsTyped
  <2>2. CASE l \notin selected
    BY <1>2, <1>3, <2>2 DEF ValidHosts, Present
  <2> QED  BY <2>1, <2>2
<1> QED  BY <1>4, <1>5, <1>6 DEF ValidHosts

(* What is selected of a valid document is valid.                          *)
LEMMA SelectionIsValid ==
    ASSUME NEW d \in Document, NEW selected \in SUBSET Present(d), ValidHosts(d)
    PROVE  \A l \in selected : Trimmed(l[1]) # Empty /\ ValidPlane(l[2], d.planes[l])
BY EntryIsTyped DEF ValidHosts

(* What is valid by itself is so leaf by leaf.                             *)
LEMMA FromSelectionIsValid ==
    ASSUME NEW d \in Document, NEW selected \in SUBSET Present(d),
           ValidHosts(HostsFromSelection(d, selected))
    PROVE  \A l \in selected : Trimmed(l[1]) # Empty /\ ValidPlane(l[2], d.planes[l])
<1> DEFINE c == HostsFromSelection(d, selected)
<1>1. c.hosts = {l[1] : l \in selected}
  BY DEF HostsFromSelection
<1>2. \A l \in Leaves : c.planes[l] = IF l \in selected THEN d.planes[l] ELSE None
  BY DEF HostsFromSelection
<1>3. selected \subseteq Present(c)
  BY <1>2, EntryIsTyped DEF Present
<1> QED  BY <1>1, <1>2, <1>3, EntryIsTyped DEF ValidHosts

(* promote never finds its composition invalid.                            *)
LEMMA PromotionIsValid ==
    ASSUME NEW d \in Document, NEW stable \in Document, NEW hosts, NEW planes,
           ValidRelease(d), ValidRelease(stable)
    PROVE  ValidRelease(Composed(stable, d, Selected(d, hosts, planes)))
<1> DEFINE selected == Selected(d, hosts, planes)
<1>1. selected \in SUBSET Present(d)
  BY SelectedIsPresent
<1>2. ValidHosts(Composed(stable, d, selected))
  BY <1>1, SelectionIsValid, CompositionIsValid DEF ValidRelease
<1>3. Composed(stable, d, selected).dated = d.dated
  BY DEF Composed
<1> QED  BY <1>2, <1>3 DEF ValidRelease

(* publish never finds its composition invalid.                            *)
LEMMA PublicationIsValid ==
    ASSUME NEW d \in Document, NEW base \in Document, NEW hosts, NEW planes,
           ValidManifest(HostsFromSelection(d, Selected(d, hosts, planes))),
           ValidManifest(base)
    PROVE  ValidManifest(Composed(base, d, Selected(d, hosts, planes)))
<1> DEFINE selected == Selected(d, hosts, planes)
           c == Composed(base, d, selected)
           s == HostsFromSelection(d, selected)
<1>1. selected \in SUBSET Present(d)
  BY SelectedIsPresent
<1>2. ValidHosts(c)
  BY <1>1, FromSelectionIsValid, CompositionIsValid DEF ValidManifest
<1>3. c.dated = s.dated /\ c.revision = s.revision
  BY DEF Composed, HostsFromSelection
<1> QED  BY <1>2, <1>3 DEF ValidManifest

-----------------------------------------------------------------------------
(* The Nix library.                                                        *)

(***************************************************************************)
(* manifest.rs and lib/manifest.nix: whatever the Rust side accepts, the   *)
(* Nix side would render.  (The converse fails, see RenderedIsAccepted.)   *)
(***************************************************************************)
THEOREM AcceptedIsRenderable ==
    ASSUME NEW d \in Document, ValidManifest(d)
    PROVE  NixChecks(d)
<1>1. d.revision # Empty
  BY StringsAssumption DEF ValidManifest, Trimmed
<1>2. ASSUME NEW l \in Present(d) PROVE NixChecksPlane(l[2], d.planes[l])
  <2>1. ValidPlane(l[2], d.planes[l]) /\ d.planes[l].backend \in Backends
    BY EntryIsTyped DEF ValidManifest, ValidHosts, PlaneEntry
  <2> QED  BY <2>1, StringsAssumption DEF ValidPlane, NixChecksPlane, Trimmed
<1> QED  BY <1>1, <1>2 DEF ValidManifest, ValidHosts, NixChecks
-----------------------------------------------------------------------------
(* The behaviours.                                                         *)

LEMMA InitInvariant == Init => IInv
<1> SUFFICES ASSUME Init PROVE IInv
  OBVIOUS
<1>1. TypeOK
  BY DEF Init, TypeOK
<1>2. SignedIsValid /\ SelectedIsValid /\ UsesAreSound
  BY NoneAssumption DEF Init, SignedIsValid, SelectedIsValid, UsesAreSound, Authors
<1> QED  BY <1>1, <1>2 DEF IInv

(* A document enters by being signed.                                      *)
LEMMA SignKeepsInvariant ==
    ASSUME IInv, pc = "written", NEW d \in Document,
           NEW by \in Authors, Sign(by, d),
           by = "published" => ValidManifest(d),
           by = "promoted" => ValidRelease(d)
    PROVE  IInv'
<1>1. TypeOK'
  BY NoneAssumption DEF IInv, TypeOK, Sign
<1>2. SignedIsValid'
  BY DEF SignedIsValid, Sign
<1>3. SelectedIsValid'
  BY DEF SelectedIsValid, Sign
<1>4. UsesAreSound'
  BY DEF IInv, TypeOK, UsesAreSound, Sign
<1> QED  BY <1>1, <1>2, <1>3, <1>4 DEF IInv

LEMMA RefuseKeepsInvariant ==
    ASSUME IInv, NEW reason, Refuse(reason)
    PROVE  IInv'
<1>1. TypeOK'
  BY DEF IInv, TypeOK, Refuse
<1>2. SignedIsValid' /\ SelectedIsValid'
  BY DEF IInv, SignedIsValid, SelectedIsValid, Refuse
<1>3. UsesAreSound'
  BY DEF IInv, UsesAreSound, Refuse
<1> QED  BY <1>1, <1>2, <1>3 DEF IInv

(* The target in hand is one of a valid document.                          *)
LEMMA TargetIsValid ==
    ASSUME IInv, pc \in {"selected", "fits"}
    PROVE  /\ doc \in Document
           /\ Leaf \in Present(doc) /\ Target \in PlaneEntry
           /\ ValidPlane(config.plane, Target)
<1>1. doc \in Document /\ Accepted /\ Leaf \in Present(doc)
  BY DEF IInv, TypeOK, SelectedIsValid
<1>2. ValidHosts(doc)
  BY <1>1 DEF Accepted, ValidRelease, ValidManifest
<1>3. Leaf[2] = config.plane
  BY DEF Leaf
<1> QED  BY <1>1, <1>2, <1>3, EntryIsTyped DEF ValidHosts, Target

(* The artifact of a role of the target in hand is sound and inventoried.  *)
LEMMA ArtifactIsSound ==
    ASSUME IInv, pc = "fits", NEW role \in Roles,
           Artifact(Target.boot, role) # None
    PROVE  LET b == Artifact(Target.boot, role) IN
           /\ b \in BootArtifact
           /\ ValidBootArtifact(b)
           /\ b.artifact \in Inventory(doc)
<1> DEFINE b == Artifact(Target.boot, role)
<1>1. Leaf \in Present(doc) /\ Target \in PlaneEntry /\ ValidRoles(Target.boot)
  BY TargetIsValid DEF ValidPlane
<1>2. Target.boot.mode = "managed" /\ b = Target.boot[role]
  BY DEF Artifact
<1>3. Target.boot \in [mode : {"managed"}, primary : BootArtifact,
                       nixrescue : BootArtifact \union {None}]
  BY <1>1, <1>2 DEF PlaneEntry, Boot
<1>4. b \in BootArtifact /\ ValidBootArtifact(b)
  <2>1. CASE role = "primary"
    BY <1>1, <1>2, <1>3, <2>1 DEF ValidRoles
  <2>2. CASE role = "nixrescue"
    BY <1>1, <1>2, <1>3, <2>2 DEF ValidRoles
  <2> QED  BY <2>1, <2>2 DEF Roles
<1>5. b \in {Artifact(doc.planes[l].boot, r) : l \in Present(doc), r \in Roles} \ {None}
  BY <1>1 DEF Target
<1> QED  BY <1>4, <1>5 DEF Inventory

LEMMA UseKeepsInvariant ==
    ASSUME IInv, pc = "fits", NEW path \in StorePaths,
           NEW image \in Strings \union {None}, image # Empty,
           path \in Inventory(doc), Use([path |-> path, image |-> image])
    PROVE  IInv'
<1>1. TypeOK'
  BY PathsAssumption DEF IInv, TypeOK, Use
<1>2. SignedIsValid' /\ SelectedIsValid'
  BY DEF IInv, SignedIsValid, SelectedIsValid, Use
<1>3. UsesAreSound'
  BY DEF IInv, UsesAreSound, Use
<1> QED  BY <1>1, <1>2, <1>3 DEF IInv

LEMMA RenderKeepsInvariant == IInv /\ Render => IInv'
<1> SUFFICES ASSUME IInv, Render PROVE IInv'
  OBVIOUS
<1>1. PICK d \in Documents :
        IF NixChecks(d) THEN Sign("rendered", d) ELSE Refuse("unrendered")
  BY DEF Render
<1>2. d \in Document /\ pc = "written" /\ "rendered" \in Authors
  BY DocumentsAssumption DEF Render, Authors
<1> QED  BY <1>1, <1>2, SignKeepsInvariant, RefuseKeepsInvariant

LEMMA PublishKeepsInvariant == IInv /\ Publish => IInv'
<1> SUFFICES ASSUME IInv, Publish PROVE IInv'
  OBVIOUS
<1>1. PICK d \in Documents, base \in Documents,
           hosts \in SUBSET HostNames, planes \in SUBSET PlaneNames :
        LET selected == Selected(d, hosts, planes)
            made == IF hosts = {} /\ planes = {} THEN HostsFromSelection(d, selected)
                    ELSE Composed(base, d, selected)
        IN  \/ \E reason : Refuse(reason)
            \/ ValidManifest(made) /\ Sign("published", made)
  BY DEF Publish
<1> DEFINE selected == Selected(d, hosts, planes)
           made == IF hosts = {} /\ planes = {} THEN HostsFromSelection(d, selected)
                   ELSE Composed(base, d, selected)
<1>2. made \in Document
  BY DocumentsAssumption, SelectedIsPresent, ComposedIsDocument, FromSelectionIsDocument
<1>3. pc = "written" /\ "published" \in Authors
  BY DEF Publish, Authors
<1>4. CASE \E reason : Refuse(reason)
  BY <1>4, RefuseKeepsInvariant
<1>5. CASE ValidManifest(made) /\ Sign("published", made)
  BY <1>2, <1>3, <1>5, SignKeepsInvariant
<1> QED  BY <1>1, <1>4, <1>5

LEMMA PromoteKeepsInvariant == IInv /\ Promote => IInv'
<1> SUFFICES ASSUME IInv, Promote PROVE IInv'
  OBVIOUS
<1>1. PICK d \in Documents, stable \in Documents,
           hosts \in SUBSET HostNames, planes \in SUBSET PlaneNames :
        LET made == IF hosts = {} /\ planes = {} THEN d
                    ELSE Composed(stable, d, Selected(d, hosts, planes))
        IN  \/ \E reason : Refuse(reason)
            \/ ValidRelease(made) /\ Sign("promoted", made)
  BY DEF Promote
<1> DEFINE made == IF hosts = {} /\ planes = {} THEN d
                   ELSE Composed(stable, d, Selected(d, hosts, planes))
<1>2. made \in Document
  BY DocumentsAssumption, SelectedIsPresent, ComposedIsDocument
<1>3. pc = "written" /\ "promoted" \in Authors
  BY DEF Promote, Authors
<1>4. CASE \E reason : Refuse(reason)
  BY <1>4, RefuseKeepsInvariant
<1>5. CASE ValidRelease(made) /\ Sign("promoted", made)
  BY <1>2, <1>3, <1>5, SignKeepsInvariant
<1> QED  BY <1>1, <1>4, <1>5

(* Moving on to "selected" or "fits" with what it takes.                   *)
LEMMA SelectKeepsInvariant == IInv /\ Select => IInv'
<1> SUFFICES ASSUME IInv, Select PROVE IInv'
  OBVIOUS
<1>1. CASE \E reason : Refuse(reason)
  BY <1>1, RefuseKeepsInvariant
<1>2. CASE /\ Accepted /\ Leaf \in Present(doc) /\ pc = "signed"
           /\ pc' = "selected" /\ UNCHANGED <<config, store, origin, doc, stage, uses>>
  <2>1. TypeOK'
    BY <1>2 DEF IInv, TypeOK
  <2>2. SignedIsValid' /\ SelectedIsValid'
    BY <1>2 DEF IInv, SignedIsValid, SelectedIsValid, Accepted, Leaf
  <2>3. UsesAreSound'
    BY <1>2 DEF IInv, UsesAreSound
  <2> QED  BY <2>1, <2>2, <2>3 DEF IInv
<1> QED  BY <1>1, <1>2 DEF Select

LEMMA FitKeepsInvariant == IInv /\ Fit => IInv'
<1> SUFFICES ASSUME IInv, Fit PROVE IInv'
  OBVIOUS
<1>1. CASE \E reason : Refuse(reason)
  BY <1>1, RefuseKeepsInvariant
<1>2. CASE /\ pc = "selected" /\ pc' = "fits"
           /\ UNCHANGED <<config, store, origin, doc, stage, uses>>
  <2>1. TypeOK'
    BY <1>2 DEF IInv, TypeOK
  <2>2. SignedIsValid' /\ SelectedIsValid'
    BY <1>2 DEF IInv, SignedIsValid, SelectedIsValid, Accepted, Leaf
  <2>3. UsesAreSound'
    BY <1>2 DEF IInv, UsesAreSound
  <2> QED  BY <2>1, <2>2, <2>3 DEF IInv
<1> QED  BY <1>1, <1>2 DEF Fit

LEMMA ActivateKeepsInvariant == IInv /\ Activate => IInv'
<1> SUFFICES ASSUME IInv, Activate PROVE IInv'
  OBVIOUS
<1>1. Target.target \in StorePaths /\ Leaf \in Present(doc) /\ pc = "fits"
  BY TargetIsValid DEF Activate, ValidPlane
<1>2. Target.target \in Inventory(doc)
  BY <1>1 DEF Inventory, Target
<1>3. None # Empty
  BY StringsAssumption
<1> QED  BY <1>1, <1>2, <1>3, UseKeepsInvariant DEF Activate

LEMMA ReconcileKeepsInvariant == IInv /\ Reconcile => IInv'
<1> SUFFICES ASSUME IInv, Reconcile PROVE IInv'
  OBVIOUS
<1> DEFINE b == Artifact(Target.boot, config.reconcile)
<1>1. CASE \E reason : Refuse(reason)
  BY <1>1, RefuseKeepsInvariant
<1>2. CASE b # None /\ Use([path |-> b.artifact, image |-> None])
  <2>1. config.reconcile \in Roles /\ pc = "fits"
    BY DocumentsAssumption DEF Reconcile, IInv, TypeOK, Config
  <2>2. b.artifact \in StorePaths /\ b.artifact \in Inventory(doc)
    BY <1>2, <2>1, ArtifactIsSound DEF ValidBootArtifact
  <2>3. None # Empty
    BY StringsAssumption
  <2> QED  BY <1>2, <2>1, <2>2, <2>3, UseKeepsInvariant
<1> QED  BY <1>1, <1>2 DEF Reconcile

LEMMA ReimageKeepsInvariant == IInv /\ Reimage => IInv'
<1> SUFFICES ASSUME IInv, Reimage PROVE IInv'
  OBVIOUS
<1> DEFINE b == Artifact(Target.boot, config.reimage)
<1>1. CASE \E reason : Refuse(reason)
  BY <1>1, RefuseKeepsInvariant
<1>2. CASE b # None /\ Use([path |-> b.artifact, image |-> b.image])
  <2>1. config.reimage \in Roles /\ pc = "fits"
    BY DocumentsAssumption DEF Reimage, IInv, TypeOK, Config
  <2>2. /\ b.artifact \in StorePaths /\ b.artifact \in Inventory(doc)
        /\ b.image # Empty /\ b.image \in Strings \union {None}
    BY <1>2, <2>1, ArtifactIsSound DEF ValidBootArtifact, BootArtifact
  <2> QED  BY <1>2, <2>1, <2>2, UseKeepsInvariant
<1> QED  BY <1>1, <1>2 DEF Reimage

LEMMA TickKeepsInvariant == IInv /\ Tick => IInv'
<1> SUFFICES ASSUME IInv, Tick PROVE IInv'
  OBVIOUS
<1>1. TypeOK'
  BY DEF IInv, TypeOK, Tick
<1>2. SignedIsValid' /\ SelectedIsValid'
  BY DEF IInv, SignedIsValid, SelectedIsValid, Tick
<1>3. UsesAreSound'
  BY DEF IInv, UsesAreSound, Tick
<1> QED  BY <1>1, <1>2, <1>3 DEF IInv

LEMMA UpgradeKeepsInvariant == IInv /\ UpgradeStore => IInv'
<1> SUFFICES ASSUME IInv, UpgradeStore PROVE IInv'
  OBVIOUS
<1>1. TypeOK'
  BY DEF IInv, TypeOK, UpgradeStore
<1>2. SignedIsValid' /\ SelectedIsValid'
  BY DEF IInv, SignedIsValid, SelectedIsValid, UpgradeStore
<1>3. UsesAreSound'
  BY DEF IInv, UsesAreSound, UpgradeStore
<1> QED  BY <1>1, <1>2, <1>3 DEF IInv

LEMMA NextKeepsInvariant == IInv /\ [Next]_vars => IInv'
<1> SUFFICES ASSUME IInv, [Next]_vars PROVE IInv'
  OBVIOUS
<1>1. CASE Render
  BY <1>1, RenderKeepsInvariant
<1>2. CASE Publish
  BY <1>2, PublishKeepsInvariant
<1>3. CASE Promote
  BY <1>3, PromoteKeepsInvariant
<1>4. CASE Select
  BY <1>4, SelectKeepsInvariant
<1>5. CASE Fit
  BY <1>5, FitKeepsInvariant
<1>6. CASE Activate
  BY <1>6, ActivateKeepsInvariant
<1>7. CASE Reconcile
  BY <1>7, ReconcileKeepsInvariant
<1>8. CASE Reimage
  BY <1>8, ReimageKeepsInvariant
<1>9. CASE Tick
  BY <1>9, TickKeepsInvariant
<1>10. CASE UpgradeStore
  BY <1>10, UpgradeKeepsInvariant
<1>11. CASE FactsFail
  BY <1>11, RefuseKeepsInvariant DEF FactsFail
<1>12. CASE UNCHANGED vars
  BY <1>12 DEF vars, IInv, TypeOK, SignedIsValid, SelectedIsValid, UsesAreSound,
               Accepted, Leaf
<1> QED  BY <1>1, <1>2, <1>3, <1>4, <1>5, <1>6, <1>7, <1>8, <1>9, <1>10, <1>11, <1>12
         DEF Next

(***************************************************************************)
(* What is signed is valid, what is selected is one of its targets, and    *)
(* what is used of it is sound.                                            *)
(***************************************************************************)
THEOREM TargetsInvariant == Spec => []IInv
BY InitInvariant, NextKeepsInvariant, PTL DEF Spec

(***************************************************************************)
(* verify_release.rs: what machines are told to activate, reconcile or     *)
(* reimage with is part of the inventory that release verification reads.  *)
(***************************************************************************)
THEOREM UsesAlwaysSound == Spec => []UsesAreSound
<1>1. IInv => UsesAreSound
  BY DEF IInv
<1> QED  BY <1>1, TargetsInvariant, PTL

(***************************************************************************)
(* release.rs and publish.rs: the validation of what was composed never    *)
(* fails, for any documents and any selection.                             *)
(***************************************************************************)
THEOREM CompositionNeverRefused == Spec => []CompositionIsNeverRefused
<1>1. Init => CompositionIsNeverRefused
  BY NoneAssumption DEF Init, CompositionIsNeverRefused
<1>2. IInv /\ CompositionIsNeverRefused /\ [Next]_vars => CompositionIsNeverRefused'
  <2> SUFFICES ASSUME CompositionIsNeverRefused, [Next]_vars
               PROVE  CompositionIsNeverRefused'
    OBVIOUS
  <2>1. ASSUME Refuse("composed"), Publish PROVE FALSE
    <3>1. PICK d \in Documents, base \in Documents,
               hosts \in SUBSET HostNames, planes \in SUBSET PlaneNames :
            LET selected == Selected(d, hosts, planes)
                full == hosts = {} /\ planes = {}
                made == IF full THEN HostsFromSelection(d, selected)
                                ELSE Composed(base, d, selected)
            IN  /\ ValidManifest(HostsFromSelection(d, selected))
                /\ ~full => ValidManifest(base)
                /\ ~ValidManifest(made)
      BY <2>1 DEF Publish, Refuse, Sign
    <3> QED  BY <3>1, DocumentsAssumption, PublicationIsValid
  <2>2. ASSUME Refuse("composed"), Promote PROVE FALSE
    <3>1. PICK d \in Documents, stable \in Documents,
               hosts \in SUBSET HostNames, planes \in SUBSET PlaneNames :
            LET made == IF hosts = {} /\ planes = {} THEN d
                        ELSE Composed(stable, d, Selected(d, hosts, planes))
            IN  ValidRelease(d) /\ ValidRelease(stable) /\ ~ValidRelease(made)
      BY <2>2 DEF Promote, Refuse, Sign
    <3> QED  BY <3>1, DocumentsAssumption, PromotionIsValid
  <2>3. CASE Publish
    <3>1. Refuse("rejected") \/ \E d : Sign("published", d)
      BY <2>1, <2>3 DEF Publish
    <3> QED  BY <3>1 DEF CompositionIsNeverRefused, Refuse, Sign
  <2>4. CASE Promote
    <3>1. Refuse("rejected") \/ \E d : Sign("promoted", d)
      BY <2>2, <2>4 DEF Promote
    <3> QED  BY <3>1 DEF CompositionIsNeverRefused, Refuse, Sign
  <2>5. CASE ~Publish /\ ~Promote
    BY <2>5, NoneAssumption
       DEF CompositionIsNeverRefused, Next, vars, Render, Select, Fit,
           FactsFail, Activate, Reconcile, Reimage, Tick, UpgradeStore, Use, Sign, Refuse
  <2> QED  BY <2>3, <2>4, <2>5
<1> QED  BY <1>1, <1>2, TargetsInvariant, PTL DEF Spec

(***************************************************************************)
(* receive.rs 632-640: with the names of planes checked at both ends, the  *)
(* backend of a selected target is the receiver's own.                     *)
(***************************************************************************)
THEOREM BackendsAlwaysFit == Spec => []BackendAlwaysFits
<1>1. Init => BackendAlwaysFits
  BY NoneAssumption DEF Init, BackendAlwaysFits
<1>2. IInv /\ BackendAlwaysFits /\ [Next]_vars => BackendAlwaysFits'
  <2> SUFFICES ASSUME IInv, BackendAlwaysFits, [Next]_vars PROVE BackendAlwaysFits'
    OBVIOUS
  <2>1. ASSUME Fit PROVE Target.backend = config.backend
    <3>1. config.plane = config.backend
      BY DEF IInv, TypeOK, Loads
    <3>2. config.plane = Target.backend
      BY <2>1, TargetIsValid DEF Fit, ValidPlane
    <3> QED  BY <3>1, <3>2
  <2> QED
    BY <2>1, NoneAssumption
       DEF BackendAlwaysFits, Next, vars, Render, Publish, Promote, Select, Fit,
           FactsFail, Activate, Reconcile, Reimage, Tick, UpgradeStore, Use, Sign, Refuse
<1> QED  BY <1>1, <1>2, TargetsInvariant, PTL DEF Spec

-----------------------------------------------------------------------------
(* Versions.                                                               *)

LEMMA ComponentIsNumber ==
    ASSUME NEW v \in Seq(Nat), NEW i \in Nat \ {0}
    PROVE  Component(v, i) \in Nat
BY DEF Component

(* What is not less than a requirement is not when a component rises.      *)
LEMMA RisenIsNotLess ==
    ASSUME NEW old \in Seq(Nat), NEW new \in Seq(Nat), NEW required \in Seq(Nat),
           NEW i \in 1..Len(new),
           new[i] > Component(old, i),
           \A j \in 1..(i - 1) : new[j] = Component(old, j),
           VersionLess(new, required)
    PROVE  VersionLess(old, required)
<1>1. PICK k \in 1..Len(required) :
        /\ Component(new, k) < required[k]
        /\ \A j \in 1..(k - 1) : Component(new, j) = required[j]
  BY DEF VersionLess
<1>2. \A j \in 1..i : Component(new, j) = new[j]
  BY DEF Component
<1>3. required[k] \in Nat /\ new[i] \in Nat /\ Component(old, i) \in Nat
  <2>1. i \in Nat \ {0} /\ k \in Nat \ {0}
    OBVIOUS
  <2>2. required[k] \in Nat
    OBVIOUS
  <2>3. new[i] \in Nat
    OBVIOUS
  <2>4. Component(old, i) \in Nat
    BY <2>1, ComponentIsNumber
  <2> QED  BY <2>2, <2>3, <2>4
<1>4. CASE k < i
  <2>1. ASSUME NEW j \in 1..k PROVE Component(old, j) = Component(new, j)
    <3>1. j \in 1..(i - 1) /\ j \in 1..i
      BY <1>4
    <3>2. new[j] = Component(old, j)
      BY <3>1
    <3>3. Component(new, j) = new[j]
      BY <1>2, <3>1
    <3> QED  BY <3>2, <3>3
  <2>2. k \in 1..k
    OBVIOUS
  <2>3. Component(old, k) < required[k]
    BY <1>1, <2>1, <2>2
  <2>4. \A j \in 1..(k - 1) : Component(old, j) = required[j]
    <3>1. ASSUME NEW j \in 1..(k - 1) PROVE Component(old, j) = required[j]
      <4>1. j \in 1..k
        OBVIOUS
      <4> QED  BY <1>1, <2>1, <4>1
    <3> QED  BY <3>1
  <2> QED  BY <2>3, <2>4 DEF VersionLess
<1>5. CASE i <= k
  <2>1. i \in 1..Len(required)
    BY <1>1, <1>5
  <2>2. \A j \in 1..(i - 1) : Component(old, j) = required[j]
    <3>1. ASSUME NEW j \in 1..(i - 1) PROVE Component(old, j) = required[j]
      <4>1. j \in 1..(k - 1) /\ j \in 1..i
        BY <1>5
      <4>2. Component(new, j) = required[j] /\ Component(new, j) = new[j]
        BY <1>1, <1>2, <4>1
      <4> QED  BY <4>2
    <3> QED  BY <3>1
  <2>3. Component(old, i) < required[i]
    <3>1. Component(new, i) = new[i]
      BY <1>2
    <3>2. CASE i = k
      BY <1>1, <1>3, <3>1, <3>2
    <3>3. CASE i < k
      <4>1. i \in 1..(k - 1)
        BY <3>3
      <4>2. required[i] = new[i]
        BY <1>1, <3>1, <4>1
      <4> QED  BY <4>2
    <3> QED  BY <1>5, <3>2, <3>3
  <2> QED  BY <2>1, <2>2, <2>3 DEF VersionLess
<1> QED  BY <1>1, <1>4, <1>5

(***************************************************************************)
(* release.rs 126-150 and 1196-1210: a machine that may run a release may  *)
(* run it after its store is upgraded, whatever the versions' lengths.     *)
(***************************************************************************)
THEOREM UpgradeKeepsFit == Spec => FitSurvivesUpgrade
<1> DEFINE Kept == pc = "signed" /\ Accepted /\ Leaf \in Present(doc) /\ Runs(store)
                   /\ store' # store => Runs(store')
<1>1. IInv /\ [Next]_vars => [Kept]_vars
  <2> SUFFICES ASSUME IInv, Next, pc = "signed", Leaf \in Present(doc),
                      Runs(store), store' # store, ~Runs(store')
               PROVE  FALSE
    BY DEF vars
  <2>1. UpgradeStore
    BY DEF Next, Render, Publish, Promote, Select, Fit, FactsFail, Activate,
           Reconcile, Reimage, Tick, Use, Sign, Refuse
  <2>2. origin = "promoted" /\ VersionLess(store', Target.minimum)
        /\ ~VersionLess(store, Target.minimum)
    BY <2>1 DEF Runs, UpgradeStore, Target, Leaf
  <2>3. Target \in PlaneEntry
    <3>1. doc \in Document
      BY <2>2, NoneAssumption DEF IInv, TypeOK, Authors
    <3> QED  BY <3>1, EntryIsTyped DEF Target
  <2>4. Target.minimum \in Seq(Nat) /\ store \in Seq(Nat) /\ store' \in Seq(Nat)
    BY <2>1, <2>3, VersionsAssumption DEF PlaneEntry, IInv, TypeOK, UpgradeStore
  <2>5. PICK i \in 1..Len(store') :
          /\ store'[i] > Component(store, i)
          /\ \A j \in 1..(i - 1) : store'[j] = Component(store, j)
    BY <2>1 DEF UpgradeStore
  <2> QED  BY <2>2, <2>4, <2>5, RisenIsNotLess
<1> QED  BY <1>1, TargetsInvariant, PTL DEF Spec, FitSurvivesUpgrade
=============================================================================
