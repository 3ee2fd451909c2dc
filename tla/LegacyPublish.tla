---------------------------- MODULE LegacyPublish ----------------------------
(***************************************************************************)
(* The schema-v3 publisher (`nixdeploy publish`, src/publish.rs) and the   *)
(* receivers that still read its two files (src/manifest.rs,               *)
(* fetch_and_verify).  A publication is a manifest and a detached          *)
(* signature, each replaced atomically, the signature first; a receiver    *)
(* fetches them in two requests, the manifest first.  Nothing is locked.   *)
(*                                                                         *)
(* A manifest stands for its bytes.  A signature stands for the bytes it   *)
(* signs, since only the publishers' key makes one that verifies.          *)
(***************************************************************************)
EXTENDS DeploymentSets, Naturals

CONSTANTS
    Publishers,   \* processes running `nixdeploy publish` on one output
    Receivers,    \* machines that read it
    Jobs,         \* the invocations their units and operators make
    Missing,      \* a file that is not there, a local that is not set
    MaxRenders,   \* no run begins once that many have rendered a document
    MaxStops      \* how many runs stop half-way

Document == [set : DeploymentSet, builtAt : Times]

ASSUME JobsAssumption ==
    Jobs \subseteq [candidates : DeploymentSet, hosts : SUBSET Hosts,
                    planes : SUBSET Planes, wellFormed : BOOLEAN]
ASSUME MissingAssumption == Missing \notin Document
ASSUME BoundsAssumption == MaxRenders \in Nat /\ MaxStops \in Nat

VARIABLES
    manifest,    \* <out>
    signature,   \* <out>.sig
    publisher,   \* the run of each publisher
    receiver,    \* what each receiver holds
    copies,      \* history: how many runs have rendered each document
    rendered,    \* how many runs have rendered a document
    complete,    \* history: documents that were manifest and signed at once
    stops        \* how many runs have stopped half-way

files == <<manifest, signature>>
history == <<copies, rendered>>
vars == <<files, publisher, receiver, history, complete, stops>>

Steps == {"idle", "base", "baseSignature", "signature", "manifest"}

(* No run: no invocation, no base document, nothing rendered.              *)
Idle == [pc |-> "idle", job |-> Missing, builtAt |-> Missing,
         base |-> Missing, doc |-> Missing]

Init ==
    /\ manifest = Missing
    /\ signature = Missing
    /\ publisher = [p \in Publishers |-> Idle]
    /\ receiver = [r \in Receivers |-> [body |-> Missing, accepted |-> Missing]]
    /\ copies = [d \in Document |-> 0]
    /\ rendered = 0
    /\ complete = {}
    /\ stops = 0

-----------------------------------------------------------------------------
(* One run of the publisher.                                               *)

Render(set, builtAt) == [set |-> set, builtAt |-> builtAt]

(* The files verify as a pair.                                             *)
Paired(body, sig) == body # Missing /\ sig = body

Goto(p, step) == publisher' = [publisher EXCEPT ![p].pc = step]

Rendered(doc) ==
    /\ copies' = [copies EXCEPT ![doc] = @ + 1]
    /\ rendered' = rendered + 1

(* History: the documents that have been there as a pair.                  *)
Completed == complete' =
    complete \union (IF Paired(manifest', signature') THEN {manifest'} ELSE {})

(***************************************************************************)
(* The selection and every document are validated before a file is         *)
(* touched; a full publication has no base to read.  built_at is the       *)
(* invocation's (--built-at) or the clock's, in seconds, and two runs may  *)
(* have the same: identical input makes identical bytes.                   *)
(***************************************************************************)
Begin(p) ==
    /\ publisher[p].pc = "idle"
    /\ rendered < MaxRenders
    /\ \E job \in Jobs, t \in Times :
          /\ ~HasProblems(job)
          /\ IF Full(job)
             THEN LET doc == Render(job.candidates, t) IN
                  /\ publisher' = [publisher EXCEPT ![p] =
                        [Idle EXCEPT !.pc = "signature", !.job = job, !.builtAt = t,
                                     !.doc = doc]]
                  /\ Rendered(doc)
             ELSE /\ publisher' = [publisher EXCEPT ![p] =
                        [Idle EXCEPT !.pc = "base", !.job = job, !.builtAt = t]]
                  /\ UNCHANGED history
    /\ UNCHANGED <<files, receiver, complete, stops>>

ReadBase(p) ==
    /\ publisher[p].pc = "base"
    /\ manifest # Missing
    /\ publisher' = [publisher EXCEPT ![p] =
          [@ EXCEPT !.pc = "baseSignature", !.base = manifest]]
    /\ UNCHANGED <<files, receiver, history, complete, stops>>

(* The selection replaces the document: unselected leaves are gone.        *)
SelectionOnly(run) ==
    Render([l \in Leaves |-> IF l \in Selected(run.job)
                             THEN run.job.candidates[l] ELSE Absent], run.builtAt)

(* Unselected leaves come from the base, selected ones from the targets.   *)
Merged(run) == Render(Composed(run.base.set, run.job), run.builtAt)

ComposeOnBase(p) ==
    /\ publisher[p].pc = "baseSignature"
    /\ Paired(publisher[p].base, signature)
    /\ publisher' = [publisher EXCEPT ![p] =
          [@ EXCEPT !.pc = "signature", !.doc = Merged(publisher[p])]]
    /\ Rendered(Merged(publisher[p]))
    /\ UNCHANGED <<files, receiver, complete, stops>>

(* No base, or one that does not verify: the run ends and the files stay.  *)
RefuseBase(p) ==
    /\ \/ publisher[p].pc = "base" /\ manifest = Missing
       \/ publisher[p].pc = "baseSignature" /\ ~Paired(publisher[p].base, signature)
    /\ publisher' = [publisher EXCEPT ![p] = Idle]
    /\ UNCHANGED <<files, receiver, history, complete, stops>>

(* The manifest lands in the signature's place and lands again after it.   *)
WriteManifestFirst(p) ==
    /\ publisher[p].pc = "signature"
    /\ manifest' = publisher[p].doc
    /\ Goto(p, "manifest")
    /\ UNCHANGED <<signature, receiver, history, stops>>
    /\ Completed

WriteSignature(p) ==
    /\ publisher[p].pc = "signature"
    /\ signature' = publisher[p].doc
    /\ Goto(p, "manifest")
    /\ UNCHANGED <<manifest, receiver, history, stops>>
    /\ Completed

WriteManifest(p) ==
    /\ publisher[p].pc = "manifest"
    /\ manifest' = publisher[p].doc
    /\ publisher' = [publisher EXCEPT ![p] = Idle]
    /\ UNCHANGED <<signature, receiver, history, stops>>
    /\ Completed

(***************************************************************************)
(* A write that fails, a process that is killed (the unit stops a run      *)
(* after five minutes), a machine that loses power.  The bound leaves one  *)
(* run that nothing interrupts.                                            *)
(***************************************************************************)
Stop(p) ==
    /\ publisher[p].pc # "idle"
    /\ stops < MaxStops
    /\ rendered < MaxRenders
    /\ stops' = stops + 1
    /\ publisher' = [publisher EXCEPT ![p] = Idle]
    /\ UNCHANGED <<files, receiver, history, complete>>

-----------------------------------------------------------------------------
(* One run of a receiver: two requests.                                    *)

FetchManifest(r) ==
    /\ receiver[r].body = Missing
    /\ manifest # Missing
    /\ receiver' = [receiver EXCEPT ![r].body = manifest]
    /\ UNCHANGED <<files, publisher, history, complete, stops>>

(* The pair verifies, and the manifest is read once more to be used.       *)
FetchSignatureAndReread(r) ==
    /\ receiver[r].body # Missing
    /\ signature # Missing
    /\ receiver' = [receiver EXCEPT ![r] =
          [body |-> Missing,
           accepted |-> IF Paired(receiver[r].body, signature)
                        THEN manifest ELSE receiver[r].accepted]]
    /\ UNCHANGED <<files, publisher, history, complete, stops>>

(* The manifest that was read is kept until a signature fits it.           *)
FetchSignatureAndKeep(r) ==
    /\ receiver[r].body # Missing
    /\ signature # Missing
    /\ receiver' = [receiver EXCEPT ![r] =
          IF Paired(@.body, signature)
          THEN [body |-> Missing, accepted |-> @.body] ELSE @]
    /\ UNCHANGED <<files, publisher, history, complete, stops>>

(* A pair that does not verify is refused until the next tick.             *)
FetchSignature(r) ==
    /\ receiver[r].body # Missing
    /\ signature # Missing
    /\ receiver' = [receiver EXCEPT ![r] =
          [body |-> Missing,
           accepted |-> IF Paired(receiver[r].body, signature)
                        THEN receiver[r].body ELSE receiver[r].accepted]]
    /\ UNCHANGED <<files, publisher, history, complete, stops>>

(* The second request times out, or finds nothing there.                   *)
GiveUp(r) ==
    /\ receiver[r].body # Missing
    /\ receiver' = [receiver EXCEPT ![r].body = Missing]
    /\ UNCHANGED <<files, publisher, history, complete, stops>>

-----------------------------------------------------------------------------
Publishing(p) ==
    \/ Begin(p) \/ ReadBase(p) \/ ComposeOnBase(p) \/ RefuseBase(p)
    \/ WriteSignature(p) \/ WriteManifest(p)

Receiving(r) == FetchManifest(r) \/ FetchSignature(r)

Next ==
    \/ \E p \in Publishers : Publishing(p) \/ Stop(p)
    \/ \E r \in Receivers : Receiving(r) \/ GiveUp(r)

Spec == Init /\ [][Next]_vars

(***************************************************************************)
(* Both timers fire again and again, and a request that goes on being sent *)
(* is answered in the end.                                                 *)
(***************************************************************************)
Fairness ==
    /\ \A p \in Publishers : WF_vars(Publishing(p))
    /\ \A r \in Receivers : WF_vars(FetchManifest(r)) /\ SF_vars(FetchSignature(r))

FairSpec == Spec /\ Fairness

-----------------------------------------------------------------------------
Run == [pc : Steps, job : Jobs \union {Missing}, builtAt : Times \union {Missing},
        base : Document \union {Missing}, doc : Document \union {Missing}]

(* Every variable keeps its type; what is written is a whole document.     *)
TypeOK ==
    /\ manifest \in Document \union {Missing}
    /\ signature \in Document \union {Missing}
    /\ publisher \in [Publishers -> Run]
    /\ receiver \in [Receivers -> [body : Document \union {Missing},
                                   accepted : Document \union {Missing}]]
    /\ copies \in [Document -> Nat]
    /\ rendered \in Nat
    /\ complete \in SUBSET Document
    /\ stops \in 0..MaxStops

(* One run has made this document, and no other.                           *)
Once(d) == copies[d] = 1

(***************************************************************************)
(* Whatever runs overlap, stop or race: a document that only one run has   *)
(* rendered is accepted only if it once was the whole publication, manifest*)
(* and signature together.  It rests on the writers' order (publish.rs,    *)
(* signature first) and the readers' (fetch_and_verify, manifest first)    *)
(* being opposite.                                                         *)
(***************************************************************************)
NewIsAcceptedWhole ==
    \A r \in Receivers :
        receiver[r].accepted # Missing /\ Once(receiver[r].accepted)
            => receiver[r].accepted \in complete

(***************************************************************************)
(* The same without the condition.  It is what one publisher keeps; of two,*)
(* one may sign again what the other has replaced meanwhile, while a       *)
(* receiver still holds the manifest it had then.                          *)
(***************************************************************************)
AcceptedWasComplete ==
    \A r \in Receivers : receiver[r].accepted \in complete \union {Missing}

(***************************************************************************)
(* README: a partial publication is a safe read-modify-write operation.    *)
(* The manifest it replaces loses none of the leaves it did not select.    *)
(***************************************************************************)
UnselectedSurvive ==
    [][\A p \in Publishers :
          /\ publisher[p].pc = "manifest"
          /\ manifest' # manifest
          /\ manifest' = publisher[p].doc
          /\ ~Full(publisher[p].job)
          => AgreeOn(Leaves \ Selected(publisher[p].job), manifest'.set, manifest.set)]_vars

(***************************************************************************)
(* What is left of that promise when runs overlap without a lock: a write  *)
(* that finds the base it composed on still in place loses nothing, even   *)
(* when its signature was overtaken in between.                            *)
(***************************************************************************)
UnselectedSurviveOnBase ==
    [][\A p \in Publishers :
          /\ publisher[p].pc = "manifest"
          /\ manifest' # manifest
          /\ manifest' = publisher[p].doc
          /\ ~Full(publisher[p].job) /\ publisher[p].base = manifest
          => AgreeOn(Leaves \ Selected(publisher[p].job), manifest'.set, manifest.set)]_vars

(***************************************************************************)
(* publish.rs: "the moment the manifest lands the pair is already          *)
(* consistent".  With nobody between two writes, the files are a pair.     *)
(* (Said of runs that end; a run that stops half-way is another matter.)   *)
(***************************************************************************)
PairedAtRest ==
    (\A p \in Publishers : publisher[p].pc # "manifest") /\ stops = 0
        => manifest = signature

(***************************************************************************)
(* publish.rs: a receiver that meets the window refuses and retries.  The  *)
(* retries end: once the files stay a pair, whoever wrote them, every      *)
(* receiver comes to hold them.                                            *)
(***************************************************************************)
RetriesEnd ==
    <>[](manifest # Missing /\ manifest = signature)
        => <>[](\A r \in Receivers : receiver[r].accepted = manifest)

(***************************************************************************)
(* The window itself ends: as long as the publisher's timer fires, an      *)
(* interrupted publication is made whole and every receiver holds what is  *)
(* published.                                                              *)
(***************************************************************************)
WindowCloses ==
    <>[](/\ manifest = signature
         /\ \A r \in Receivers : receiver[r].accepted = manifest)

-----------------------------------------------------------------------------
(* What a publication rests on at each step: the inductive invariant.      *)

Pending(p) == publisher[p].pc \in {"signature", "manifest"}

(* The locals of a run at each of its steps.                               *)
RunsAreSet ==
    \A p \in Publishers :
        /\ publisher[p].pc # "idle" => publisher[p].job \in Jobs
                                       /\ publisher[p].builtAt \in Times
        /\ publisher[p].pc = "baseSignature" => publisher[p].base # Missing
        /\ Pending(p) => publisher[p].doc # Missing

(* What readers and writers of the manifest have before them.              *)
Seen == {manifest} \union {receiver[r].body : r \in Receivers}

(* Everything there is was rendered by some run.                           *)
Documents ==
    Seen \union {signature} \union {receiver[r].accepted : r \in Receivers}
         \union {publisher[p].doc : p \in {q \in Publishers : Pending(q)}}

AllIsRendered == \A d \in Documents \ {Missing} : copies[d] >= 1

(* A document that one run has rendered is on its way in that run only.    *)
OnceIsAlone ==
    \A p, q \in Publishers :
        /\ Pending(p) /\ Pending(q)
        /\ publisher[p].doc = publisher[q].doc /\ Once(publisher[p].doc)
        => p = q

(* Such a manifest on its way has not been seen by anyone yet.             *)
UnseenUntilWritten ==
    \A p \in Publishers :
        Pending(p) /\ Once(publisher[p].doc) => publisher[p].doc \notin Seen

UnsignedUntilSigned ==
    \A p \in Publishers :
        publisher[p].pc = "signature" /\ Once(publisher[p].doc)
            => signature # publisher[p].doc

(* What has been seen is signed by the present signature only as a whole.  *)
SignedMeansComplete ==
    \A d \in Seen \ {Missing} : signature = d /\ Once(d) => d \in complete

IInv ==
    /\ TypeOK
    /\ RunsAreSet
    /\ AllIsRendered
    /\ OnceIsAlone
    /\ UnseenUntilWritten
    /\ UnsignedUntilSigned
    /\ SignedMeansComplete
    /\ NewIsAcceptedWhole
=============================================================================
