------------------------ MODULE LegacyPublishProofs ------------------------
(***************************************************************************)
(* What the order of the two writes and of the two requests is worth, for  *)
(* every fleet, any number of publishers and receivers and every clock.    *)
(***************************************************************************)
EXTENDS LegacyPublish, TLAPS

LEMMA RenderType ==
    ASSUME NEW set \in DeploymentSet, NEW t \in Times
    PROVE  Render(set, t) \in Document
BY DEF Render, Document

LEMMA MergedType ==
    ASSUME TypeOK, RunsAreSet, NEW p \in Publishers, publisher[p].pc = "baseSignature"
    PROVE  Merged(publisher[p]) \in Document
<1>1. /\ publisher[p].base \in Document
      /\ publisher[p].job \in Jobs
      /\ publisher[p].builtAt \in Times
  BY DEF TypeOK, RunsAreSet, Run
<1>2. /\ publisher[p].base.set \in DeploymentSet
      /\ publisher[p].job.candidates \in DeploymentSet
  BY <1>1, JobsAssumption DEF Document
<1>3. Composed(publisher[p].base.set, publisher[p].job) \in DeploymentSet
  BY <1>2 DEF Composed, DeploymentSet
<1> QED
  BY <1>1, <1>3, RenderType DEF Merged

(* What there is, is a document.                                           *)
LEMMA DocumentsType ==
    ASSUME TypeOK
    PROVE  Documents \subseteq Document \union {Missing}
BY DEF TypeOK, Documents, Seen, Run

(***************************************************************************)
(* A run that renders a document of its own: one that anybody knows of is  *)
(* no longer the only one, any other is known to nobody else.              *)
(***************************************************************************)
LEMMA RenderingStep ==
    ASSUME IInv, NEW p \in Publishers, ~Pending(p),
           NEW run \in Run, run.pc = "signature", run.job \in Jobs, run.builtAt \in Times,
           run.doc \in Document, Rendered(run.doc),
           publisher' = [publisher EXCEPT ![p] = run],
           UNCHANGED <<files, receiver, complete, stops>>
    PROVE  IInv'
<1> DEFINE doc == run.doc
<1>1. UNCHANGED <<manifest, signature, receiver, complete, stops>>
  BY DEF files
<1>2. /\ publisher'[p] = run
      /\ \A q \in Publishers \ {p} : publisher'[q] = publisher[q]
  BY DEF IInv, TypeOK
<1>3. /\ copies' \in [Document -> Nat]
      /\ copies'[doc] = copies[doc] + 1
      /\ \A d \in Document \ {doc} : copies'[d] = copies[d]
  BY DEF Rendered, IInv, TypeOK
<1>4. doc # Missing
  BY MissingAssumption
<1>5. TypeOK'
  BY <1>1, <1>3 DEF IInv, TypeOK, Rendered
<1>6. RunsAreSet'
  BY <1>2, <1>4 DEF IInv, RunsAreSet, Pending
<1>7. Documents' \subseteq Documents \union {doc}
  BY <1>1, <1>2 DEF Documents, Seen, Pending
<1>8. Documents \subseteq Document \union {Missing}
  BY DocumentsType DEF IInv
<1>9. \A d \in Documents \ {Missing} : copies[d] \in Nat /\ copies[d] >= 1
  BY <1>8 DEF IInv, AllIsRendered, TypeOK
<1>10. copies[doc] \in Nat
  BY DEF IInv, TypeOK
<1>11. AllIsRendered'
  BY <1>3, <1>7, <1>8, <1>9, <1>10 DEF AllIsRendered
<1>12. Once(doc)' => doc \notin Documents
  BY <1>3, <1>4, <1>9, <1>10 DEF Once
<1>13. \A d \in Documents \ {Missing} : Once(d)' => d # doc /\ Once(d)
  BY <1>3, <1>8, <1>12 DEF Once
<1> HIDE DEF doc
<1>14. \A q \in Publishers \ {p} : Pending(q)' => publisher[q].doc \in Documents \ {Missing}
  BY <1>2 DEF Documents, Pending, IInv, RunsAreSet
<1>15. OnceIsAlone'
  BY <1>2, <1>12, <1>13, <1>14 DEF IInv, OnceIsAlone, Pending, doc
<1>16. UnseenUntilWritten'
  <2>1. Seen' = Seen /\ Seen \subseteq Documents
    BY <1>1 DEF Seen, Documents
  <2> QED
    BY <2>1, <1>2, <1>12, <1>13, <1>14 DEF IInv, UnseenUntilWritten, Pending, doc
<1>17. UnsignedUntilSigned'
  <2>1. signature' = signature /\ signature \in Documents
    BY <1>1 DEF Documents
  <2> QED
    BY <2>1, <1>2, <1>12, <1>13, <1>14 DEF IInv, UnsignedUntilSigned, Pending, doc
<1>18. SignedMeansComplete'
  BY <1>1, <1>13 DEF IInv, SignedMeansComplete, Seen, Documents
<1>19. NewIsAcceptedWhole'
  BY <1>1, <1>13 DEF IInv, NewIsAcceptedWhole, Documents
<1> QED
  BY <1>5, <1>6, <1>11, <1>15, <1>16, <1>17, <1>18, <1>19 DEF IInv

(***************************************************************************)
(* A run that renders nothing, writes nothing and has nothing to write.    *)
(***************************************************************************)
LEMMA QuietStep ==
    ASSUME IInv, NEW p \in Publishers, NEW run \in Run,
           run.pc \in {"idle", "base", "baseSignature"},
           run.pc # "idle" => run.job \in Jobs /\ run.builtAt \in Times,
           run.pc = "baseSignature" => run.base # Missing,
           publisher' = [publisher EXCEPT ![p] = run],
           stops' \in 0..MaxStops,
           UNCHANGED <<files, receiver, history, complete>>
    PROVE  IInv'
<1>1. UNCHANGED <<manifest, signature, receiver, copies, rendered, complete>>
  BY DEF files, history
<1>2. /\ publisher'[p] = run
      /\ \A q \in Publishers \ {p} : publisher'[q] = publisher[q]
  BY DEF IInv, TypeOK
<1>3. TypeOK'
  BY <1>1 DEF IInv, TypeOK
<1>4. RunsAreSet'
  BY <1>2 DEF IInv, RunsAreSet, Pending
<1>5. Documents' \subseteq Documents /\ Seen' = Seen
  BY <1>1, <1>2 DEF Documents, Seen, Pending
<1>6. AllIsRendered'
  BY <1>1, <1>5 DEF IInv, AllIsRendered
<1>7. OnceIsAlone' /\ UnseenUntilWritten' /\ UnsignedUntilSigned'
  BY <1>1, <1>2, <1>5
     DEF IInv, OnceIsAlone, UnseenUntilWritten, UnsignedUntilSigned, Pending, Once
<1>8. SignedMeansComplete' /\ NewIsAcceptedWhole'
  BY <1>1, <1>5 DEF IInv, SignedMeansComplete, NewIsAcceptedWhole, Once
<1> QED
  BY <1>3, <1>4, <1>6, <1>7, <1>8 DEF IInv

LEMMA BeginStep ==
    ASSUME IInv, NEW p \in Publishers, Begin(p)
    PROVE  IInv'
<1>1. PICK job \in Jobs, t \in Times :
        IF Full(job)
        THEN LET doc == Render(job.candidates, t) IN
             /\ publisher' = [publisher EXCEPT ![p] =
                   [Idle EXCEPT !.pc = "signature", !.job = job, !.builtAt = t,
                                !.doc = doc]]
             /\ Rendered(doc)
        ELSE /\ publisher' = [publisher EXCEPT ![p] =
                   [Idle EXCEPT !.pc = "base", !.job = job, !.builtAt = t]]
             /\ UNCHANGED history
  BY DEF Begin
<1>2. UNCHANGED <<files, receiver, complete, stops>> /\ ~Pending(p)
  BY DEF Begin, Pending
<1>3. CASE Full(job)
  <2> DEFINE doc == Render(job.candidates, t)
             run == [Idle EXCEPT !.pc = "signature", !.job = job, !.builtAt = t, !.doc = doc]
  <2>1. doc \in Document
    BY RenderType, JobsAssumption
  <2> HIDE DEF doc
  <2>2. /\ run \in Run
        /\ run.pc = "signature" /\ run.job = job /\ run.builtAt = t /\ run.doc = doc
    BY <2>1 DEF Run, Idle, Steps
  <2>3. publisher' = [publisher EXCEPT ![p] = run] /\ Rendered(run.doc)
    BY <1>1, <1>3, <2>2 DEF doc
  <2> HIDE DEF run
  <2> QED
    BY <1>2, <2>1, <2>2, <2>3, RenderingStep
<1>4. CASE ~Full(job)
  <2> DEFINE run == [Idle EXCEPT !.pc = "base", !.job = job, !.builtAt = t]
  <2>1. run \in Run /\ run.pc = "base" /\ run.job = job /\ run.builtAt = t
    BY DEF Run, Idle, Steps
  <2>2. publisher' = [publisher EXCEPT ![p] = run] /\ UNCHANGED history
    BY <1>1, <1>4
  <2>3. stops' \in 0..MaxStops
    BY <1>2 DEF IInv, TypeOK
  <2> HIDE DEF run
  <2> QED
    BY <1>2, <2>1, <2>2, <2>3, QuietStep
<1> QED
  BY <1>3, <1>4

LEMMA ReadBaseStep ==
    ASSUME IInv, NEW p \in Publishers, ReadBase(p)
    PROVE  IInv'
<1> DEFINE run == [publisher[p] EXCEPT !.pc = "baseSignature", !.base = manifest]
<1>1. /\ run \in Run
      /\ run.pc = "baseSignature" /\ run.base # Missing
      /\ run.job \in Jobs /\ run.builtAt \in Times
  BY DEF ReadBase, IInv, TypeOK, RunsAreSet, Run, Steps
<1>2. /\ publisher' = [publisher EXCEPT ![p] = run]
      /\ UNCHANGED <<files, receiver, history, complete>> /\ stops' \in 0..MaxStops
  BY DEF ReadBase, IInv, TypeOK
<1> HIDE DEF run
<1> QED
  BY <1>1, <1>2, QuietStep

LEMMA ComposeOnBaseStep ==
    ASSUME IInv, NEW p \in Publishers, ComposeOnBase(p)
    PROVE  IInv'
<1> DEFINE merged == Merged(publisher[p])
           run == [publisher[p] EXCEPT !.pc = "signature", !.doc = merged]
<1>1. publisher[p].pc = "baseSignature" /\ ~Pending(p)
  BY DEF ComposeOnBase, Pending
<1>2. merged \in Document
  BY <1>1, MergedType DEF IInv
<1>3. publisher' = [publisher EXCEPT ![p] = run] /\ Rendered(merged)
  BY DEF ComposeOnBase, IInv, TypeOK
<1> HIDE DEF merged
<1>4. /\ run \in Run
      /\ run.pc = "signature" /\ run.doc = merged
      /\ run.job \in Jobs /\ run.builtAt \in Times
  BY <1>1, <1>2 DEF IInv, TypeOK, RunsAreSet, Run, Steps
<1>5. UNCHANGED <<files, receiver, complete, stops>>
  BY DEF ComposeOnBase
<1> HIDE DEF run
<1> QED
  BY <1>1, <1>2, <1>3, <1>4, <1>5, RenderingStep

(* A run that ends without a write: there is no base, or it is stopped.    *)
LEMMA EndStep ==
    ASSUME IInv, NEW p \in Publishers, RefuseBase(p) \/ Stop(p)
    PROVE  IInv'
<1>1. Idle \in Run /\ Idle.pc = "idle"
  BY DEF Run, Idle, Steps
<1>2. /\ publisher' = [publisher EXCEPT ![p] = Idle]
      /\ UNCHANGED <<files, receiver, history, complete>>
  BY DEF RefuseBase, Stop
<1>3. stops' \in 0..MaxStops
  BY BoundsAssumption DEF RefuseBase, Stop, IInv, TypeOK
<1> QED
  BY <1>1, <1>2, <1>3, QuietStep

(***************************************************************************)
(* The signature lands: nobody can hold a manifest that only it signs.     *)
(***************************************************************************)
LEMMA WriteSignatureStep ==
    ASSUME IInv, NEW p \in Publishers, WriteSignature(p)
    PROVE  IInv'
<1> DEFINE doc == publisher[p].doc
<1>1. /\ UNCHANGED <<manifest, receiver, copies, rendered, stops>>
      /\ publisher[p].pc = "signature"
      /\ signature' = doc
      /\ publisher' = [publisher EXCEPT ![p].pc = "manifest"]
      /\ complete \subseteq complete'
      /\ complete' \subseteq complete \union ({manifest} \ {Missing})
  BY DEF WriteSignature, Goto, history, Completed, Paired, IInv, TypeOK
<1>2. /\ publisher'[p].pc = "manifest"
      /\ publisher'[p].doc = doc
      /\ publisher'[p].job = publisher[p].job
      /\ publisher'[p].builtAt = publisher[p].builtAt
      /\ \A q \in Publishers \ {p} : publisher'[q] = publisher[q]
  BY <1>1 DEF IInv, TypeOK, Run
<1>3. doc # Missing /\ doc \in Document /\ Pending(p) /\ doc \in Documents
  BY <1>1 DEF IInv, RunsAreSet, Pending, TypeOK, Run, Documents
<1>4. TypeOK'
  BY <1>1, <1>3 DEF IInv, TypeOK, Run, Steps
<1>5. RunsAreSet'
  BY <1>1, <1>2, <1>3 DEF IInv, RunsAreSet, Pending
<1>6. Documents' \subseteq Documents /\ Seen' = Seen
  BY <1>1, <1>2, <1>3 DEF Documents, Seen, Pending
<1>7. AllIsRendered'
  BY <1>1, <1>6 DEF IInv, AllIsRendered
<1>8. OnceIsAlone' /\ UnseenUntilWritten'
  BY <1>1, <1>2, <1>3, <1>6 DEF IInv, OnceIsAlone, UnseenUntilWritten, Pending, Once
<1>9. UnsignedUntilSigned'
  BY <1>1, <1>2, <1>3 DEF IInv, UnsignedUntilSigned, OnceIsAlone, Pending, Once
<1>10. SignedMeansComplete'
  BY <1>1, <1>3, <1>6 DEF IInv, SignedMeansComplete, UnseenUntilWritten, Once
<1>11. NewIsAcceptedWhole'
  BY <1>1 DEF IInv, NewIsAcceptedWhole, Once
<1> QED
  BY <1>4, <1>5, <1>7, <1>8, <1>9, <1>10, <1>11 DEF IInv

(***************************************************************************)
(* The manifest lands: if the signature is its own, the pair is complete.  *)
(***************************************************************************)
LEMMA WriteManifestStep ==
    ASSUME IInv, NEW p \in Publishers, WriteManifest(p)
    PROVE  IInv'
<1> DEFINE doc == publisher[p].doc
<1>1. /\ UNCHANGED <<signature, receiver, copies, rendered, stops>>
      /\ publisher[p].pc = "manifest"
      /\ manifest' = doc
      /\ publisher' = [publisher EXCEPT ![p] = Idle]
      /\ complete' = complete \union (IF Paired(doc, signature) THEN {doc} ELSE {})
  BY DEF WriteManifest, history, Completed, Paired
<1>2. doc # Missing /\ doc \in Document /\ Pending(p) /\ doc \in Documents
  BY <1>1 DEF IInv, RunsAreSet, Pending, TypeOK, Run, Documents
<1>3. TypeOK'
  BY <1>1, <1>2 DEF IInv, TypeOK, Run, Steps, Idle
<1>4. /\ publisher'[p].pc = "idle"
      /\ \A q \in Publishers \ {p} : publisher'[q] = publisher[q]
  BY <1>1 DEF IInv, TypeOK, Idle
<1>5. RunsAreSet'
  BY <1>4 DEF IInv, RunsAreSet, Pending
<1>6. Documents' \subseteq Documents /\ Seen' \subseteq Seen \union {doc}
  BY <1>1, <1>2, <1>4 DEF Documents, Seen, Pending
<1>7. AllIsRendered'
  BY <1>1, <1>6 DEF IInv, AllIsRendered
<1>8. OnceIsAlone' /\ UnsignedUntilSigned'
  BY <1>1, <1>4 DEF IInv, OnceIsAlone, UnsignedUntilSigned, Pending, Once
<1>9. UnseenUntilWritten'
  BY <1>1, <1>2, <1>4, <1>6 DEF IInv, UnseenUntilWritten, OnceIsAlone, Pending, Once
<1>10. SignedMeansComplete'
  BY <1>1, <1>2, <1>6 DEF IInv, SignedMeansComplete, Paired, Once
<1>11. NewIsAcceptedWhole'
  BY <1>1 DEF IInv, NewIsAcceptedWhole, Once
<1> QED
  BY <1>3, <1>5, <1>7, <1>8, <1>9, <1>10, <1>11 DEF IInv

(***************************************************************************)
(* A receiver's step shows nobody a document that was not there before.    *)
(***************************************************************************)
LEMMA ReceiverStep ==
    ASSUME IInv, NEW r \in Receivers,
           FetchManifest(r) \/ FetchSignature(r) \/ GiveUp(r)
    PROVE  IInv'
<1>1. UNCHANGED <<manifest, signature, publisher, copies, rendered, complete, stops>>
  BY DEF FetchManifest, FetchSignature, GiveUp, files, history
<1>2. /\ \A s \in Receivers \ {r} : receiver'[s] = receiver[s]
      /\ receiver'[r].body \in {Missing, manifest}
      /\ receiver'[r].accepted = receiver[r].accepted
           \/ (/\ receiver'[r].accepted = receiver[r].body
               /\ Paired(receiver[r].body, signature))
      /\ receiver' \in [Receivers -> [body : Document \union {Missing},
                                      accepted : Document \union {Missing}]]
  BY DEF FetchManifest, FetchSignature, GiveUp, IInv, TypeOK
<1>3. Seen' \subseteq Seen \union {Missing}
  BY <1>1, <1>2 DEF Seen
<1>4. TypeOK' /\ RunsAreSet'
  BY <1>1, <1>2 DEF IInv, TypeOK, RunsAreSet, Pending
<1>5. Documents' \subseteq Documents \union {Missing}
  BY <1>1, <1>2, <1>3 DEF Documents, Seen, Pending
<1>6. AllIsRendered'
  BY <1>1, <1>5 DEF IInv, AllIsRendered
<1>7. OnceIsAlone' /\ UnsignedUntilSigned'
  BY <1>1 DEF IInv, OnceIsAlone, UnsignedUntilSigned, Pending, Once
<1>8. UnseenUntilWritten'
  BY <1>1, <1>3 DEF IInv, UnseenUntilWritten, RunsAreSet, Pending, Once
<1>9. SignedMeansComplete'
  BY <1>1, <1>3 DEF IInv, SignedMeansComplete, Once
<1>10. NewIsAcceptedWhole'
  BY <1>1, <1>2 DEF IInv, NewIsAcceptedWhole, SignedMeansComplete, Paired, Seen, Once
<1> QED
  BY <1>4, <1>6, <1>7, <1>8, <1>9, <1>10 DEF IInv

LEMMA NextStep ==
    ASSUME IInv, [Next]_vars
    PROVE  IInv'
<1>1. ASSUME NEW p \in Publishers, Publishing(p) \/ Stop(p)
      PROVE  IInv'
  BY <1>1, BeginStep, ReadBaseStep, ComposeOnBaseStep, EndStep,
     WriteSignatureStep, WriteManifestStep DEF Publishing
<1>2. ASSUME NEW r \in Receivers, Receiving(r) \/ GiveUp(r)
      PROVE  IInv'
  BY <1>2, ReceiverStep DEF Receiving
<1>3. CASE UNCHANGED vars
  BY <1>3 DEF vars, files, history, IInv, TypeOK, RunsAreSet, Pending, AllIsRendered,
     Documents, OnceIsAlone, UnseenUntilWritten, UnsignedUntilSigned,
     SignedMeansComplete, NewIsAcceptedWhole, Seen, Once
<1> QED
  BY <1>1, <1>2, <1>3 DEF Next

LEMMA InitStep ==
    ASSUME Init
    PROVE  IInv
BY MissingAssumption, BoundsAssumption
   DEF Init, IInv, TypeOK, Run, Steps, Idle, RunsAreSet, Pending, AllIsRendered,
       Documents, OnceIsAlone, UnseenUntilWritten, UnsignedUntilSigned,
       SignedMeansComplete, NewIsAcceptedWhole, Seen, Once

(***************************************************************************)
(* The invariant holds in every reachable state, with identical input or   *)
(* without: a document that one run rendered is on its way in that run     *)
(* only, nobody has seen its manifest before it is written (publish.rs     *)
(* writes the signature first), and once seen it is signed only as a whole *)
(* publication.                                                            *)
(***************************************************************************)
THEOREM PublicationInvariant == Spec => []IInv
<1>1. Init => IInv
  BY InitStep
<1>2. IInv /\ [Next]_vars => IInv'
  BY NextStep
<1> QED
  BY <1>1, <1>2, PTL DEF Spec

(***************************************************************************)
(* Every file, run and receiver holds nothing or a whole document.         *)
(***************************************************************************)
THEOREM PublicationTypes == Spec => []TypeOK
<1>1. IInv => TypeOK
  BY DEF IInv
<1> QED
  BY <1>1, PublicationInvariant, PTL

(***************************************************************************)
(* Whatever publishers overlap, stop or race, a receiver (manifest.rs,     *)
(* fetch_and_verify) accepts a document that one run rendered only if it   *)
(* once was the whole publication.  (Of one that two runs rendered, byte   *)
(* for byte, that is not so where publishers overlap.)                     *)
(***************************************************************************)
THEOREM ReceiversAcceptWholePublications == Spec => []NewIsAcceptedWhole
<1>1. IInv => NewIsAcceptedWhole
  BY DEF IInv
<1> QED
  BY <1>1, PublicationInvariant, PTL

-----------------------------------------------------------------------------
(***************************************************************************)
(* What a partial run is about to write is the base it read, with its      *)
(* selection replaced.                                                     *)
(***************************************************************************)
ComposedOnBase ==
    \A p \in Publishers :
        Pending(p) /\ ~Full(publisher[p].job)
            => publisher[p].doc.set = Composed(publisher[p].base.set, publisher[p].job)

LEMMA BegunRun ==
    ASSUME TypeOK, NEW p \in Publishers, Begin(p)
    PROVE  /\ publisher'[p].pc = IF Full(publisher'[p].job) THEN "signature" ELSE "base"
           /\ \A q \in Publishers \ {p} : publisher'[q] = publisher[q]
           /\ manifest' = manifest
<1>1. PICK job \in Jobs, t \in Times :
        publisher' = [publisher EXCEPT ![p] =
            IF Full(job)
            THEN [Idle EXCEPT !.pc = "signature", !.job = job, !.builtAt = t,
                              !.doc = Render(job.candidates, t)]
            ELSE [Idle EXCEPT !.pc = "base", !.job = job, !.builtAt = t]]
  BY DEF Begin
<1>2. /\ publisher'[p].job = job
      /\ publisher'[p].pc = IF Full(job) THEN "signature" ELSE "base"
      /\ \A q \in Publishers \ {p} : publisher'[q] = publisher[q]
  BY <1>1 DEF TypeOK, Idle
<1> QED
  BY <1>2 DEF Begin, files

LEMMA ComposedRun ==
    ASSUME TypeOK, NEW p \in Publishers, ComposeOnBase(p)
    PROVE  /\ publisher'[p].pc = "signature"
           /\ publisher'[p].doc.set = Composed(publisher'[p].base.set, publisher'[p].job)
           /\ publisher'[p].base = publisher[p].base
           /\ \A q \in Publishers \ {p} : publisher'[q] = publisher[q]
           /\ manifest' = manifest
<1>1. /\ publisher'[p].pc = "signature"
      /\ publisher'[p].doc = Merged(publisher[p])
      /\ publisher'[p].base = publisher[p].base
      /\ publisher'[p].job = publisher[p].job
      /\ \A q \in Publishers \ {p} : publisher'[q] = publisher[q]
      /\ manifest' = manifest
  BY DEF ComposeOnBase, files, TypeOK, Run
<1>2. Merged(publisher[p]).set = Composed(publisher[p].base.set, publisher[p].job)
  BY DEF Merged, Render
<1> QED
  BY <1>1, <1>2

LEMMA SignedRun ==
    ASSUME TypeOK, NEW p \in Publishers, WriteSignature(p)
    PROVE  /\ publisher'[p].doc = publisher[p].doc
           /\ publisher'[p].base = publisher[p].base
           /\ publisher'[p].job = publisher[p].job
           /\ publisher[p].pc = "signature"
           /\ publisher'[p].pc = "manifest"
           /\ \A q \in Publishers \ {p} : publisher'[q] = publisher[q]
           /\ manifest' = manifest
BY DEF WriteSignature, Goto, TypeOK, Run

LEMMA EndedRun ==
    ASSUME TypeOK, NEW p \in Publishers, RefuseBase(p) \/ WriteManifest(p) \/ Stop(p)
    PROVE  /\ publisher'[p].pc = "idle"
           /\ \A q \in Publishers \ {p} : publisher'[q] = publisher[q]
BY DEF RefuseBase, WriteManifest, Stop, Idle, TypeOK

LEMMA ReadRun ==
    ASSUME TypeOK, NEW p \in Publishers, ReadBase(p)
    PROVE  /\ publisher'[p].pc = "baseSignature"
           /\ publisher'[p].base = manifest
           /\ \A q \in Publishers \ {p} : publisher'[q] = publisher[q]
           /\ manifest' = manifest
BY DEF ReadBase, files, TypeOK, Run

LEMMA RunsStayComposed ==
    ASSUME IInv, ComposedOnBase, [Next]_vars
    PROVE  ComposedOnBase'
<1> USE DEF ComposedOnBase, Pending
<1> TypeOK
  BY DEF IInv
<1>1. ASSUME NEW p \in Publishers, Begin(p)
      PROVE  ComposedOnBase'
  BY <1>1, BegunRun
<1>2. ASSUME NEW p \in Publishers, ReadBase(p)
      PROVE  ComposedOnBase'
  BY <1>2, ReadRun
<1>3. ASSUME NEW p \in Publishers, ComposeOnBase(p)
      PROVE  ComposedOnBase'
  BY <1>3, ComposedRun
<1>4. ASSUME NEW p \in Publishers, WriteSignature(p)
      PROVE  ComposedOnBase'
  BY <1>4, SignedRun
<1>5. ASSUME NEW p \in Publishers, RefuseBase(p) \/ WriteManifest(p) \/ Stop(p)
      PROVE  ComposedOnBase'
  BY <1>5, EndedRun
<1>6. ASSUME NEW r \in Receivers, Receiving(r) \/ GiveUp(r)
      PROVE  ComposedOnBase'
  BY <1>6 DEF Receiving, FetchManifest, FetchSignature, GiveUp
<1>7. CASE UNCHANGED vars
  BY <1>7 DEF vars
<1> QED
  BY <1>1, <1>2, <1>3, <1>4, <1>5, <1>6, <1>7 DEF Next, Publishing

LEMMA ComposedKeepsUnselected ==
    ASSUME NEW set, NEW job, ~Full(job)
    PROVE  AgreeOn(Leaves \ Selected(job), Composed(set, job), set)
BY DEF AgreeOn, Composed

LEMMA WritesKeepUnselected ==
    ASSUME ComposedOnBase, NEW p \in Publishers,
           publisher[p].pc = "manifest", manifest' = publisher[p].doc,
           ~Full(publisher[p].job), publisher[p].base = manifest
    PROVE  AgreeOn(Leaves \ Selected(publisher[p].job), manifest'.set, manifest.set)
<1>1. manifest'.set = Composed(manifest.set, publisher[p].job)
  BY DEF ComposedOnBase, Pending
<1> QED
  BY <1>1, ComposedKeepsUnselected

(***************************************************************************)
(* What is left of the README's promise when publishers overlap: a partial *)
(* write that finds its base still in place loses no unselected leaf, for  *)
(* any number of publishers, stopped runs and receivers.                   *)
(***************************************************************************)
THEOREM WritesOnTheBaseKeepUnselected == Spec => UnselectedSurviveOnBase
<1> DEFINE Kept == \A p \in Publishers :
              /\ publisher[p].pc = "manifest"
              /\ manifest' # manifest
              /\ manifest' = publisher[p].doc
              /\ ~Full(publisher[p].job) /\ publisher[p].base = manifest
              => AgreeOn(Leaves \ Selected(publisher[p].job),
                         manifest'.set, manifest.set)
<1>1. Init => IInv /\ ComposedOnBase
  BY InitStep DEF Init, ComposedOnBase, Pending, Idle
<1>2. IInv /\ ComposedOnBase /\ [Next]_vars => (IInv /\ ComposedOnBase)'
  BY NextStep, RunsStayComposed
<1>3. IInv /\ ComposedOnBase /\ [Next]_vars => [Kept]_vars
  BY WritesKeepUnselected
<1>4. UnselectedSurviveOnBase <=> [][Kept]_vars
  BY DEF UnselectedSurviveOnBase
<1> HIDE DEF Kept
<1> QED
  BY <1>1, <1>2, <1>3, <1>4, PTL DEF Spec

-----------------------------------------------------------------------------
(***************************************************************************)
(* Nobody else writes: the base a run has read is still the manifest.      *)
(***************************************************************************)
BaseIsCurrent ==
    \A p \in Publishers :
        publisher[p].pc = "baseSignature" \/ (Pending(p) /\ ~Full(publisher[p].job))
            => publisher[p].base = manifest

LEMMA BaseStaysCurrent ==
    ASSUME \A p, q \in Publishers : p = q,
           IInv, BaseIsCurrent, [Next]_vars
    PROVE  BaseIsCurrent'
<1> USE DEF BaseIsCurrent, Pending
<1> TypeOK
  BY DEF IInv
<1>1. ASSUME NEW p \in Publishers, Begin(p)
      PROVE  BaseIsCurrent'
  BY <1>1, BegunRun
<1>2. ASSUME NEW p \in Publishers, ReadBase(p)
      PROVE  BaseIsCurrent'
  BY <1>2, ReadRun
<1>3. ASSUME NEW p \in Publishers, ComposeOnBase(p)
      PROVE  BaseIsCurrent'
  BY <1>3, ComposedRun DEF ComposeOnBase
<1>4. ASSUME NEW p \in Publishers, WriteSignature(p)
      PROVE  BaseIsCurrent'
  BY <1>4, SignedRun
<1>5. ASSUME NEW p \in Publishers, RefuseBase(p) \/ WriteManifest(p) \/ Stop(p)
      PROVE  BaseIsCurrent'
  BY <1>5, EndedRun
<1>6. ASSUME NEW r \in Receivers, Receiving(r) \/ GiveUp(r)
      PROVE  BaseIsCurrent'
  BY <1>6 DEF Receiving, FetchManifest, FetchSignature, GiveUp, files
<1>7. CASE UNCHANGED vars
  BY <1>7 DEF vars, files
<1> QED
  BY <1>1, <1>2, <1>3, <1>4, <1>5, <1>6, <1>7 DEF Next, Publishing

(***************************************************************************)
(* One publisher, and the README's promise of a partial publication holds  *)
(* for it: the leaves that were not selected are those of the manifest     *)
(* that is replaced, however many runs stopped half-way before.            *)
(***************************************************************************)
THEOREM LonePublisherKeepsUnselected ==
    ASSUME \A p, q \in Publishers : p = q
    PROVE  Spec => UnselectedSurvive
<1> DEFINE Kept == \A p \in Publishers :
              /\ publisher[p].pc = "manifest"
              /\ manifest' # manifest
              /\ manifest' = publisher[p].doc
              /\ ~Full(publisher[p].job)
              => AgreeOn(Leaves \ Selected(publisher[p].job),
                         manifest'.set, manifest.set)
           I == IInv /\ ComposedOnBase /\ BaseIsCurrent
<1>1. Init => I
  BY InitStep DEF Init, ComposedOnBase, BaseIsCurrent, Pending, Idle
<1>2. I /\ [Next]_vars => I'
  BY NextStep, RunsStayComposed, BaseStaysCurrent
<1>3. I /\ [Next]_vars => [Kept]_vars
  BY WritesKeepUnselected DEF BaseIsCurrent, Pending
<1>4. UnselectedSurvive <=> [][Kept]_vars
  BY DEF UnselectedSurvive
<1> HIDE DEF Kept, I
<1> QED
  BY <1>1, <1>2, <1>3, <1>4, PTL DEF Spec

-----------------------------------------------------------------------------
(***************************************************************************)
(* No run has stopped half-way: the files differ only between the two      *)
(* writes of a run, and then the signature is that run's.                  *)
(***************************************************************************)
SignatureLeads ==
    stops = 0 =>
        /\ (\A p \in Publishers : publisher[p].pc # "manifest") => manifest = signature
        /\ \A p \in Publishers :
              publisher[p].pc = "manifest" => signature = publisher[p].doc

LEMMA SignatureStillLeads ==
    ASSUME \A p, q \in Publishers : p = q,
           TypeOK, SignatureLeads, [Next]_vars
    PROVE  SignatureLeads'
<1> USE DEF SignatureLeads
<1>1. ASSUME NEW p \in Publishers, Begin(p) \/ ReadBase(p) \/ ComposeOnBase(p) \/ RefuseBase(p)
      PROVE  SignatureLeads'
  <2>1. UNCHANGED <<manifest, signature, stops>>
    BY <1>1 DEF Begin, ReadBase, ComposeOnBase, RefuseBase, files
  <2>2. publisher[p].pc # "manifest"
    BY <1>1 DEF Begin, ReadBase, ComposeOnBase, RefuseBase
  <2>3. publisher'[p].pc # "manifest"
    BY <1>1, BegunRun, ReadRun, ComposedRun, EndedRun
  <2> QED
    BY <2>1, <2>2, <2>3
<1>2. ASSUME NEW p \in Publishers, WriteSignature(p)
      PROVE  SignatureLeads'
  BY <1>2, SignedRun DEF WriteSignature
<1>3. ASSUME NEW p \in Publishers, WriteManifest(p)
      PROVE  SignatureLeads'
  BY <1>3, EndedRun DEF WriteManifest
<1>4. ASSUME NEW p \in Publishers, Stop(p)
      PROVE  SignatureLeads'
  BY <1>4, BoundsAssumption DEF Stop, TypeOK
<1>5. ASSUME NEW r \in Receivers, Receiving(r) \/ GiveUp(r)
      PROVE  SignatureLeads'
  BY <1>5 DEF Receiving, FetchManifest, FetchSignature, GiveUp, files
<1>6. CASE UNCHANGED vars
  BY <1>6 DEF vars, files
<1> QED
  BY <1>1, <1>2, <1>3, <1>4, <1>5, <1>6 DEF Next, Publishing

(***************************************************************************)
(* publish.rs, "the moment the manifest lands the pair is already          *)
(* consistent", is true of one publisher whose runs end: whenever it is    *)
(* not between its two writes, manifest and signature are a pair.          *)
(***************************************************************************)
THEOREM LonePublisherLeavesAPair ==
    ASSUME \A p, q \in Publishers : p = q
    PROVE  Spec => []PairedAtRest
<1>1. Init => IInv /\ SignatureLeads
  BY InitStep DEF Init, SignatureLeads, Idle
<1>2. IInv /\ SignatureLeads /\ [Next]_vars => (IInv /\ SignatureLeads)'
  BY NextStep, SignatureStillLeads DEF IInv
<1>3. SignatureLeads => PairedAtRest
  BY DEF SignatureLeads, PairedAtRest
<1> QED
  BY <1>1, <1>2, <1>3, PTL DEF Spec

-----------------------------------------------------------------------------
(***************************************************************************)
(* One publisher: its signature is there until its manifest is, so every   *)
(* manifest that anybody has seen was a pair when it landed.               *)
(***************************************************************************)
SeenWasComplete ==
    /\ Seen \ {Missing} \subseteq complete
    /\ \A p \in Publishers : publisher[p].pc = "manifest" => signature = publisher[p].doc

LEMMA SeenStaysComplete ==
    ASSUME \A p, q \in Publishers : p = q,
           IInv, SeenWasComplete, AcceptedWasComplete, [Next]_vars
    PROVE  SeenWasComplete' /\ AcceptedWasComplete'
<1> USE DEF SeenWasComplete, AcceptedWasComplete
<1> TypeOK
  BY DEF IInv
<1>1. ASSUME NEW p \in Publishers,
             Begin(p) \/ ReadBase(p) \/ ComposeOnBase(p) \/ RefuseBase(p) \/ Stop(p)
      PROVE  SeenWasComplete' /\ AcceptedWasComplete'
  <2>1. UNCHANGED <<manifest, signature, receiver, complete>>
    BY <1>1 DEF Begin, ReadBase, ComposeOnBase, RefuseBase, Stop, files
  <2>2. publisher'[p].pc # "manifest"
    BY <1>1, BegunRun, ReadRun, ComposedRun, EndedRun
  <2> QED
    BY <2>1, <2>2 DEF Seen
<1>2. ASSUME NEW p \in Publishers, WriteSignature(p)
      PROVE  SeenWasComplete' /\ AcceptedWasComplete'
  <2>1. UNCHANGED <<manifest, receiver>> /\ complete \subseteq complete'
    BY <1>2 DEF WriteSignature, Completed
  <2>2. signature' = publisher'[p].doc
    BY <1>2, SignedRun DEF WriteSignature
  <2> QED
    BY <2>1, <2>2 DEF Seen
<1>3. ASSUME NEW p \in Publishers, WriteManifest(p)
      PROVE  SeenWasComplete' /\ AcceptedWasComplete'
  <2>1. /\ UNCHANGED <<signature, receiver>>
        /\ manifest' = signature
        /\ complete \subseteq complete'
        /\ manifest' # Missing => manifest' \in complete'
    BY <1>3 DEF WriteManifest, Completed, Paired
  <2>2. publisher'[p].pc # "manifest"
    BY <1>3, EndedRun
  <2> QED
    BY <2>1, <2>2 DEF Seen
<1>4. ASSUME NEW r \in Receivers, Receiving(r) \/ GiveUp(r)
      PROVE  SeenWasComplete' /\ AcceptedWasComplete'
  <2>1. UNCHANGED <<manifest, signature, publisher, complete>>
    BY <1>4 DEF Receiving, FetchManifest, FetchSignature, GiveUp, files
  <2>2. /\ \A s \in Receivers \ {r} : receiver'[s] = receiver[s]
        /\ receiver'[r].body \in {Missing, manifest}
        /\ receiver'[r].accepted \in {receiver[r].accepted, receiver[r].body}
    BY <1>4 DEF Receiving, FetchManifest, FetchSignature, GiveUp, TypeOK
  <2> QED
    BY <2>1, <2>2 DEF Seen
<1>5. CASE UNCHANGED vars
  BY <1>5 DEF vars, files, Seen
<1> QED
  BY <1>1, <1>2, <1>3, <1>4, <1>5 DEF Next, Publishing

(***************************************************************************)
(* From one publisher receivers accept whole publications only, though it  *)
(* may be stopped anywhere and sign the same bytes again (--built-at, or   *)
(* two runs in one second).                                                *)
(***************************************************************************)
THEOREM LonePublisherIsAcceptedWhole ==
    ASSUME \A p, q \in Publishers : p = q
    PROVE  Spec => []AcceptedWasComplete
<1>1. Init => IInv /\ SeenWasComplete /\ AcceptedWasComplete
  BY InitStep DEF Init, SeenWasComplete, AcceptedWasComplete, Seen, Idle
<1>2. IInv /\ SeenWasComplete /\ AcceptedWasComplete /\ [Next]_vars
        => (IInv /\ SeenWasComplete /\ AcceptedWasComplete)'
  BY NextStep, SeenStaysComplete
<1> QED
  BY <1>1, <1>2, PTL DEF Spec
=============================================================================
