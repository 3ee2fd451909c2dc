---------------------------- MODULE DurableFiles ----------------------------
(***************************************************************************)
(* How the promoter and the receiver put files where others read them      *)
(* (src/atomicfile.rs, write_atomic; src/release.rs, write_immutable and   *)
(* sync_dir), and what a killed process or a power loss leaves of them.    *)
(*                                                                         *)
(* A promotion writes its release unless it is there, the next record of   *)
(* the journal, and the channel, each in a directory of its own.  A        *)
(* receiver over its ceiling writes its reimage debt.  A temporary file is *)
(* named after the file and the process ID, and process IDs come back.     *)
(***************************************************************************)
EXTENDS Naturals, FiniteSetsExt

CONSTANTS
    Docs,            \* what is promoted
    Pids,            \* process IDs
    Jobs,            \* what processes do here: "promote", "unlocked", "debt"
    None,            \* no file, nothing
    Linked,          \* a temporary name of the very file at the path
    MaxGenerations,  \* records in the journal
    MaxFaults,       \* steps that fail, processes killed, power losses
    Journaled        \* the file system makes names durable in order

ASSUME JobsAssumption == Jobs \subseteq {"promote", "unlocked", "debt"}
ASSUME NoneAssumption == None \notin Docs /\ Linked # None
ASSUME BoundsAssumption ==
    MaxGenerations \in Nat /\ MaxFaults \in Nat /\ Journaled \in BOOLEAN

Generations == 1..MaxGenerations

Release(d) == <<"releases", d>>
Record(g, d) == <<"promotions", <<g, d>>>>
Channel == <<"channels", "stable">>
Debt == <<"state", "owed">>

Immutable ==
    {Release(d) : d \in Docs} \union {Record(g, d) : g \in Generations, d \in Docs}
Files == Immutable \union {Channel, Debt}

(***************************************************************************)
(* Bytes under a name: all of them or not, on the disk or not.  The same   *)
(* document written by two processes differs, in its parent or its time.   *)
(***************************************************************************)
Content == [doc : Docs, by : Pids, whole : BOOLEAN, synced : BOOLEAN]

ASSUME ContentAssumption == None \notin Content /\ Linked \notin Content

VARIABLES
    name,    \* what each path holds for the processes
    temp,    \* what each temporary name holds
    images,  \* what the paths may hold after a power loss
    run,     \* the run of each process
    acked,   \* history: the terminal successes, and the requests that got them
    asked,   \* history: the provider was asked, the debt being recorded
    faults   \* how many faults there were

files == <<name, temp, images>>
vars == <<files, run, acked, asked, faults>>

Steps == {"idle", "recover", "repair", "syncRepair", "decide",
          "create", "fill", "install", "syncDir", "unlink"}

Runs == [pc : Steps, job : Jobs \union {None}, doc : Docs \union {None},
         file : Files \union {None}]

Idle == [pc |-> "idle", job |-> None, doc |-> None, file |-> None]

Init ==
    /\ name = [f \in Files |-> None]
    /\ temp = [f \in Files |-> [p \in Pids |-> None]]
    /\ images = {name}
    /\ run = [p \in Pids |-> Idle]
    /\ acked = {}
    /\ asked = FALSE
    /\ faults = 0

-----------------------------------------------------------------------------
(* One write.                                                              *)

Goto(p, step) == run' = [run EXCEPT ![p].pc = step]
End(p) == run' = [run EXCEPT ![p] = Idle]

(* One temporary name for all writers of a file.                           *)
SharedName(p) == CHOOSE q \in Pids : TRUE

(* The temporary name of a file carries the process ID.                    *)
TempName(p) == p

Temp(f, p) == temp[f][TempName(p)]
SetTemp(f, p, content) == temp' = [temp EXCEPT ![f][TempName(p)] = content]

(* The name f now holds content: a power loss may come before or after.    *)
Renamed(f, content) ==
    IF Journaled THEN {[name EXCEPT ![f] = content]}
                 ELSE {[image EXCEPT ![f] = content] : image \in images}

(* The directory of f is on the disk, and what a journal holds before it.  *)
SyncedNames(f) ==
    IF Journaled THEN {name}
    ELSE {[g \in Files |-> IF g[1] = f[1] THEN name[g] ELSE image[g]] : image \in images}

(* A leftover is somebody else's, and stays.                               *)
CreateNew(p) ==
    LET f == run[p].file
        new == [doc |-> run[p].doc, by |-> p, whole |-> FALSE, synced |-> FALSE]
    IN  /\ run[p].pc = "create"
        /\ IF f \in Immutable /\ Temp(f, p) # None
           THEN End(p) /\ UNCHANGED temp
           ELSE SetTemp(f, p, new) /\ Goto(p, "fill")
        /\ UNCHANGED <<name, images, acked, asked, faults>>

(***************************************************************************)
(* write_atomic creates or empties its temporary file; write_immutable     *)
(* insists on a new one, and a run that finds a leftover removes it.       *)
(***************************************************************************)
Create(p) ==
    LET f == run[p].file
        new == [doc |-> run[p].doc, by |-> p, whole |-> FALSE, synced |-> FALSE]
    IN  /\ run[p].pc = "create"
        /\ IF f \in Immutable /\ Temp(f, p) # None
           THEN SetTemp(f, p, None) /\ End(p)
           ELSE SetTemp(f, p, new) /\ Goto(p, "fill")
        /\ UNCHANGED <<name, images, acked, asked, faults>>

(* The bytes are written, and synced later or never.                       *)
FillOnly(p) ==
    LET f == run[p].file IN
    /\ run[p].pc = "fill"
    /\ SetTemp(f, p, [Temp(f, p) EXCEPT !.whole = TRUE])
    /\ Goto(p, "install")
    /\ UNCHANGED <<name, images, acked, asked, faults>>

(* write_all, set_permissions, sync_all.                                   *)
Fill(p) ==
    LET f == run[p].file IN
    /\ run[p].pc = "fill"
    /\ SetTemp(f, p, [Temp(f, p) EXCEPT !.whole = TRUE, !.synced = TRUE])
    /\ Goto(p, "install")
    /\ UNCHANGED <<name, images, acked, asked, faults>>

Replace(p) ==
    LET f == run[p].file IN
    /\ run[p].pc = "install" /\ f \notin Immutable
    /\ name' = [name EXCEPT ![f] = Temp(f, p)]
    /\ images' = images \union Renamed(f, Temp(f, p))
    /\ SetTemp(f, p, None)
    /\ IF f = Debt THEN End(p) /\ asked' = TRUE
                   ELSE Goto(p, "syncDir") /\ UNCHANGED asked
    /\ UNCHANGED <<acked, faults>>

(* rename, which takes the name from whoever has it.                       *)
RenameOver(p) ==
    LET f == run[p].file IN
    /\ run[p].pc = "install" /\ f \in Immutable
    /\ name' = [name EXCEPT ![f] = Temp(f, p)]
    /\ images' = images \union Renamed(f, Temp(f, p))
    /\ SetTemp(f, p, None)
    /\ Goto(p, "syncDir")
    /\ UNCHANGED <<acked, asked, faults>>

(* hard_link fails when the name is taken.                                 *)
Link(p) ==
    LET f == run[p].file IN
    /\ run[p].pc = "install" /\ f \in Immutable
    /\ IF name[f] = None
       THEN /\ name' = [name EXCEPT ![f] = Temp(f, p)]
            /\ images' = images \union Renamed(f, Temp(f, p))
            /\ SetTemp(f, p, Linked)
            /\ Goto(p, "syncDir")
       ELSE SetTemp(f, p, None) /\ End(p) /\ UNCHANGED <<name, images>>
    /\ UNCHANGED <<acked, asked, faults>>

(* What follows the directory: the temporary name, or the end of the run.  *)
Installed(p) ==
    IF run[p].file \in Immutable
    THEN Goto(p, "unlink") /\ UNCHANGED acked
    ELSE /\ End(p)
         /\ acked' = acked \union {[doc |-> run[p].doc, status |-> "promoted"]}

(* The name is installed and nobody waits for the directory.               *)
SkipSyncDir(p) ==
    /\ run[p].pc = "syncDir"
    /\ Installed(p)
    /\ UNCHANGED <<files, asked, faults>>

(***************************************************************************)
(* sync_dir.  (The removal of the temporary name is synced as well, which  *)
(* changes nothing that matters here.)                                     *)
(***************************************************************************)
SyncDir(p) ==
    /\ run[p].pc = "syncDir"
    /\ images' = SyncedNames(run[p].file)
    /\ Installed(p)
    /\ UNCHANGED <<name, temp, asked, faults>>

-----------------------------------------------------------------------------
(* One promotion, and one refusal of a receiver.                           *)

(* The records by their file names, which carry generation and document.   *)
Records(image) == {r \in Generations \X Docs : image[Record(r[1], r[2])] # None}
Latest(image) == Max({0} \union {r[1] : r \in Records(image)})

(* latest_record: one record for each generation up to the latest.         *)
IsChain(image) ==
    \A g \in 1..Latest(image) :
        \E d \in Docs : {r \in Records(image) : r[1] = g} = {<<g, d>>}

(* The documents that the newest record names.                             *)
Newest(image) == {d \in Docs : <<Latest(image), d>> \in Records(image)}

(***************************************************************************)
(* A promotion holds the lock of the origin, unless it is one that nobody  *)
(* should run (write_immutable reckons with it).                           *)
(***************************************************************************)
Begin(p) ==
    /\ run[p].pc = "idle"
    /\ \E d \in Docs :
          \/ \E job \in Jobs \ {"debt"} :
                /\ job = "promote" => \A q \in Pids : run[q].job # "promote"
                /\ Latest(name) + 1 \in Generations
                /\ run' = [run EXCEPT ![p] =
                      [pc |-> "recover", job |-> job, doc |-> d, file |-> None]]
          \/ /\ "debt" \in Jobs
             /\ run' = [run EXCEPT ![p] =
                   [pc |-> "create", job |-> "debt", doc |-> d, file |-> Debt]]
    /\ UNCHANGED <<files, acked, asked, faults>>

(***************************************************************************)
(* recover_locked: the newest record names the release the channel has to  *)
(* hold.  A journal that is no chain, or a record without its release,     *)
(* ends the run.                                                           *)
(***************************************************************************)
Recover(p) ==
    /\ run[p].pc = "recover"
    /\ \/ Latest(name) = 0 /\ Goto(p, "decide")
       \/ /\ ~IsChain(name) \/ \E d \in Newest(name) : name[Release(d)] = None
          /\ End(p)
       \/ /\ IsChain(name)
          /\ \E d \in Newest(name) :
                /\ name[Release(d)] # None
                /\ IF name[Channel] # None /\ name[Channel].doc = d
                   THEN Goto(p, "decide")
                   ELSE run' = [run EXCEPT ![p] = [@ EXCEPT !.pc = "repair", !.file = Release(d)]]
    /\ UNCHANGED <<files, acked, asked, faults>>

(* write_atomic of the newest release to the channel, seen as one step.    *)
Repair(p) ==
    /\ run[p].pc = "repair"
    /\ name' = [name EXCEPT ![Channel] = name[run[p].file]]
    /\ images' = images \union Renamed(Channel, name[run[p].file])
    /\ Goto(p, "syncRepair")
    /\ UNCHANGED <<temp, acked, asked, faults>>

SyncRepair(p) ==
    /\ run[p].pc = "syncRepair"
    /\ images' = SyncedNames(Channel)
    /\ Goto(p, "decide")
    /\ UNCHANGED <<name, temp, acked, asked, faults>>

WriteNext(p, f) ==
    run' = [run EXCEPT ![p] = [@ EXCEPT !.pc = "create", !.file = f]]

(* The journal is read again, for the generation of the new record; there  *)
(* the bound of this model ends the run as well.                           *)
WriteRecord(p) ==
    \/ ~(IsChain(name) /\ Latest(name) + 1 \in Generations) /\ End(p)
    \/ /\ IsChain(name) /\ Latest(name) + 1 \in Generations
       /\ WriteNext(p, Record(Latest(name) + 1, run[p].doc))

(***************************************************************************)
(* The channel holds the request already, or it does not: then the release *)
(* is written first, unless it is there, be it written by whom it may.     *)
(***************************************************************************)
Decide(p) ==
    LET d == run[p].doc IN
    /\ run[p].pc = "decide"
    /\ IF name[Channel] # None /\ name[Channel].doc = d
       THEN acked' = acked \union {[doc |-> d, status |-> "unchanged"]} /\ End(p)
       ELSE /\ IF name[Release(d)] = None THEN WriteNext(p, Release(d)) ELSE WriteRecord(p)
            /\ UNCHANGED acked
    /\ UNCHANGED <<files, asked, faults>>

(* The temporary name is removed, and the promotion goes on.               *)
Unlink(p) ==
    LET f == run[p].file IN
    /\ run[p].pc = "unlink"
    /\ SetTemp(f, p, None)
    /\ IF f[1] = "releases" THEN WriteRecord(p) ELSE WriteNext(p, Channel)
    /\ UNCHANGED <<name, images, acked, asked, faults>>

(* A later run that converged: the debt is removed.                        *)
ClearDebt ==
    /\ name[Debt] # None
    /\ name' = [name EXCEPT ![Debt] = None]
    /\ images' = images \union Renamed(Debt, None)
    /\ asked' = FALSE
    /\ UNCHANGED <<temp, run, acked, faults>>

-----------------------------------------------------------------------------
(* What goes wrong.                                                        *)

Fault == faults < MaxFaults /\ faults' = faults + 1

(* A step fails: the temporary file is removed and the run ends.           *)
FailStep(p) ==
    LET f == run[p].file IN
    /\ Fault
    /\ run[p].pc \in {"fill", "install", "syncDir", "unlink"}
    /\ SetTemp(f, p, None)
    /\ End(p)
    /\ UNCHANGED <<name, images, acked, asked>>

(* The process is killed: its lock is released, its leftovers stay.        *)
Kill(p) ==
    /\ Fault
    /\ run[p].pc # "idle"
    /\ End(p)
    /\ UNCHANGED <<files, acked, asked>>

(* Bytes that were not synced are lost, at least some of them.             *)
Survivor(content) ==
    IF content = None \/ content.synced THEN content
    ELSE [content EXCEPT !.whole = FALSE]

(* A temporary name that was not synced may be there again, or not.        *)
TempNames == {fp \in Files \X Pids : temp[fp[1]][fp[2]] # None}

PowerLoss ==
    /\ Fault
    /\ \E image \in images, kept \in SUBSET TempNames :
          /\ name' = [f \in Files |-> Survivor(image[f])]
          /\ temp' = [f \in Files |-> [p \in Pids |->
                IF <<f, p>> \notin kept THEN None
                ELSE IF temp[f][p] = Linked
                     THEN IF name'[f] = None THEN Survivor(name[f]) ELSE Linked
                     ELSE Survivor(temp[f][p])]]
          /\ images' = {name'}
    /\ run' = [p \in Pids |-> Idle]
    /\ UNCHANGED <<acked, asked>>

-----------------------------------------------------------------------------
Writing(p) == Create(p) \/ Fill(p) \/ Replace(p) \/ Link(p) \/ SyncDir(p) \/ Unlink(p)
Promoting(p) == Recover(p) \/ Repair(p) \/ SyncRepair(p) \/ Decide(p)

Next ==
    \/ \E p \in Pids : Begin(p) \/ Writing(p) \/ Promoting(p) \/ FailStep(p) \/ Kill(p)
    \/ ClearDebt
    \/ PowerLoss

Spec == Init /\ [][Next]_vars

(* The queue runs its requests again, and a run goes on while it lives.    *)
Running(p) == Begin(p) \/ Writing(p) \/ Promoting(p)

FairSpec == Spec /\ \A p \in Pids : WF_vars(Running(p))

-----------------------------------------------------------------------------
TypeOK ==
    /\ name \in [Files -> Content \union {None}]
    /\ temp \in [Files -> [Pids -> Content \union {None, Linked}]]
    /\ images \subseteq [Files -> Content \union {None}]
    /\ run \in [Pids -> Runs]
    /\ acked \subseteq [doc : Docs, status : {"promoted", "unchanged"}]
    /\ asked \in BOOLEAN
    /\ faults \in 0..MaxFaults

(***************************************************************************)
(* atomicfile.rs: a reader that never coordinates with the writer finds a  *)
(* file whole or not at all, while others write it, after they were killed *)
(* and after a power loss, and although process IDs come back.             *)
(***************************************************************************)
NeverTorn == \A f \in Files : name[f] # None => name[f].whole

(***************************************************************************)
(* release.rs, write_immutable: once a release or a record can be read it  *)
(* never reads differently.  A power loss may take it away, not change it. *)
(***************************************************************************)
WriteOnce ==
    [][\A f \in Immutable : name[f] # None /\ name'[f] # None => name'[f] = name[f]]_vars

(* What a disk has to hold for the origin to be recovered from it.         *)
Recoverable(image) ==
    IsChain(image) /\ \A r \in Records(image) : image[Release(r[2])] # None

Recorded(d, image) == \E g \in Generations : <<g, d>> \in Records(image)

(***************************************************************************)
(* release-system.md: the immutable release and the journal are sufficient *)
(* for recovery.  Whatever a power loss leaves of a journal that was a     *)
(* chain is a chain, every record has its release, and every promotion     *)
(* that was reported its record.                                           *)
(***************************************************************************)
JournalSurvives ==
    IsChain(name) =>
        \A image \in images :
            /\ Recoverable(image)
            /\ \A a \in acked : a.status = "promoted" => Recorded(a.doc, image)

(***************************************************************************)
(* release-system.md: after a terminal result the queue owner can remove   *)
(* the request.  `unchanged` is one, and reports another run's promotion.  *)
(***************************************************************************)
UnchangedSurvives ==
    \A image \in images, a \in acked :
        a.status = "unchanged" => Recorded(a.doc, image)

(***************************************************************************)
(* design.md: the provider is called only after the debt has been durably  *)
(* recorded.                                                               *)
(***************************************************************************)
DebtIsDurable == asked => \A image \in images : image[Debt] # None

(***************************************************************************)
(* A leftover of a killed promoter under a process ID that comes back      *)
(* stops one run, not the origin: as long as promotions are run and the    *)
(* journal is a chain, one succeeds in the end.                            *)
(***************************************************************************)
LeftoversAreRemoved ==
    /\ []<>(\E p \in Pids : run[p].job \in {"promote", "unlocked"})
    /\ <>[]IsChain(name)
    => <>(acked # {})

-----------------------------------------------------------------------------
(* What the files rest on: the inductive invariant.                        *)

OnDisk(content) == content.whole /\ content.synced

NamesAreOnDisk == \A f \in Files : name[f] # None => OnDisk(name[f])

ImagesAreOnDisk ==
    \A image \in images, f \in Files : image[f] # None => OnDisk(image[f])

(* A power loss takes an immutable file away or leaves it.                 *)
ImagesLag == \A image \in images, f \in Immutable : image[f] \in {None, name[f]}

(* A run that writes has a temporary file of its own to write to.          *)
TempsAreOwned ==
    \A p \in Pids :
        /\ run[p].pc \in {"create", "fill", "install", "syncDir", "unlink"}
             => run[p].file \in Files /\ run[p].doc \in Docs
        /\ run[p].pc \in {"fill", "install"} => temp[run[p].file][p] \in Content
        /\ run[p].pc = "repair" => run[p].file \in Files
        /\ run[p].pc = "install" => OnDisk(temp[run[p].file][p])
        /\ run[p].pc # "idle" => run[p].doc \in Docs

IInv ==
    /\ TypeOK
    /\ NamesAreOnDisk
    /\ ImagesAreOnDisk
    /\ ImagesLag
    /\ TempsAreOwned

-----------------------------------------------------------------------------
(* What the journal rests on, where names become durable in order.         *)

(* The generations below g all have a record.                              *)
FilledBelow(g, image) == \A h \in 1..(g - 1) : \E d \in Docs : <<h, d>> \in Records(image)

(* No record before its release and its predecessors, no answer before its *)
(* record.                                                                 *)
InOrder(image) ==
    /\ \A r \in Records(image) : image[Release(r[2])] # None /\ FilledBelow(r[1], image)
    /\ \A a \in acked : a.status = "promoted" => Recorded(a.doc, image)

(* A run writes the release, the record and the channel in this order.     *)
WritesInOrder ==
    \A p \in Pids :
        LET f == run[p].file
            d == run[p].doc
        IN  run[p].pc \in {"create", "fill", "install", "syncDir", "unlink"} =>
                /\ \/ f = Release(d)
                   \/ /\ name[Release(d)] # None
                      /\ \E g \in Generations : f = Record(g, d) /\ FilledBelow(g, name)
                   \/ f = Channel /\ Recorded(d, name)
                   \/ f = Debt /\ run[p].pc \in {"create", "fill", "install"}
                /\ f \in Immutable /\ run[p].pc \in {"syncDir", "unlink"} => name[f] # None

JournalIInv ==
    /\ InOrder(name) /\ \A image \in images : InOrder(image)
    /\ WritesInOrder
=============================================================================
