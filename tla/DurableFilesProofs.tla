------------------------- MODULE DurableFilesProofs -------------------------
(***************************************************************************)
(* No file is ever read torn and no immutable file ever changes, for every *)
(* number of documents, processes and faults, in both kinds of file system *)
(* and with or without the lock.                                           *)
(***************************************************************************)
EXTENDS DurableFiles, WellFoundedInduction, TLAPS

LEMMA Paths ==
    /\ Channel \in Files /\ Channel \notin Immutable
    /\ Debt \in Files /\ Debt \notin Immutable
    /\ Immutable \subseteq Files
    /\ \A d \in Docs : Release(d) \in Immutable
    /\ \A d \in Docs, g \in Generations : Record(g, d) \in Immutable
BY DEF Files, Immutable, Channel, Debt, Release, Record

LEMMA InitStep ==
    ASSUME Init
    PROVE  IInv
<1>1. TypeOK
  <2>1. Idle \in Runs
    BY DEF Idle, Runs, Steps
  <2>2. /\ name \in [Files -> Content \union {None}]
        /\ images \subseteq [Files -> Content \union {None}]
    BY DEF Init
  <2>3. temp \in [Files -> [Pids -> Content \union {None, Linked}]]
    BY DEF Init
  <2>4. run \in [Pids -> Runs]
    BY <2>1 DEF Init
  <2> QED
    <3>1. 0 \in 0..MaxFaults
      BY BoundsAssumption
    <3>2. asked \in BOOLEAN /\ faults = 0 /\ acked = {}
      BY Zenon DEF Init
    <3> QED
      BY <2>2, <2>3, <2>4, <3>1, <3>2 DEF TypeOK
<1>2. NamesAreOnDisk /\ ImagesAreOnDisk /\ ImagesLag
  BY Paths DEF Init, NamesAreOnDisk, ImagesAreOnDisk, ImagesLag
<1>3. TempsAreOwned
  BY DEF Init, TempsAreOwned, Idle
<1> QED
  BY <1>1, <1>2, <1>3 DEF IInv

(* What the names and the images have to be, apart from who is writing.    *)
Disk ==
    /\ name \in [Files -> Content \union {None}]
    /\ images \subseteq [Files -> Content \union {None}]
    /\ NamesAreOnDisk
    /\ ImagesAreOnDisk
    /\ ImagesLag

LEMMA NothingMoves ==
    ASSUME Disk, UNCHANGED <<name, images>>
    PROVE  Disk'
BY DEF Disk, NamesAreOnDisk, ImagesAreOnDisk, ImagesLag

(***************************************************************************)
(* A name may take content that is on the disk, and an immutable one only  *)
(* if it is free.                                                          *)
(***************************************************************************)
LEMMA RenameIsSafe ==
    ASSUME Disk,
           NEW f \in Files, NEW content \in Content \union {None},
           content # None => OnDisk(content),
           f \in Immutable => name[f] = None,
           name' = [name EXCEPT ![f] = content],
           images' = images \union Renamed(f, content)
    PROVE  Disk'
<1> USE DEF Disk
<1>1. name' \in [Files -> Content \union {None}]
  OBVIOUS
<1>2. \A image \in Renamed(f, content) :
         /\ image \in [Files -> Content \union {None}]
         /\ image[f] = content
         /\ \/ \A g \in Files \ {f} : image[g] = name[g]
            \/ \E old \in images : \A g \in Files \ {f} : image[g] = old[g]
  BY DEF Renamed
<1>3. images' \subseteq [Files -> Content \union {None}]
  BY <1>2
<1>4. NamesAreOnDisk'
  BY DEF NamesAreOnDisk
<1>5. ASSUME NEW image \in images', NEW g \in Files, image[g] # None
      PROVE  OnDisk(image[g])
  <2>1. CASE image \in images
    BY <2>1, <1>5 DEF ImagesAreOnDisk
  <2>2. CASE image \in Renamed(f, content) /\ g = f
    BY <2>2, <1>5, <1>2
  <2>3. CASE image \in Renamed(f, content) /\ g # f
    BY <2>3, <1>5, <1>2 DEF ImagesAreOnDisk, NamesAreOnDisk
  <2> QED
    BY <2>1, <2>2, <2>3
<1>6. ASSUME NEW image \in images', NEW g \in Immutable
      PROVE  image[g] \in {None, name'[g]}
  <2>0. g \in Files
    BY Paths
  <2>1. CASE image \in images
    BY <2>0, <2>1 DEF ImagesLag
  <2>2. CASE image \in Renamed(f, content) /\ g = f
    BY <2>0, <2>2, <1>2
  <2>3. CASE image \in Renamed(f, content) /\ g # f
    BY <2>0, <2>3, <1>2 DEF ImagesLag
  <2> QED
    BY <2>1, <2>2, <2>3
<1> QED
  BY <1>1, <1>3, <1>4, <1>5, <1>6 DEF ImagesAreOnDisk, ImagesLag

(* Syncing a directory replaces what might be lost by what is there.       *)
LEMMA SyncIsSafe ==
    ASSUME Disk, NEW f, name' = name, images' = SyncedNames(f)
    PROVE  Disk'
<1>1. \A image \in SyncedNames(f) :
         /\ image \in [Files -> Content \union {None}]
         /\ \A g \in Files :
               image[g] = name[g] \/ \E old \in images : image[g] = old[g]
  BY DEF SyncedNames, Disk
<1>2. ImagesAreOnDisk'
  BY <1>1 DEF Disk, ImagesAreOnDisk, NamesAreOnDisk
<1>3. ImagesLag'
  BY <1>1, Paths DEF Disk, ImagesLag
<1> QED
  BY <1>1, <1>2, <1>3 DEF Disk, NamesAreOnDisk

(***************************************************************************)
(* After a power loss the names are one of the images, and every byte of   *)
(* it is there: what was installed had been synced.                        *)
(***************************************************************************)
LEMMA PowerLossKeepsNames ==
    ASSUME Disk, NEW image \in images,
           name' = [f \in Files |-> Survivor(image[f])], images' = {name'}
    PROVE  Disk' /\ name' = image
<1>1. \A f \in Files : Survivor(image[f]) = image[f]
  BY DEF Survivor, Disk, ImagesAreOnDisk, OnDisk
<1>2. name' = image
  BY <1>1 DEF Disk
<1>3. NamesAreOnDisk' /\ ImagesAreOnDisk'
  BY <1>2 DEF Disk, NamesAreOnDisk, ImagesAreOnDisk
<1>4. ImagesLag'
  BY DEF ImagesLag
<1> QED
  BY <1>2, <1>3, <1>4 DEF Disk

(* The rest: who runs what, and the temporary files.                       *)
Work ==
    /\ temp \in [Files -> [Pids -> Content \union {None, Linked}]]
    /\ run \in [Pids -> Runs]
    /\ TempsAreOwned

Counters ==
    /\ acked \subseteq [doc : Docs, status : {"promoted", "unchanged"}]
    /\ asked \in BOOLEAN
    /\ faults \in 0..MaxFaults

LEMMA Parts ==
    /\ IInv <=> Disk /\ Work /\ Counters
    /\ IInv' <=> Disk' /\ Work' /\ Counters'
BY DEF IInv, TypeOK, Disk, Work, Counters

(***************************************************************************)
(* A run disturbs no other run: it changes its own entry, and temporary    *)
(* files of its own.                                                       *)
(***************************************************************************)
LEMMA OwnWork ==
    ASSUME Work, NEW p \in Pids, NEW f \in Files,
           NEW content \in Content \union {None, Linked},
           temp' = [temp EXCEPT ![f][p] = content] \/ temp' = temp,
           NEW r \in Runs,
           run' = [run EXCEPT ![p] = r],
           r.pc # "idle" => r.doc \in Docs,
           r.pc \in {"repair", "create", "fill", "install", "syncDir", "unlink"}
              => r.file \in Files,
           r.pc \in {"fill", "install"} => temp'[r.file][p] \in Content,
           r.pc = "install" => OnDisk(temp'[r.file][p])
    PROVE  Work'
<1>1. temp' \in [Files -> [Pids -> Content \union {None, Linked}]]
  BY DEF Work
<1>2. \A q \in Pids \ {p}, g \in Files : temp'[g][q] = temp[g][q]
  BY DEF Work
<1>3. run'[p] = r /\ \A q \in Pids \ {p} : run'[q] = run[q]
  BY DEF Work
<1>4. run' \in [Pids -> Runs]
  BY DEF Work
<1>5. TempsAreOwned'
  BY <1>2, <1>3 DEF TempsAreOwned, Work
<1> QED
  BY <1>1, <1>4, <1>5 DEF Work

(* A run that ends has nothing left to keep.                               *)
LEMMA EndIsSafe ==
    ASSUME Work, NEW p \in Pids, NEW f \in Files, End(p),
           NEW content \in Content \union {None, Linked},
           temp' = [temp EXCEPT ![f][p] = content] \/ temp' = temp
    PROVE  Work'
<1>1. Idle \in Runs /\ Idle.pc = "idle"
  BY DEF Idle, Runs, Steps
<1> QED
  BY <1>1, OwnWork DEF End

(* Going on keeps what the run is about.                                   *)
LEMMA GotoKeeps ==
    ASSUME Work, NEW p \in Pids, NEW step \in Steps, Goto(p, step)
    PROVE  \E r \in Runs :
              /\ run' = [run EXCEPT ![p] = r]
              /\ r.pc = step /\ r.file = run[p].file /\ r.doc = run[p].doc
<1>1. run[p] \in Runs
  BY DEF Work
<1>2. [run[p] EXCEPT !.pc = step] \in Runs
  BY <1>1 DEF Runs
<1>3. run' = [run EXCEPT ![p] = [run[p] EXCEPT !.pc = step]]
  BY DEF Goto
<1> QED
  BY <1>1, <1>2, <1>3 DEF Runs

LEMMA WriteNextKeeps ==
    ASSUME Work, NEW p \in Pids, NEW f \in Files, WriteNext(p, f)
    PROVE  \E r \in Runs :
              /\ run' = [run EXCEPT ![p] = r]
              /\ r.pc = "create" /\ r.file = f /\ r.doc = run[p].doc
<1>1. run[p] \in Runs
  BY DEF Work
<1>2. [run[p] EXCEPT !.pc = "create", !.file = f] \in Runs
  BY <1>1 DEF Runs, Steps
<1>3. run' = [run EXCEPT ![p] = [run[p] EXCEPT !.pc = "create", !.file = f]]
  BY DEF WriteNext
<1> QED
  BY <1>1, <1>2, <1>3 DEF Runs

LEMMA WorkStays ==
    ASSUME Work, UNCHANGED <<temp, run>>
    PROVE  Work'
BY DEF Work, TempsAreOwned

LEMMA CountersStay ==
    ASSUME Counters, UNCHANGED <<acked, asked, faults>>
    PROVE  Counters'
BY DEF Counters

-----------------------------------------------------------------------------
LEMMA CreateStep ==
    ASSUME IInv, NEW p \in Pids, Create(p)
    PROVE  IInv'
<1> DEFINE f == run[p].file
           new == [doc |-> run[p].doc, by |-> p, whole |-> FALSE, synced |-> FALSE]
<1>1. Disk /\ Work /\ Counters
  BY Parts
<1>2. Disk' /\ Counters'
  BY <1>1, NothingMoves, CountersStay DEF Create
<1> SUFFICES Work'
  BY <1>2, Parts
<1>3. run[p].pc = "create" /\ f \in Files /\ run[p].doc \in Docs /\ new \in Content
  BY <1>1 DEF Create, Work, TempsAreOwned, Content
<1>4. CASE SetTemp(f, p, None) /\ End(p)
  BY <1>1, <1>3, <1>4, EndIsSafe DEF SetTemp, TempName
<1>5. CASE SetTemp(f, p, new) /\ Goto(p, "fill")
  <2>1. PICK r \in Runs : /\ run' = [run EXCEPT ![p] = r]
                          /\ r.pc = "fill" /\ r.file = f /\ r.doc = run[p].doc
    BY <1>1, <1>5, GotoKeeps DEF Steps
  <2>2. temp' = [temp EXCEPT ![f][p] = new] /\ temp'[f][p] = new
    BY <1>1, <1>3, <1>5 DEF SetTemp, TempName, Work
  <2> QED
    BY <1>1, <1>3, <2>1, <2>2, OwnWork
<1> QED
  BY <1>4, <1>5 DEF Create

LEMMA FillStep ==
    ASSUME IInv, NEW p \in Pids, Fill(p)
    PROVE  IInv'
<1> DEFINE f == run[p].file
           content == [temp[f][p] EXCEPT !.whole = TRUE, !.synced = TRUE]
<1>1. Disk /\ Work /\ Counters
  BY Parts
<1>2. Disk' /\ Counters'
  BY <1>1, NothingMoves, CountersStay DEF Fill
<1> SUFFICES Work'
  BY <1>2, Parts
<1>3. f \in Files /\ run[p].doc \in Docs /\ temp[f][p] \in Content
  BY <1>1 DEF Fill, Work, TempsAreOwned
<1>4. content \in Content /\ OnDisk(content)
  BY <1>3 DEF Content, OnDisk
<1>5. PICK r \in Runs : /\ run' = [run EXCEPT ![p] = r]
                        /\ r.pc = "install" /\ r.file = f /\ r.doc = run[p].doc
  BY <1>1, GotoKeeps DEF Fill, Steps
<1>6. temp' = [temp EXCEPT ![f][p] = content] /\ temp'[f][p] = content
  BY <1>1, <1>3 DEF Fill, SetTemp, Temp, TempName, Work
<1> HIDE DEF content
<1> QED
  BY <1>1, <1>3, <1>4, <1>5, <1>6, OwnWork

LEMMA ReplaceStep ==
    ASSUME IInv, NEW p \in Pids, Replace(p)
    PROVE  IInv'
<1> DEFINE f == run[p].file
<1>1. Disk /\ Work /\ Counters
  BY Parts
<1>2. f \in Files /\ run[p].doc \in Docs /\ temp[f][p] \in Content /\ OnDisk(temp[f][p])
  BY <1>1 DEF Replace, Work, TempsAreOwned
<1>3. Disk'
  <2>1. /\ name' = [name EXCEPT ![f] = temp[f][p]]
        /\ images' = images \union Renamed(f, temp[f][p])
        /\ f \notin Immutable
    BY DEF Replace, Temp, TempName
  <2> QED
    BY <1>1, <1>2, <2>1, RenameIsSafe
<1>4. temp' = [temp EXCEPT ![f][p] = None]
  BY DEF Replace, SetTemp, TempName
<1>5. Counters'
  BY <1>1 DEF Replace, Counters
<1> SUFFICES Work'
  BY <1>3, <1>5, Parts
<1>6. CASE End(p)
  BY <1>1, <1>2, <1>4, <1>6, EndIsSafe
<1>7. CASE Goto(p, "syncDir")
  <2>1. PICK r \in Runs : /\ run' = [run EXCEPT ![p] = r]
                          /\ r.pc = "syncDir" /\ r.file = f /\ r.doc = run[p].doc
    BY <1>1, <1>7, GotoKeeps DEF Steps
  <2> QED
    BY <1>1, <1>2, <1>4, <2>1, OwnWork
<1> QED
  BY <1>6, <1>7 DEF Replace

LEMMA LinkStep ==
    ASSUME IInv, NEW p \in Pids, Link(p)
    PROVE  IInv'
<1> DEFINE f == run[p].file
<1>1. Disk /\ Work /\ Counters
  BY Parts
<1>2. f \in Files /\ run[p].doc \in Docs /\ temp[f][p] \in Content /\ OnDisk(temp[f][p])
  BY <1>1 DEF Link, Work, TempsAreOwned
<1>3. Counters'
  BY <1>1, CountersStay DEF Link
<1>4. CASE name[f] = None
  <2>1. Disk'
    <3>1. /\ name' = [name EXCEPT ![f] = temp[f][p]]
          /\ images' = images \union Renamed(f, temp[f][p])
      BY <1>4 DEF Link, Temp, TempName
    <3> QED
      BY <1>1, <1>2, <1>4, <3>1, RenameIsSafe
  <2>2. PICK r \in Runs : /\ run' = [run EXCEPT ![p] = r]
                          /\ r.pc = "syncDir" /\ r.file = f /\ r.doc = run[p].doc
    BY <1>1, <1>4, GotoKeeps DEF Link, Steps
  <2>3. temp' = [temp EXCEPT ![f][p] = Linked]
    BY <1>4 DEF Link, SetTemp, TempName
  <2>4. Work'
    BY <1>1, <1>2, <2>2, <2>3, OwnWork
  <2> QED
    BY <1>3, <2>1, <2>4, Parts
<1>5. CASE name[f] # None
  <2>1. Disk'
    BY <1>1, <1>5, NothingMoves DEF Link
  <2>2. Work'
    BY <1>1, <1>2, <1>5, EndIsSafe DEF Link, SetTemp, TempName
  <2> QED
    BY <1>3, <2>1, <2>2, Parts
<1> QED
  BY <1>4, <1>5

LEMMA SyncDirStep ==
    ASSUME IInv, NEW p \in Pids, SyncDir(p)
    PROVE  IInv'
<1> DEFINE f == run[p].file
<1>1. Disk /\ Work /\ Counters
  BY Parts
<1>2. f \in Files /\ run[p].doc \in Docs
  BY <1>1 DEF SyncDir, Work, TempsAreOwned
<1>3. Disk'
  BY <1>1, SyncIsSafe DEF SyncDir
<1>4. Counters'
  BY <1>1, <1>2 DEF SyncDir, Installed, Counters
<1> SUFFICES Work'
  BY <1>3, <1>4, Parts
<1>5. CASE End(p)
  BY <1>1, <1>2, <1>5, EndIsSafe DEF SyncDir
<1>6. CASE Goto(p, "unlink")
  <2>1. PICK r \in Runs : /\ run' = [run EXCEPT ![p] = r]
                          /\ r.pc = "unlink" /\ r.file = f /\ r.doc = run[p].doc
    BY <1>1, <1>6, GotoKeeps DEF Steps
  <2> QED
    BY <1>1, <1>2, <2>1, OwnWork DEF SyncDir
<1> QED
  BY <1>5, <1>6 DEF SyncDir, Installed

-----------------------------------------------------------------------------
LEMMA BeginStep ==
    ASSUME IInv, NEW p \in Pids, Begin(p)
    PROVE  IInv'
<1>1. Disk /\ Work /\ Counters
  BY Parts
<1>2. Disk' /\ Counters'
  BY <1>1, NothingMoves, CountersStay DEF Begin, files
<1>3. PICK r \in Runs : /\ run' = [run EXCEPT ![p] = r]
                        /\ r.doc \in Docs
                        /\ \/ r.pc = "recover"
                           \/ r.pc = "create" /\ r.file \in Files
  <2>1. CASE \E d \in Docs, job \in Jobs :
               run' = [run EXCEPT ![p] =
                  [pc |-> "recover", job |-> job, doc |-> d, file |-> None]]
    <3>1. PICK d \in Docs, job \in Jobs : run' = [run EXCEPT ![p] =
                  [pc |-> "recover", job |-> job, doc |-> d, file |-> None]]
      BY <2>1
    <3> DEFINE r == [pc |-> "recover", job |-> job, doc |-> d, file |-> None]
    <3>2. r \in Runs /\ r.doc = d /\ r.pc = "recover"
      BY DEF Runs, Steps
    <3> QED
      BY <3>1, <3>2
  <2>2. CASE \E d \in Docs : "debt" \in Jobs /\
               run' = [run EXCEPT ![p] =
                  [pc |-> "create", job |-> "debt", doc |-> d, file |-> Debt]]
    <3>1. PICK d \in Docs : "debt" \in Jobs /\ run' = [run EXCEPT ![p] =
                  [pc |-> "create", job |-> "debt", doc |-> d, file |-> Debt]]
      BY <2>2
    <3> DEFINE r == [pc |-> "create", job |-> "debt", doc |-> d, file |-> Debt]
    <3>2. r \in Runs /\ r.doc = d /\ r.pc = "create" /\ r.file \in Files
      BY <3>1, Paths DEF Runs, Steps
    <3> QED
      BY <3>1, <3>2
  <2> QED
    BY <2>1, <2>2 DEF Begin
<1>4. Work'
  BY <1>1, <1>3, Paths, OwnWork DEF Begin, files
<1> QED
  BY <1>2, <1>4, Parts

LEMMA RecoverStep ==
    ASSUME IInv, NEW p \in Pids, Recover(p)
    PROVE  IInv'
<1>1. Disk /\ Work /\ Counters
  BY Parts
<1>2. Disk' /\ Counters'
  BY <1>1, NothingMoves, CountersStay DEF Recover, files
<1> SUFFICES Work'
  BY <1>2, Parts
<1>3. temp' = temp /\ run[p].doc \in Docs
  BY <1>1 DEF Recover, files, Work, TempsAreOwned
<1>4. CASE End(p)
  BY <1>1, <1>3, <1>4, Paths, EndIsSafe
<1>5. CASE Goto(p, "decide")
  <2>1. PICK r \in Runs : /\ run' = [run EXCEPT ![p] = r]
                          /\ r.pc = "decide" /\ r.doc = run[p].doc
    BY <1>1, <1>5, GotoKeeps DEF Steps
  <2> QED
    BY <1>1, <1>3, <2>1, Paths, OwnWork
<1>6. ASSUME NEW d \in Docs,
             run' = [run EXCEPT ![p] = [@ EXCEPT !.pc = "repair", !.file = Release(d)]]
      PROVE  Work'
  <2>1. Release(d) \in Files
    BY Paths
  <2>2. PICK r \in Runs : /\ run' = [run EXCEPT ![p] = r]
                          /\ r.pc = "repair" /\ r.doc = run[p].doc /\ r.file = Release(d)
    <3>1. run[p] \in Runs
      BY <1>1 DEF Work
    <3> DEFINE next == [run[p] EXCEPT !.pc = "repair", !.file = Release(d)]
    <3>2. next \in Runs /\ next.pc = "repair" /\ next.doc = run[p].doc /\ next.file = Release(d)
      BY <2>1, <3>1 DEF Runs, Steps
    <3>3. run' = [run EXCEPT ![p] = next]
      BY <1>6
    <3> QED
      BY <3>2, <3>3
  <2> QED
    BY <1>1, <1>3, <2>1, <2>2, OwnWork
<1> QED
  BY <1>4, <1>5, <1>6 DEF Recover, Newest

LEMMA RepairStep ==
    ASSUME IInv, NEW p \in Pids, Repair(p)
    PROVE  IInv'
<1>1. Disk /\ Work /\ Counters
  BY Parts
<1>2. run[p].file \in Files /\ run[p].doc \in Docs
  BY <1>1 DEF Repair, Work, TempsAreOwned
<1>3. /\ name[run[p].file] \in Content \union {None}
      /\ name[run[p].file] # None => OnDisk(name[run[p].file])
  BY <1>1, <1>2 DEF Disk, NamesAreOnDisk
<1>4. Disk'
  BY <1>1, <1>2, <1>3, Paths, RenameIsSafe DEF Repair
<1>5. Counters'
  BY <1>1, CountersStay DEF Repair
<1>6. PICK r \in Runs : /\ run' = [run EXCEPT ![p] = r]
                        /\ r.pc = "syncRepair" /\ r.doc = run[p].doc
  BY <1>1, GotoKeeps DEF Repair, Steps
<1>7. Work'
  BY <1>1, <1>2, <1>6, OwnWork DEF Repair
<1> QED
  BY <1>4, <1>5, <1>7, Parts

LEMMA SyncRepairStep ==
    ASSUME IInv, NEW p \in Pids, SyncRepair(p)
    PROVE  IInv'
<1>1. Disk /\ Work /\ Counters
  BY Parts
<1>2. Disk' /\ Counters'
  BY <1>1, SyncIsSafe, CountersStay DEF SyncRepair
<1>3. PICK r \in Runs : /\ run' = [run EXCEPT ![p] = r]
                        /\ r.pc = "decide" /\ r.doc = run[p].doc
  BY <1>1, GotoKeeps DEF SyncRepair, Steps
<1>4. temp' = temp /\ run[p].doc \in Docs
  BY <1>1 DEF SyncRepair, Work, TempsAreOwned
<1>5. Work'
  BY <1>1, <1>3, <1>4, Paths, OwnWork
<1> QED
  BY <1>2, <1>5, Parts

(* The record of a document is written, or the run ends.                   *)
LEMMA WriteRecordIsSafe ==
    ASSUME Work, NEW p \in Pids, run[p].doc \in Docs, WriteRecord(p),
           NEW f \in Files,
           NEW content \in Content \union {None, Linked},
           temp' = [temp EXCEPT ![f][p] = content] \/ temp' = temp
    PROVE  Work'
<1>1. CASE End(p)
  BY <1>1, EndIsSafe
<1>2. ASSUME NEW g \in Generations, WriteNext(p, Record(g, run[p].doc))
      PROVE  Work'
  <2>1. Record(g, run[p].doc) \in Files
    BY Paths
  <2>2. PICK r \in Runs : /\ run' = [run EXCEPT ![p] = r]
                          /\ r.pc = "create" /\ r.file \in Files /\ r.doc = run[p].doc
    BY <1>2, <2>1, WriteNextKeeps
  <2> QED
    BY <2>2, OwnWork
<1> QED
  BY <1>1, <1>2 DEF WriteRecord

LEMMA DecideStep ==
    ASSUME IInv, NEW p \in Pids, Decide(p)
    PROVE  IInv'
<1> DEFINE d == run[p].doc
<1>1. Disk /\ Work /\ Counters
  BY Parts
<1>2. d \in Docs /\ temp' = temp
  BY <1>1 DEF Decide, Work, TempsAreOwned, files
<1>3. Disk'
  BY <1>1, NothingMoves DEF Decide, files
<1>4. Counters'
  BY <1>1, <1>2 DEF Decide, Counters
<1> SUFFICES Work'
  BY <1>3, <1>4, Parts
<1>5. CASE End(p)
  BY <1>1, <1>2, <1>5, Paths, EndIsSafe
<1>6. CASE WriteNext(p, Release(d))
  <2>1. Release(d) \in Files
    BY <1>2, Paths
  <2>2. PICK r \in Runs : /\ run' = [run EXCEPT ![p] = r]
                          /\ r.pc = "create" /\ r.file \in Files /\ r.doc = d
    BY <1>1, <1>6, <2>1, WriteNextKeeps
  <2> QED
    BY <1>1, <1>2, <2>1, <2>2, OwnWork
<1>7. CASE WriteRecord(p)
  BY <1>1, <1>2, <1>7, Paths, WriteRecordIsSafe
<1> QED
  BY <1>5, <1>6, <1>7 DEF Decide

LEMMA UnlinkStep ==
    ASSUME IInv, NEW p \in Pids, Unlink(p)
    PROVE  IInv'
<1> DEFINE f == run[p].file
<1>1. Disk /\ Work /\ Counters
  BY Parts
<1>2. f \in Files /\ run[p].doc \in Docs /\ temp' = [temp EXCEPT ![f][p] = None]
  BY <1>1 DEF Unlink, Work, TempsAreOwned, SetTemp, TempName
<1>3. Disk' /\ Counters'
  BY <1>1, NothingMoves, CountersStay DEF Unlink
<1> SUFFICES Work'
  BY <1>3, Parts
<1>4. CASE WriteRecord(p)
  BY <1>1, <1>2, <1>4, WriteRecordIsSafe
<1>5. CASE WriteNext(p, Channel)
  <2>1. PICK r \in Runs : /\ run' = [run EXCEPT ![p] = r]
                          /\ r.pc = "create" /\ r.file \in Files /\ r.doc = run[p].doc
    BY <1>1, <1>5, Paths, WriteNextKeeps
  <2> QED
    BY <1>1, <1>2, <2>1, OwnWork
<1> QED
  BY <1>4, <1>5 DEF Unlink

LEMMA ClearDebtStep ==
    ASSUME IInv, ClearDebt
    PROVE  IInv'
<1>1. Disk /\ Work /\ Counters
  BY Parts
<1>2. Disk'
  BY <1>1, Paths, RenameIsSafe DEF ClearDebt
<1>3. Work' /\ Counters'
  BY <1>1, WorkStays DEF ClearDebt, Counters
<1> QED
  BY <1>2, <1>3, Parts

-----------------------------------------------------------------------------
LEMMA FaultCounts ==
    ASSUME Counters, Fault, UNCHANGED <<acked, asked>>
    PROVE  Counters'
BY BoundsAssumption DEF Counters, Fault

LEMMA FailStepStep ==
    ASSUME IInv, NEW p \in Pids, FailStep(p)
    PROVE  IInv'
<1> DEFINE f == run[p].file
<1>1. Disk /\ Work /\ Counters
  BY Parts
<1>2. f \in Files /\ temp' = [temp EXCEPT ![f][p] = None]
  BY <1>1 DEF FailStep, Work, TempsAreOwned, SetTemp, TempName
<1>3. Disk' /\ Counters'
  BY <1>1, NothingMoves, FaultCounts DEF FailStep
<1>4. Work'
  BY <1>1, <1>2, EndIsSafe DEF FailStep
<1> QED
  BY <1>3, <1>4, Parts

LEMMA KillStep ==
    ASSUME IInv, NEW p \in Pids, Kill(p)
    PROVE  IInv'
<1>1. Disk /\ Work /\ Counters
  BY Parts
<1>2. Disk' /\ Counters'
  BY <1>1, NothingMoves, FaultCounts DEF Kill, files
<1>3. Work'
  BY <1>1, Paths, EndIsSafe DEF Kill, files
<1> QED
  BY <1>2, <1>3, Parts

LEMMA PowerLossStep ==
    ASSUME IInv, PowerLoss
    PROVE  IInv'
<1>1. Disk /\ Work /\ Counters
  BY Parts
<1>2. Disk'
  BY <1>1, PowerLossKeepsNames DEF PowerLoss
<1>3. Counters'
  BY <1>1, FaultCounts DEF PowerLoss
<1>4. ASSUME NEW content \in Content \union {None}
      PROVE  Survivor(content) \in Content \union {None}
  BY DEF Survivor, Content
<1>5. PICK kept \in SUBSET TempNames :
        temp' = [f \in Files |-> [p \in Pids |->
            IF <<f, p>> \notin kept THEN None
            ELSE IF temp[f][p] = Linked
                 THEN IF name'[f] = None THEN Survivor(name[f]) ELSE Linked
                 ELSE Survivor(temp[f][p])]]
  BY DEF PowerLoss
<1>6. temp' \in [Files -> [Pids -> Content \union {None, Linked}]]
  <2>1. ASSUME NEW f \in Files, NEW p \in Pids
        PROVE  temp'[f][p] \in Content \union {None, Linked}
    <3>1. name[f] \in Content \union {None} /\ temp[f][p] \in Content \union {None, Linked}
      BY <1>1 DEF Disk, Work
    <3> QED
      BY <1>4, <1>5, <3>1
  <2> QED
    BY <1>5, <2>1
<1>7. Idle \in Runs /\ Idle.pc = "idle"
  BY DEF Idle, Runs, Steps
<1>8. Work'
  BY <1>6, <1>7 DEF PowerLoss, Work, TempsAreOwned
<1> QED
  BY <1>2, <1>3, <1>8, Parts

LEMMA NextStep ==
    ASSUME IInv, [Next]_vars
    PROVE  IInv'
<1>1. CASE UNCHANGED vars
  BY <1>1, Parts, NothingMoves, WorkStays, CountersStay DEF vars, files
<1>2. CASE Next
  BY <1>2, CreateStep, FillStep, ReplaceStep, LinkStep, SyncDirStep, BeginStep, RecoverStep,
     RepairStep, SyncRepairStep, DecideStep, UnlinkStep, ClearDebtStep, FailStepStep,
     KillStep, PowerLossStep
     DEF Next, Writing, Promoting
<1> QED
  BY <1>1, <1>2

-----------------------------------------------------------------------------
(***************************************************************************)
(* What is installed was synced before, what a disk may hold lags behind   *)
(* what is read, and nobody fills another process's temporary file         *)
(* (write_atomic, write_immutable).                                        *)
(***************************************************************************)
THEOREM FilesInvariant == Spec => []IInv
<1>1. Init => IInv
  BY InitStep
<1>2. IInv /\ [Next]_vars => IInv'
  BY NextStep
<1> QED
  BY <1>1, <1>2, PTL DEF Spec

(* No reader and no power loss ever finds a part of a file (atomicfile.rs). *)
THEOREM FilesAreWhole == Spec => []NeverTorn
<1>1. IInv => NeverTorn
  BY DEF IInv, NamesAreOnDisk, NeverTorn, OnDisk
<1> QED
  BY <1>1, FilesInvariant, PTL

(***************************************************************************)
(* What stands under the name of a release or a record never changes, with *)
(* or without the lock, through faults and power losses (write_immutable). *)
(***************************************************************************)
LEMMA StepIsWriteOnce ==
    ASSUME IInv, [Next]_vars, NEW f \in Immutable, name[f] # None, name'[f] # None
    PROVE  name'[f] = name[f]
<1>1. Disk /\ Work
  BY Parts
<1>2. f \in Files /\ f # Channel /\ f # Debt
  BY Paths
<1>3. CASE \E p \in Pids : Replace(p)
  <2>1. PICK p \in Pids : Replace(p)
    BY <1>3
  <2>2. name' = [name EXCEPT ![run[p].file] = Temp(run[p].file, p)] /\ run[p].file # f
    BY <2>1 DEF Replace
  <2> QED
    BY <1>1, <1>2, <2>2 DEF Disk
<1>4. CASE \E p \in Pids : Link(p)
  <2>1. PICK p \in Pids : Link(p)
    BY <1>4
  <2>2. \/ name' = name
        \/ /\ name[run[p].file] = None
           /\ name' = [name EXCEPT ![run[p].file] = Temp(run[p].file, p)]
    BY <2>1 DEF Link
  <2> QED
    BY <1>1, <1>2, <2>2 DEF Disk
<1>5. CASE \E p \in Pids : Repair(p)
  BY <1>1, <1>2, <1>5 DEF Repair, Disk
<1>6. CASE ClearDebt
  BY <1>1, <1>2, <1>6 DEF ClearDebt, Disk
<1>7. CASE PowerLoss
  <2>1. PICK image \in images : name' = [g \in Files |-> Survivor(image[g])] /\ images' = {name'}
    BY <1>7 DEF PowerLoss
  <2>2. name' = image
    BY <1>1, <2>1, PowerLossKeepsNames
  <2> QED
    BY <1>1, <2>2 DEF Disk, ImagesLag
<1>8. CASE UNCHANGED name
  BY <1>8
<1> QED
  BY <1>3, <1>4, <1>5, <1>6, <1>7, <1>8
     DEF Next, Writing, Promoting, vars, files, Begin, Create, Fill, SyncDir, Recover,
         SyncRepair, Decide, Unlink, FailStep, Kill

(* write_immutable: a release or record that is visible keeps its bytes,   *)
(* whichever processes write, fail or die around it.                       *)
THEOREM ImmutableFilesNeverChange == Spec => WriteOnce
<1>1. IInv /\ [Next]_vars
        => [\A f \in Immutable : name[f] # None /\ name'[f] # None => name'[f] = name[f]]_vars
  BY StepIsWriteOnce
<1> QED
  BY <1>1, FilesInvariant, PTL DEF Spec, WriteOnce

-----------------------------------------------------------------------------
(***************************************************************************)
(* What a disk with ordered names holds of the journal.  A record is       *)
(* linked after its release and after the records below it, so that what a *)
(* power loss leaves ends earlier but has no hole.                         *)
(***************************************************************************)

LEMMA SmallestIsThere ==
    ASSUME NEW set \in SUBSET Nat, set # {}
    PROVE  \E n \in set : \A m \in set : n <= m
<1>1. PICK n \in set : \A m \in set : ~(<<m, n>> \in OpToRel(<, Nat))
  BY NatLessThanWellFounded, WFMin
<1>2. \A m \in set : ~(m < n)
  BY <1>1 DEF OpToRel
<1> QED
  BY <1>2

(* The names of the journal and of the releases only become more.          *)
Grows(old, new) == \A f \in Immutable : old[f] # None => new[f] # None

LEMMA GrownJournal ==
    ASSUME NEW old, NEW new, Grows(old, new)
    PROVE  /\ Records(old) \subseteq Records(new)
           /\ \A d \in Docs : old[Release(d)] # None => new[Release(d)] # None
           /\ \A d : Recorded(d, old) => Recorded(d, new)
           /\ \A g : FilledBelow(g, old) => FilledBelow(g, new)
<1>1. Records(old) \subseteq Records(new)
  BY Paths DEF Grows, Records
<1>2. \A d \in Docs : old[Release(d)] # None => new[Release(d)] # None
  BY Paths DEF Grows
<1> QED
  BY <1>1, <1>2 DEF Recorded, FilledBelow

(* One run writes in order, given the names there are.                     *)
WriteSteps == {"create", "fill", "install", "syncDir", "unlink"}

Place(r, names) ==
    \/ r.file = Release(r.doc)
    \/ /\ names[Release(r.doc)] # None
       /\ \E g \in Generations : r.file = Record(g, r.doc) /\ FilledBelow(g, names)
    \/ r.file = Channel /\ Recorded(r.doc, names)
    \/ r.file = Debt /\ r.pc \in {"create", "fill", "install"}

Ordered(r, names) ==
    r.pc \in WriteSteps =>
        /\ Place(r, names)
        /\ r.file \in Immutable /\ r.pc \in {"syncDir", "unlink"} => names[r.file] # None

LEMMA OrderOfRuns ==
    /\ WritesInOrder <=> \A p \in Pids : Ordered(run[p], name)
    /\ WritesInOrder' <=> \A p \in Pids : Ordered(run'[p], name')
BY DEF WritesInOrder, Ordered, Place, WriteSteps

(* What is there when a run looks is there when it writes.                 *)
LEMMA OrderKeeps ==
    ASSUME NEW r, NEW old, NEW new, r.pc \in WriteSteps => r.doc \in Docs,
           Ordered(r, old), Grows(old, new)
    PROVE  Ordered(r, new)
<1> SUFFICES ASSUME r.pc \in WriteSteps
             PROVE  /\ Place(r, new)
                    /\ r.file \in Immutable /\ r.pc \in {"syncDir", "unlink"}
                          => new[r.file] # None
  BY DEF Ordered
<1>1. Place(r, new)
  BY GrownJournal DEF Ordered, Place
<1>2. r.file \in Immutable /\ r.pc \in {"syncDir", "unlink"} => new[r.file] # None
  BY DEF Ordered, Grows
<1> QED
  BY <1>1, <1>2

LEMMA OneRunMoves ==
    ASSUME Work, WritesInOrder, Grows(name, name'), NEW p \in Pids, NEW r,
           run' = [run EXCEPT ![p] = r], Ordered(r, name')
    PROVE  WritesInOrder'
<1> SUFFICES ASSUME NEW q \in Pids
             PROVE  Ordered(run'[q], name')
  BY OrderOfRuns
<1>1. CASE q = p
  BY <1>1 DEF Work
<1>2. CASE q # p
  <2>1. run'[q] = run[q]
    BY <1>2 DEF Work
  <2>2. run[q].pc \in WriteSteps => run[q].doc \in Docs
    BY DEF Work, TempsAreOwned, WriteSteps
  <2> QED
    BY <2>1, <2>2, OrderOfRuns, OrderKeeps
<1> QED
  BY <1>1, <1>2

(* A run that writes nothing has nothing to keep in order.                 *)
LEMMA Elsewhere ==
    ASSUME NEW r, NEW names, r.pc \notin WriteSteps
    PROVE  Ordered(r, names)
BY DEF Ordered

LEMMA EndInOrder ==
    ASSUME Work, WritesInOrder, Grows(name, name'), NEW p \in Pids, End(p)
    PROVE  WritesInOrder'
<1>1. Idle.pc \notin WriteSteps
  BY DEF Idle, WriteSteps
<1> QED
  BY <1>1, Elsewhere, OneRunMoves DEF End

(* Where a run stands when it moves on, and what it goes on writing.       *)
LEMMA GotoInOrder ==
    ASSUME Work, WritesInOrder, Grows(name, name'), NEW p \in Pids, NEW step \in Steps,
           Goto(p, step),
           Ordered([run[p] EXCEPT !.pc = step], name')
    PROVE  WritesInOrder'
BY OneRunMoves DEF Goto

LEMMA WriteNextInOrder ==
    ASSUME Work, WritesInOrder, Grows(name, name'), NEW p \in Pids, NEW f,
           WriteNext(p, f),
           Place([run[p] EXCEPT !.pc = "create", !.file = f], name')
    PROVE  WritesInOrder'
<1> DEFINE r == [run[p] EXCEPT !.pc = "create", !.file = f]
<1>1. r.pc = "create"
  BY DEF Work, Runs
<1>2. Ordered(r, name')
  BY <1>1 DEF Ordered
<1> QED
  BY <1>2, OneRunMoves DEF WriteNext

(* The names and the images.                                               *)
Holds(image, answers) ==
    /\ \A r \in Records(image) : image[Release(r[2])] # None /\ FilledBelow(r[1], image)
    /\ \A a \in answers : a.status = "promoted" => Recorded(a.doc, image)

Journal == Holds(name, acked) /\ \A image \in images : Holds(image, acked)

LEMMA JournalParts ==
    /\ JournalIInv <=> Journal /\ WritesInOrder
    /\ JournalIInv' <=> Holds(name', acked') /\ (\A image \in images' : Holds(image, acked'))
                        /\ WritesInOrder'
BY DEF JournalIInv, Journal, InOrder, Holds

(* An answer that names no new record takes nothing from what holds.       *)
NothingNew(answers) == \A a \in answers : a \in acked \/ a.status # "promoted"

LEMMA HoldsStill ==
    ASSUME NEW image, NEW answers, Holds(image, acked), NothingNew(answers)
    PROVE  Holds(image, answers)
BY DEF Holds, NothingNew

LEMMA JournalStays ==
    ASSUME JournalIInv, UNCHANGED <<name, images>>, NothingNew(acked'), WritesInOrder'
    PROVE  JournalIInv'
BY JournalParts, HoldsStill DEF Journal

(* The names take one step on from what was, or what was is synced.        *)
LEMMA JournalMoves ==
    ASSUME JournalIInv, UNCHANGED acked, images' \subseteq images \union {name'},
           Holds(name', acked), WritesInOrder'
    PROVE  JournalIInv'
BY JournalParts DEF Journal

(* Other names say nothing of the journal.                                 *)
SameNames == \A f \in Immutable : name'[f] = name[f]

LEMMA SameJournal ==
    ASSUME SameNames
    PROVE  /\ Grows(name, name')
           /\ \A answers : Holds(name, answers) => Holds(name', answers)
<1>1. Records(name') = Records(name)
  BY Paths DEF SameNames, Records
<1>2. \A d \in Docs : name'[Release(d)] = name[Release(d)]
  BY Paths DEF SameNames
<1>3. \A r \in Records(name) : r[2] \in Docs
  BY DEF Records
<1>4. Grows(name, name')
  BY DEF SameNames, Grows
<1> QED
  BY <1>1, <1>2, <1>3, <1>4 DEF Holds, FilledBelow, Recorded

LEMMA NoneIsNoContent == None \notin Content /\ Linked \notin Content
BY ContentAssumption

-----------------------------------------------------------------------------
(* What stays where it is in the journal.                                  *)
LEMMA JournalInit ==
    ASSUME Init
    PROVE  JournalIInv
<1>1. Records(name) = {}
  BY Paths DEF Init, Records
<1>2. images = {name} /\ acked = {}
  BY DEF Init
<1>3. Journal
  BY <1>1, <1>2 DEF Journal, Holds
<1>4. WritesInOrder
  BY OrderOfRuns, Elsewhere DEF Init, Idle, WriteSteps
<1> QED
  BY <1>3, <1>4, JournalParts

LEMMA JournalCreate ==
    ASSUME IInv, JournalIInv, NEW p \in Pids, Create(p) \/ Fill(p)
    PROVE  JournalIInv'
<1>1. Work /\ WritesInOrder
  BY Parts, JournalParts
<1>2. UNCHANGED <<name, images, acked>>
  BY DEF Create, Fill
<1>3. Grows(name, name') /\ NothingNew(acked')
  BY <1>2 DEF Grows, NothingNew
<1>4. run[p] \in Runs /\ Ordered(run[p], name') /\ run[p].pc \in {"create", "fill"}
  BY <1>1, <1>2, OrderOfRuns DEF Work, Create, Fill
<1>5. ASSUME NEW step \in {"fill", "install"}
      PROVE  Ordered([run[p] EXCEPT !.pc = step], name')
  BY <1>4 DEF Ordered, Place, WriteSteps, Runs
<1>6. WritesInOrder'
  BY <1>1, <1>3, <1>5, EndInOrder, GotoInOrder DEF Create, Fill, Steps
<1> QED
  BY <1>2, <1>3, <1>6, JournalStays

LEMMA JournalBegin ==
    ASSUME IInv, JournalIInv, NEW p \in Pids, Begin(p)
    PROVE  JournalIInv'
<1>1. Work /\ WritesInOrder
  BY Parts, JournalParts
<1>2. UNCHANGED <<name, images, acked>>
  BY DEF Begin, files
<1>3. Grows(name, name') /\ NothingNew(acked')
  BY <1>2 DEF Grows, NothingNew
<1>4. \/ \E d \in Docs, job \in Jobs : run' = [run EXCEPT ![p] =
            [pc |-> "recover", job |-> job, doc |-> d, file |-> None]]
      \/ \E d \in Docs : run' = [run EXCEPT ![p] =
            [pc |-> "create", job |-> "debt", doc |-> d, file |-> Debt]]
  BY DEF Begin
<1>5. ASSUME NEW d \in Docs, NEW job \in Jobs
      PROVE  /\ Ordered([pc |-> "recover", job |-> job, doc |-> d, file |-> None], name')
             /\ Ordered([pc |-> "create", job |-> "debt", doc |-> d, file |-> Debt], name')
  BY DEF Ordered, Place, WriteSteps
<1>6. ASSUME NEW d \in Docs
      PROVE  Ordered([pc |-> "create", job |-> "debt", doc |-> d, file |-> Debt], name')
  BY DEF Ordered, Place, WriteSteps
<1>7. WritesInOrder'
  BY <1>1, <1>3, <1>4, <1>5, <1>6, OneRunMoves
<1> QED
  BY <1>2, <1>3, <1>7, JournalStays

LEMMA JournalRecover ==
    ASSUME IInv, JournalIInv, NEW p \in Pids, Recover(p)
    PROVE  JournalIInv'
<1>1. Work /\ WritesInOrder /\ run[p] \in Runs
  BY Parts, JournalParts DEF Work
<1>2. UNCHANGED <<name, images, acked>>
  BY DEF Recover, files
<1>3. Grows(name, name') /\ NothingNew(acked')
  BY <1>2 DEF Grows, NothingNew
<1>4. \/ End(p) \/ Goto(p, "decide")
      \/ \E d \in Docs : run' = [run EXCEPT ![p] = [@ EXCEPT !.pc = "repair", !.file = Release(d)]]
  BY DEF Recover, Newest
<1>5. CASE Goto(p, "decide")
  <2>1. Ordered([run[p] EXCEPT !.pc = "decide"], name')
    BY <1>1, Elsewhere DEF Runs, WriteSteps
  <2> QED
    BY <1>1, <1>2, <1>3, <1>5, <2>1, GotoInOrder, JournalStays DEF Steps
<1>6. ASSUME NEW d \in Docs,
             run' = [run EXCEPT ![p] = [@ EXCEPT !.pc = "repair", !.file = Release(d)]]
      PROVE  WritesInOrder'
  <2> DEFINE r == [run[p] EXCEPT !.pc = "repair", !.file = Release(d)]
  <2>1. run' = [run EXCEPT ![p] = r] /\ r.pc \notin WriteSteps
    BY <1>1, <1>6 DEF Runs, WriteSteps
  <2> HIDE DEF r
  <2>2. Ordered(r, name')
    BY <2>1, Elsewhere
  <2> QED
    BY <1>1, <1>3, <2>1, <2>2, OneRunMoves
<1>7. CASE End(p)
  BY <1>1, <1>2, <1>3, <1>7, EndInOrder, JournalStays
<1> QED
  BY <1>2, <1>3, <1>4, <1>5, <1>6, <1>7, JournalStays

LEMMA JournalStops ==
    ASSUME IInv, JournalIInv, NEW p \in Pids, FailStep(p) \/ Kill(p)
    PROVE  JournalIInv'
<1>1. Work /\ WritesInOrder
  BY Parts, JournalParts
<1>2. UNCHANGED <<name, images, acked>> /\ End(p)
  BY DEF FailStep, Kill, files
<1>3. Grows(name, name') /\ NothingNew(acked')
  BY <1>2 DEF Grows, NothingNew
<1> QED
  BY <1>1, <1>2, <1>3, EndInOrder, JournalStays

(* The channel and the debt are names of neither releases nor records.     *)
LEMMA JournalRepair ==
    ASSUME Journaled, IInv, JournalIInv, NEW p \in Pids, Repair(p) \/ SyncRepair(p)
    PROVE  JournalIInv'
<1>1. Disk /\ Work /\ Journal /\ WritesInOrder /\ run[p] \in Runs
  BY Parts, JournalParts DEF Work
<1>2. SameNames
  BY <1>1, Paths DEF Repair, SyncRepair, SameNames, Disk
<1>3. Grows(name, name') /\ Holds(name', acked)
  BY <1>1, <1>2, SameJournal DEF Journal
<1>4. images' \subseteq images \union {name'} /\ acked' = acked
  BY DEF Repair, SyncRepair, Renamed, SyncedNames
<1>5. ASSUME NEW step \in {"syncRepair", "decide"}
      PROVE  Ordered([run[p] EXCEPT !.pc = step], name')
  BY <1>1, Elsewhere DEF Runs, WriteSteps
<1>6. WritesInOrder'
  BY <1>1, <1>3, <1>5, GotoInOrder DEF Repair, SyncRepair, Steps
<1> QED
  BY <1>3, <1>4, <1>6, JournalMoves

LEMMA JournalClearDebt ==
    ASSUME Journaled, IInv, JournalIInv, ClearDebt
    PROVE  JournalIInv'
<1>1. Disk /\ Work /\ Journal /\ WritesInOrder
  BY Parts, JournalParts
<1>2. SameNames
  BY <1>1, Paths DEF ClearDebt, SameNames, Disk
<1>3. Grows(name, name') /\ Holds(name', acked)
  BY <1>1, <1>2, SameJournal DEF Journal
<1>4. images' \subseteq images \union {name'} /\ acked' = acked /\ run' = run
  BY DEF ClearDebt, Renamed
<1>5. \A q \in Pids : run[q].pc \in WriteSteps => run[q].doc \in Docs
  BY <1>1 DEF Work, TempsAreOwned, WriteSteps
<1>6. WritesInOrder'
  BY <1>1, <1>3, <1>4, <1>5, OrderOfRuns, OrderKeeps
<1> QED
  BY <1>3, <1>4, <1>6, JournalMoves

(* Nobody writes after a power loss, and what was lost was lost in order.  *)
LEMMA JournalPowerLoss ==
    ASSUME IInv, JournalIInv, PowerLoss
    PROVE  JournalIInv'
<1>1. Disk /\ Journal
  BY Parts, JournalParts
<1>2. PICK image \in images : name' = [f \in Files |-> Survivor(image[f])] /\ images' = {name'}
  BY DEF PowerLoss
<1>3. name' = image
  BY <1>1, <1>2, PowerLossKeepsNames
<1>4. acked' = acked /\ \A p \in Pids : run'[p] = Idle
  BY DEF PowerLoss
<1>5. WritesInOrder'
  BY <1>4, OrderOfRuns, Elsewhere DEF Idle, WriteSteps
<1>6. Holds(name', acked)
  BY <1>1, <1>3 DEF Journal
<1> QED
  BY <1>2, <1>4, <1>5, <1>6, JournalMoves

-----------------------------------------------------------------------------
(* The writes.                                                             *)
LEMMA JournalReplace ==
    ASSUME Journaled, IInv, JournalIInv, NEW p \in Pids, Replace(p)
    PROVE  JournalIInv'
<1> DEFINE f == run[p].file
<1>1. Disk /\ Work /\ Journal /\ WritesInOrder /\ run[p] \in Runs
  BY Parts, JournalParts DEF Work
<1>2. f \in Files /\ f \notin Immutable
  BY <1>1 DEF Replace, Work, TempsAreOwned
<1>3. SameNames
  BY <1>1, <1>2, Paths DEF Replace, SameNames, Disk
<1>4. Grows(name, name') /\ Holds(name', acked)
  BY <1>1, <1>3, SameJournal DEF Journal
<1>5. images' \subseteq images \union {name'} /\ acked' = acked
  BY DEF Replace, Renamed
<1>6. CASE End(p)
  BY <1>1, <1>4, <1>5, <1>6, EndInOrder, JournalMoves
<1>7. CASE f # Debt /\ Goto(p, "syncDir")
  <2>1. run[p].pc \in WriteSteps /\ Place(run[p], name) /\ run[p].doc \in Docs
    BY <1>1, OrderOfRuns DEF Replace, Ordered, WriteSteps, Work, TempsAreOwned
  <2>2. f = Channel /\ Recorded(run[p].doc, name)
    BY <1>2, <1>7, <2>1, Paths DEF Place
  <2>3. Recorded(run[p].doc, name')
    BY <1>4, <2>2, GrownJournal
  <2>4. Ordered([run[p] EXCEPT !.pc = "syncDir"], name')
    BY <1>1, <2>2, <2>3, Paths DEF Ordered, Place, Runs
  <2>5. WritesInOrder'
    BY <1>1, <1>4, <1>7, <2>4, GotoInOrder DEF Steps
  <2> QED
    BY <1>4, <1>5, <2>5, JournalMoves
<1> QED
  BY <1>6, <1>7 DEF Replace

(***************************************************************************)
(* A release is linked, or a record: the release of the record is there,   *)
(* and so are the records below it, since the run read them.               *)
(***************************************************************************)
LEMMA JournalLink ==
    ASSUME Journaled, IInv, JournalIInv, NEW p \in Pids, Link(p)
    PROVE  JournalIInv'
<1> DEFINE f == run[p].file
           d == run[p].doc
<1>1. Disk /\ Work /\ Journal /\ WritesInOrder /\ run[p] \in Runs
  BY Parts, JournalParts DEF Work
<1>2. f \in Files /\ f \in Immutable /\ d \in Docs /\ Temp(f, p) # None
  BY <1>1, NoneIsNoContent DEF Link, Work, TempsAreOwned, Temp, TempName
<1>3. Ordered(run[p], name) /\ run[p].pc = "install"
  BY <1>1, OrderOfRuns DEF Link
<1>4. \/ f = Release(d)
      \/ /\ name[Release(d)] # None
         /\ \E g \in Generations : f = Record(g, d) /\ FilledBelow(g, name)
  BY <1>2, <1>3, Paths DEF Ordered, Place, WriteSteps
<1>5. CASE name[f] # None
  <2>1. UNCHANGED <<name, images, acked>> /\ End(p)
    BY <1>5 DEF Link
  <2>2. Grows(name, name') /\ NothingNew(acked')
    BY <2>1 DEF Grows, NothingNew
  <2> QED
    BY <1>1, <2>1, <2>2, EndInOrder, JournalStays
<1>6. CASE name[f] = None
  <2>1. /\ name' = [name EXCEPT ![f] = Temp(f, p)]
        /\ images' = images \union Renamed(f, Temp(f, p))
        /\ Goto(p, "syncDir") /\ acked' = acked
    BY <1>6 DEF Link
  <2>2. name'[f] # None /\ \A h \in Files \ {f} : name'[h] = name[h]
    BY <1>1, <1>2, <2>1 DEF Disk
  <2>3. Grows(name, name')
    BY <2>2, Paths DEF Grows
  <2>4. images' \subseteq images \union {name'}
    BY <2>1 DEF Renamed
  <2>5. ASSUME NEW r \in Records(name')
        PROVE  name'[Release(r[2])] # None /\ FilledBelow(r[1], name')
    <3>1. CASE r \in Records(name)
      <4>1. r[2] \in Docs /\ name[Release(r[2])] # None /\ FilledBelow(r[1], name)
        BY <1>1, <3>1 DEF Journal, Holds, Records
      <4> QED
        BY <2>3, <4>1, GrownJournal
    <3>2. CASE r \notin Records(name)
      <4>1. r \in Generations \X Docs /\ Record(r[1], r[2]) = f
        BY <2>2, <3>2, Paths DEF Records
      <4>2. PICK g \in Generations : f = Record(g, d) /\ FilledBelow(g, name)
        BY <1>4, <4>1 DEF Release, Record
      <4>3. r[1] = g /\ r[2] = d
        BY <4>1, <4>2 DEF Record
      <4>4. name[Release(d)] # None
        BY <1>4, <4>2 DEF Release, Record
      <4> QED
        BY <1>2, <2>3, <4>2, <4>3, <4>4, GrownJournal
    <3> QED
      BY <3>1, <3>2
  <2>6. Holds(name', acked)
    <3>1. \A a \in acked : a.status = "promoted" => Recorded(a.doc, name')
      BY <1>1, <2>3, GrownJournal DEF Journal, Holds
    <3> QED
      BY <2>5, <3>1 DEF Holds
  <2>7. Place(run[p], name')
    BY <1>2, <1>4, <2>3, GrownJournal DEF Place
  <2>8. Ordered([run[p] EXCEPT !.pc = "syncDir"], name')
    <3>1. Place([run[p] EXCEPT !.pc = "syncDir"], name')
      BY <1>1, <1>2, <2>7, Paths DEF Place, Runs
    <3> QED
      BY <1>1, <2>2, <3>1 DEF Ordered, Runs
  <2>9. WritesInOrder'
    BY <1>1, <2>1, <2>3, <2>8, GotoInOrder DEF Steps
  <2> QED
    BY <2>1, <2>4, <2>6, <2>9, JournalMoves
<1> QED
  BY <1>5, <1>6

(* A promotion is reported once its record cannot be lost any more.        *)
LEMMA JournalSyncDir ==
    ASSUME Journaled, IInv, JournalIInv, NEW p \in Pids, SyncDir(p)
    PROVE  JournalIInv'
<1> DEFINE f == run[p].file
           d == run[p].doc
<1>1. Disk /\ Work /\ Journal /\ WritesInOrder /\ run[p] \in Runs
  BY Parts, JournalParts DEF Work
<1>2. /\ Ordered(run[p], name) /\ run[p].pc = "syncDir"
      /\ f \in Files /\ d \in Docs
  BY <1>1, OrderOfRuns DEF SyncDir, Work, TempsAreOwned
<1>3. name' = name /\ images' = {name}
  BY DEF SyncDir, SyncedNames
<1>4. Grows(name, name')
  BY <1>3 DEF Grows
<1>5. CASE f \in Immutable
  <2>1. Goto(p, "unlink") /\ acked' = acked
    BY <1>5 DEF SyncDir, Installed
  <2>2. Ordered([run[p] EXCEPT !.pc = "unlink"], name')
    BY <1>1, <1>2, <1>3 DEF Ordered, Place, Runs, WriteSteps
  <2>3. WritesInOrder'
    BY <1>1, <1>4, <2>1, <2>2, GotoInOrder DEF Steps
  <2> QED
    BY <1>1, <1>3, <2>1, <2>3, JournalMoves DEF Journal
<1>6. CASE f \notin Immutable
  <2>1. End(p) /\ acked' = acked \union {[doc |-> d, status |-> "promoted"]}
    BY <1>6 DEF SyncDir, Installed
  <2>2. Recorded(d, name)
    BY <1>2, <1>6, Paths DEF Ordered, Place, WriteSteps
  <2>3. Holds(name, acked')
    BY <1>1, <2>1, <2>2 DEF Journal, Holds
  <2>4. WritesInOrder'
    BY <1>1, <1>4, <2>1, EndInOrder
  <2> QED
    BY <1>3, <2>3, <2>4, JournalParts
<1> QED
  BY <1>5, <1>6

(***************************************************************************)
(* The newest generation there is a record of, or none.                    *)
(***************************************************************************)
LEMMA LatestIsNewest ==
    ASSUME NEW image
    PROVE  /\ Latest(image) \in 0..MaxGenerations
           /\ Latest(image) # 0 => \E d \in Docs : <<Latest(image), d>> \in Records(image)
           /\ \A r \in Records(image) : r[1] <= Latest(image)
<1> DEFINE set == {0} \union {r[1] : r \in Records(image)}
           above == {n \in Nat : \A m \in set : m <= n}
<1>1. set \subseteq 0..MaxGenerations /\ 0 \in set
  BY BoundsAssumption DEF Records, Generations
<1>2. MaxGenerations \in above
  BY <1>1, BoundsAssumption
<1>3. PICK n \in above : \A m \in above : n <= m
  BY <1>2, SmallestIsThere
<1>4. n \in set
  <2> SUFFICES ASSUME n \notin set
               PROVE  FALSE
    OBVIOUS
  <2>1. n - 1 \in above
    <3>1. \A m \in set : m <= n /\ m # n /\ m \in Int
      BY <1>1, <1>3
    <3>2. n \in Nat /\ n # 0
      BY <1>1, <1>3
    <3> QED
      BY <3>1, <3>2
  <2> QED
    BY <1>3, <2>1
<1>5. \A m \in set : n >= m
  BY <1>1, <1>3
<1>6. Latest(image) \in set /\ \A m \in set : Latest(image) >= m
  BY <1>4, <1>5, Zenon DEF Latest, Max
<1> QED
  BY <1>1, <1>6 DEF Records

LEMMA ChainFillsBelow ==
    ASSUME NEW image, IsChain(image)
    PROVE  FilledBelow(Latest(image) + 1, image)
<1>1. Latest(image) \in Nat
  BY LatestIsNewest, BoundsAssumption
<1>2. 1..((Latest(image) + 1) - 1) = 1..Latest(image)
  BY <1>1
<1> QED
  BY <1>2 DEF FilledBelow, IsChain

(* The record that comes next, once the release is there.                  *)
LEMMA WriteRecordInOrder ==
    ASSUME Work, WritesInOrder, UNCHANGED name, NEW p \in Pids,
           WriteRecord(p), run[p].doc \in Docs, name[Release(run[p].doc)] # None
    PROVE  WritesInOrder'
<1> DEFINE d == run[p].doc
           g == Latest(name) + 1
           r == [run[p] EXCEPT !.pc = "create", !.file = Record(g, d)]
<1>1. Grows(name, name')
  BY DEF Grows
<1>2. CASE End(p)
  BY <1>1, <1>2, EndInOrder
<1>3. CASE IsChain(name) /\ g \in Generations /\ WriteNext(p, Record(g, d))
  <2>1. FilledBelow(g, name)
    BY <1>3, ChainFillsBelow
  <2>2. r.doc = d /\ r.file = Record(g, d)
    BY DEF Work, Runs
  <2>3. Place(r, name')
    BY <1>3, <2>1, <2>2 DEF Place
  <2> QED
    BY <1>1, <1>3, <2>3, WriteNextInOrder
<1> QED
  BY <1>2, <1>3 DEF WriteRecord

LEMMA JournalDecide ==
    ASSUME IInv, JournalIInv, NEW p \in Pids, Decide(p)
    PROVE  JournalIInv'
<1> DEFINE d == run[p].doc
<1>1. Work /\ WritesInOrder /\ run[p] \in Runs /\ d \in Docs
  BY Parts, JournalParts DEF Work, Decide, TempsAreOwned
<1>2. UNCHANGED <<name, images>> /\ Grows(name, name')
  BY DEF Decide, files, Grows
<1>3. NothingNew(acked')
  BY DEF Decide, NothingNew
<1>4. CASE End(p)
  BY <1>1, <1>2, <1>3, <1>4, EndInOrder, JournalStays
<1>5. CASE WriteNext(p, Release(d))
  <2>1. Place([run[p] EXCEPT !.pc = "create", !.file = Release(d)], name')
    BY <1>1 DEF Place, Runs
  <2> QED
    BY <1>1, <1>2, <1>3, <1>5, <2>1, WriteNextInOrder, JournalStays
<1>6. CASE name[Release(d)] # None /\ WriteRecord(p)
  BY <1>1, <1>2, <1>3, <1>6, WriteRecordInOrder, JournalStays
<1> QED
  BY <1>4, <1>5, <1>6 DEF Decide

(* The record follows its release, and the channel its record.             *)
LEMMA JournalUnlink ==
    ASSUME IInv, JournalIInv, NEW p \in Pids, Unlink(p)
    PROVE  JournalIInv'
<1> DEFINE f == run[p].file
           d == run[p].doc
<1>1. Work /\ WritesInOrder /\ run[p] \in Runs /\ d \in Docs
  BY Parts, JournalParts DEF Work, Unlink, TempsAreOwned
<1>2. UNCHANGED <<name, images, acked>>
  BY DEF Unlink
<1>3. Grows(name, name') /\ NothingNew(acked')
  BY <1>2 DEF Grows, NothingNew
<1>4. run[p].pc = "unlink" /\ Ordered(run[p], name)
  BY <1>1, OrderOfRuns DEF Unlink
<1>5. CASE f[1] = "releases" /\ WriteRecord(p)
  <2>1. f = Release(d) /\ f \in Immutable
    BY <1>1, <1>4, <1>5, Paths DEF Ordered, Place, WriteSteps, Record, Channel
  <2>2. name[Release(d)] # None
    BY <1>4, <2>1 DEF Ordered, WriteSteps
  <2> QED
    BY <1>1, <1>2, <1>3, <1>5, <2>2, WriteRecordInOrder, JournalStays
<1>6. CASE f[1] # "releases" /\ WriteNext(p, Channel)
  <2>1. Recorded(d, name)
    <3>1. Place(run[p], name)
      BY <1>4 DEF Ordered, WriteSteps
    <3>2. CASE f = Channel /\ Recorded(d, name)
      BY <3>2
    <3>3. ASSUME NEW g \in Generations, f = Record(g, d)
          PROVE  Recorded(d, name)
      <4>1. f \in Immutable
        BY <1>1, <3>3, Paths
      <4>2. name[Record(g, d)] # None
        BY <1>4, <3>3, <4>1 DEF Ordered, WriteSteps
      <4> QED
        BY <1>1, <4>2 DEF Recorded, Records
    <3> QED
      BY <1>4, <1>6, <3>1, <3>2, <3>3 DEF Place, Release
  <2>2. Place([run[p] EXCEPT !.pc = "create", !.file = Channel], name')
    BY <1>1, <1>2, <2>1 DEF Place, Runs
  <2> QED
    BY <1>1, <1>2, <1>3, <1>6, <2>2, WriteNextInOrder, JournalStays
<1> QED
  BY <1>5, <1>6 DEF Unlink

LEMMA JournalNext ==
    ASSUME Journaled, IInv, JournalIInv, [Next]_vars
    PROVE  JournalIInv'
<1>1. CASE UNCHANGED vars
  <2>1. UNCHANGED <<name, images, run, acked>>
    BY <1>1 DEF vars, files
  <2>2. WritesInOrder'
    BY <2>1, OrderOfRuns, JournalParts
  <2> QED
    BY <2>1, <2>2, JournalStays DEF NothingNew
<1>2. CASE Next
  BY <1>2, JournalCreate, JournalReplace, JournalLink, JournalSyncDir, JournalBegin,
     JournalRecover, JournalRepair, JournalDecide, JournalUnlink, JournalClearDebt,
     JournalStops, JournalPowerLoss
     DEF Next, Writing, Promoting
<1> QED
  BY <1>1, <1>2

(***************************************************************************)
(* On a file system that makes names durable in order, every image of the  *)
(* disk has its records without a hole, with their releases, and with one  *)
(* for each promotion that was reported (release.rs, promote).             *)
(***************************************************************************)
THEOREM JournalInvariant ==
    ASSUME Journaled
    PROVE  Spec => []JournalIInv
<1>1. Init => JournalIInv
  BY JournalInit
<1>2. IInv /\ JournalIInv /\ [Next]_vars => JournalIInv'
  BY JournalNext
<1> QED
  BY <1>1, <1>2, FilesInvariant, PTL DEF Spec

(* What is left of a chain is one, if it has no hole.                      *)
LEMMA ImageIsChain ==
    ASSUME Disk, NEW image \in images, IsChain(name),
           \A r \in Records(image) : FilledBelow(r[1], image)
    PROVE  IsChain(image)
<1>1. Records(image) \subseteq Records(name)
  BY Paths DEF Disk, ImagesLag, Records
<1>2. Latest(image) \in Nat /\ Latest(name) \in Nat
  BY LatestIsNewest, BoundsAssumption
<1>3. ASSUME NEW g \in 1..Latest(image)
      PROVE  \E d \in Docs : {r \in Records(image) : r[1] = g} = {<<g, d>>}
  <2>1. PICK newest \in Docs : <<Latest(image), newest>> \in Records(image)
    BY <1>2, <1>3, LatestIsNewest
  <2>2. PICK d \in Docs : <<g, d>> \in Records(image)
    <3>1. CASE g = Latest(image)
      BY <2>1, <3>1
    <3>2. CASE g # Latest(image)
      <4>1. g \in 1..(Latest(image) - 1)
        BY <1>2, <1>3, <3>2
      <4> QED
        BY <2>1, <4>1 DEF FilledBelow
    <3> QED
      BY <3>1, <3>2
  <2>3. g \in 1..Latest(name)
    <3>1. g <= Latest(name)
      BY <1>1, <2>2, LatestIsNewest
    <3> QED
      BY <1>2, <1>3, <3>1
  <2>4. PICK e \in Docs : {r \in Records(name) : r[1] = g} = {<<g, e>>}
    BY <2>3 DEF IsChain
  <2>5. {r \in Records(image) : r[1] = g} \subseteq {<<g, e>>}
    BY <1>1, <2>4
  <2> QED
    BY <2>2, <2>5
<1> QED
  BY <1>3 DEF IsChain

(***************************************************************************)
(* "The immutable release and journal are sufficient for recovery": what a *)
(* power loss leaves of a chain is a chain, each record with its release,  *)
(* and has the record of every promotion that was reported (write_         *)
(* immutable and sync_dir, in the order promote calls them), for any       *)
(* number of promoters, with the lock or without it.                       *)
(***************************************************************************)
THEOREM JournalSurvivesPowerLoss ==
    ASSUME Journaled
    PROVE  Spec => []JournalSurvives
<1>1. IInv /\ JournalIInv => JournalSurvives
  <2> SUFFICES ASSUME IInv, JournalIInv, IsChain(name), NEW image \in images
               PROVE  /\ Recoverable(image)
                      /\ \A a \in acked : a.status = "promoted" => Recorded(a.doc, image)
    BY DEF JournalSurvives
  <2>1. Disk /\ Holds(image, acked)
    BY Parts, JournalParts DEF Journal
  <2>2. IsChain(image)
    BY <2>1, ImageIsChain DEF Holds
  <2> QED
    BY <2>1, <2>2 DEF Holds, Recoverable
<1> QED
  BY <1>1, FilesInvariant, JournalInvariant, PTL
=============================================================================
