---------------------- MODULE WorkspaceActionsProofs ----------------------
(***************************************************************************)
(* Safety of workspace actions, for every set of files and runs, every     *)
(* retention and any number of attempts, waiting calls, failed writes and  *)
(* crashes.                                                                *)
(*                                                                         *)
(* The inductive invariant adds to the properties what the calls that wait *)
(* for a model rely on (CallsKnown), where the contents a restore would    *)
(* bring back come from (BackupsLanded), and that the backups a promoted   *)
(* run has of the files it names once are what its promotion replaced      *)
(* (BackupsAreReplaced).                                                   *)
(***************************************************************************)
EXTENDS WorkspaceActions, FiniteSetTheorems, WellFoundedInduction, TLAPS

Plain == {Original, Edited, Torn, Absent}

\* Memory, disk and the shadows have a place for every run.
Shapes ==
    /\ runs = [r \in Runs |-> runs[r]] /\ stored = [r \in Runs |-> stored[r]]
    /\ shadows = [r \in Runs |-> shadows[r]] /\ replaced = [r \in Runs |-> replaced[r]]

Typed == TypeOK /\ Shapes

\* A run that a call waits for is known, one that is answered has questions, one that was
\* measured has none; what is on disk is known.
CallsKnown ==
    \A r \in Runs :
        /\ repairing[r] > 0 => Known(r)
        /\ answering[r] > 0 => Known(r) /\ runs[r].questions
        /\ shadows[r] # None => Known(r) /\ ~runs[r].questions
        /\ stored[r] # None => Known(r)

\* What a record keeps to restore was in the workspace.
Landed(r, record) ==
    record # None =>
        /\ record.status = "PROMOTED" => record.backups # None
        /\ record.backups # None => \A i \in Steps(r) : record.backups[i] \in approved \cup Plain

BackupsLanded == \A r \in Runs : Landed(r, runs[r]) /\ Landed(r, stored[r])

\* The backups of the files that run r names once are what those files held.
Captured(r, backups, before) ==
    \A i \in Steps(r) :
        RunFiles[r][i] \in NamedOnce(r) => backups[i] = before[RunFiles[r][i]]

BackupsAreReplaced ==
    \A r \in Runs \ unsaved :
        Known(r) /\ Status(r) = "PROMOTED" => Captured(r, runs[r].backups, replaced[r])

ActionsInv ==
    /\ Typed /\ CallsKnown /\ BackupsLanded /\ BackupsAreReplaced
    /\ ShadowIsTheCurrentAttempt /\ OnlyApprovedBytesLand /\ DiskAgreesWithMemory

----------------------------------------------------------------------------
(* What is left alone and what is written                                  *)

\* Run q is left alone, but that its file may be pruned and its shadow dropped.
Left(q) ==
    /\ runs'[q] = runs[q] /\ replaced'[q] = replaced[q] /\ (q \in unsaved' <=> q \in unsaved)
    /\ \/ stored'[q] = stored[q]
       \/ stored'[q] = None /\ (Known(q) => Status(q) \notin Waiting)
    /\ shadows'[q] \in {shadows[q], None}

\* Run q has a new record: saved, unless its write failed.
Written(q) ==
    /\ runs'[q] \in RunRecord(q) /\ q <= planned'
    /\ Known(q) => runs'[q].questions = runs[q].questions
    /\ stored'[q] \in {runs'[q], stored[q], None}
    /\ q \notin unsaved' => \/ stored'[q] = runs'[q]
                            \/ stored'[q] = None /\ runs'[q].status \notin Waiting
    /\ \/ shadows'[q] = None
       \/ /\ shadows'[q] = runs'[q].contents /\ runs'[q].status = "MEASURED"
          /\ ~runs'[q].questions
    /\ replaced'[q] \in [FilesOf(q) -> Content] \cup {None}
    /\ Landed(q, runs[q])'
    /\ runs'[q].status = "PROMOTED" => Captured(q, runs'[q].backups, replaced'[q])

\* Nothing lands that was not approved.
FilesKept ==
    /\ workspace' \in [Files -> Content]
    /\ \A f \in Files : workspace'[f] \in approved' \cup Plain
    /\ approved \subseteq approved' /\ approved' \subseteq Content

\* Calls wait only for runs they may wait for.
CallsKept ==
    /\ repairing' \in [Runs -> 0..MaxCalls] /\ answering' \in [Runs -> 0..MaxCalls]
    /\ \A q \in Runs :
         /\ repairing'[q] > 0 => Known(q)
         /\ answering'[q] > 0 => Known(q) /\ runs[q].questions

BooksKept ==
    /\ planned' \in 0..MaxRuns /\ planned <= planned' /\ rejected' \subseteq Runs
    /\ shadows' = [r \in Runs |-> shadows'[r]] /\ replaced' = [r \in Runs |-> replaced'[r]]

Surroundings == FilesKept /\ CallsKept /\ BooksKept

\* Memory and disk keep their form.
Stored ==
    /\ runs' = [q \in Runs |-> runs'[q]] /\ stored' = [q \in Runs |-> stored'[q]]
    /\ faults' \in 0..MaxFaults /\ unsaved' \subseteq Runs

\* Facts about the constants.
LEMMA ConstantFacts ==
    /\ MaxRuns \in Nat /\ MaxFaults \in Nat /\ MaxCalls \in Nat /\ Runs \subseteq Nat
    /\ \A r \in Runs : /\ FilesOf(r) \subseteq Files
                       /\ None \notin RunRecord(r) /\ None \notin [FilesOf(r) -> Content]
                       /\ None \notin [Steps(r) -> Content]
    /\ Plain \subseteq Content
<1>1. \A r \in Runs : FilesOf(r) \subseteq Files
  BY ActionConstants DEF FilesOf, Steps
<1> QED
  BY <1>1, ActionConstants DEF Runs, Plain, Content

\* If every run is left alone or written, the invariant is kept.
LEMMA RunsKeepInv ==
    ASSUME ActionsInv, Surroundings, Stored, \A q \in Runs : Left(q) \/ Written(q)
    PROVE  ActionsInv'
<1> USE DEF ActionsInv, Surroundings
<1>1. ASSUME NEW q \in Runs
      PROVE  /\ runs'[q] \in RunRecord(q) \cup {None}
             /\ stored'[q] \in RunRecord(q) \cup {None}
             /\ shadows'[q] \in [FilesOf(q) -> Content] \cup {None}
             /\ replaced'[q] \in [FilesOf(q) -> Content] \cup {None}
             /\ q > planned' => runs'[q] = None /\ stored'[q] = None
  <2>1. /\ runs[q] \in RunRecord(q) \cup {None} /\ stored[q] \in RunRecord(q) \cup {None}
        /\ shadows[q] \in [FilesOf(q) -> Content] \cup {None}
        /\ replaced[q] \in [FilesOf(q) -> Content] \cup {None}
        /\ q > planned => runs[q] = None /\ stored[q] = None
        /\ planned \in Nat /\ planned' \in Nat /\ planned <= planned' /\ q \in Nat
    BY ConstantFacts DEF Typed, TypeOK, BooksKept
  <2>2. CASE Left(q)
    BY <2>1, <2>2 DEF Left
  <2>3. CASE Written(q)
    <3>1. runs'[q].contents \in [FilesOf(q) -> Content]
      BY <2>3 DEF Written, RunRecord
    <3> QED
      BY <2>1, <2>3, <3>1 DEF Written
  <2> QED
    BY <2>2, <2>3
<1>2. Typed'
  BY <1>1, Zenon DEF Typed, TypeOK, Shapes, FilesKept, CallsKept, BooksKept, Stored
<1>3. CallsKnown'
  <2> SUFFICES ASSUME NEW q \in Runs
               PROVE  /\ repairing'[q] > 0 => Known(q)'
                      /\ answering'[q] > 0 => Known(q)' /\ runs'[q].questions
                      /\ shadows'[q] # None => Known(q)' /\ ~runs'[q].questions
                      /\ stored'[q] # None => Known(q)'
    BY DEF CallsKnown
  <2>1. CASE Left(q)
    BY <2>1 DEF Left, CallsKnown, CallsKept, Known
  <2>2. CASE Written(q)
    BY <2>2, ConstantFacts DEF Written, CallsKept, Known
  <2> QED
    BY <2>1, <2>2
<1>4. BackupsLanded'
  <2> SUFFICES ASSUME NEW q \in Runs
               PROVE  Landed(q, runs[q])' /\ Landed(q, stored[q])'
    BY DEF BackupsLanded
  <2>1. \A record : Landed(q, record) =>
          (record # None =>
             /\ record.status = "PROMOTED" => record.backups # None
             /\ record.backups # None => \A i \in Steps(q) : record.backups[i] \in approved' \cup Plain)
    BY DEF Landed, FilesKept
  <2>2. CASE Left(q)
    BY <2>1, <2>2 DEF Left, BackupsLanded, Landed
  <2>3. CASE Written(q)
    BY <2>1, <2>3 DEF Written, BackupsLanded, Landed
  <2> QED
    BY <2>2, <2>3
<1>5. BackupsAreReplaced'
  BY DEF BackupsAreReplaced, Left, Written, Known, Status
<1>6. ShadowIsTheCurrentAttempt'
  BY ConstantFacts DEF ShadowIsTheCurrentAttempt, Left, Written, Known, Status
<1>7. OnlyApprovedBytesLand'
  BY DEF OnlyApprovedBytesLand, FilesKept, Plain
<1>8. DiskAgreesWithMemory'
  <2> SUFFICES ASSUME NEW q \in Runs, q \notin unsaved', runs'[q] # None
               PROVE  \/ stored'[q] = runs'[q]
                      \/ stored'[q] = None /\ runs'[q].status \notin Waiting
    BY DEF DiskAgreesWithMemory, Known, Status
  <2>1. CASE Left(q)
    BY <2>1 DEF Left, DiskAgreesWithMemory, Known, Status
  <2>2. CASE Written(q)
    BY <2>2 DEF Written
  <2> QED
    BY <2>1, <2>2
<1> QED
  BY <1>2, <1>3, <1>4, <1>5, <1>6, <1>7, <1>8

----------------------------------------------------------------------------
(* #saveRun and prune()                                                    *)

\* What the pruning after a save may leave of the directory.
Pruned(kept, disk, memory) ==
    /\ kept = [q \in Runs |-> kept[q]]
    /\ \A q \in Runs :
         \/ kept[q] = disk[q]
         \/ kept[q] = None /\ (memory[q] # None => memory[q].status \notin Waiting)

\* prune() drops no run that waits for a person.
LEMMA PruneEffect ==
    ASSUME NEW disk, NEW memory, NEW kept, kept \in prune(disk, memory)
    PROVE  Pruned(kept, disk, memory)
<1> DEFINE candidates == {q \in Runs : disk[q] # None} \ Protected(memory)
<1>1. PICK K : kept = [q \in Runs |-> IF q \in candidates \ K THEN None ELSE disk[q]]
  BY DEF prune
<1>2. \A q \in candidates : memory[q] # None => memory[q].status \notin Waiting
  BY DEF Protected
<1> HIDE DEF candidates
<1> QED
  BY <1>1, <1>2 DEF Pruned

\* What a save of run r leaves in memory and on disk.
UpdatedTo(r, record) ==
    /\ Stored
    /\ runs'[r] = record /\ stored'[r] \in {record, stored[r], None}
    /\ r \notin unsaved' => \/ stored'[r] = record
                            \/ stored'[r] = None /\ record.status \notin Waiting
    /\ \A q \in Runs \ {r} :
         /\ runs'[q] = runs[q] /\ (q \in unsaved' <=> q \in unsaved)
         /\ \/ stored'[q] = stored[q]
            \/ stored'[q] = None /\ (Known(q) => Status(q) \notin Waiting)

\* #saveRun: a run is written, or its write fails and it is remembered as unsaved; other
\* runs are at most pruned, and none that waits.
LEMMA UpdateEffect ==
    ASSUME Typed, NEW r \in Runs, NEW record, record # None, Update(r, record)
    PROVE  UpdatedTo(r, record)
<1>0. PICK written \in BOOLEAN :
        /\ Faulty(~written)
        /\ runs' = [runs EXCEPT ![r] = record]
        /\ stored' \in prune(IF written THEN [stored EXCEPT ![r] = runs'[r]] ELSE stored, runs')
        /\ unsaved' = IF written THEN unsaved \ {r} ELSE unsaved \cup {r}
  BY Zenon DEF Update, saveRun
<1>A. PICK memory : memory = runs'
  OBVIOUS
<1>B. PICK disk : disk = IF written THEN [stored EXCEPT ![r] = runs'[r]] ELSE stored
  OBVIOUS
<1>1. /\ Faulty(~written)
      /\ runs' = [runs EXCEPT ![r] = record]
      /\ memory = runs' /\ stored' \in prune(disk, memory)
      /\ disk = IF written THEN [stored EXCEPT ![r] = runs'[r]] ELSE stored
      /\ unsaved' = IF written THEN unsaved \ {r} ELSE unsaved \cup {r}
  BY <1>0, <1>A, <1>B, Zenon
<1>2. /\ runs = [q \in Runs |-> runs[q]] /\ stored = [q \in Runs |-> stored[q]]
      /\ unsaved \subseteq Runs /\ faults \in 0..MaxFaults
  BY DEF Typed, TypeOK, Shapes
<1>3. /\ runs' = [q \in Runs |-> runs'[q]] /\ runs'[r] = record
      /\ \A q \in Runs \ {r} : runs'[q] = runs[q]
  BY <1>1, <1>2
<1>4. /\ \A q \in Runs \ {r} : disk[q] = stored[q]
      /\ disk[r] = IF written THEN record ELSE stored[r]
  BY <1>1, <1>2, <1>3
<1>5. /\ stored' = [q \in Runs |-> stored'[q]]
      /\ \A q \in Runs :
           \/ stored'[q] = disk[q]
           \/ stored'[q] = None /\ (memory[q] # None => memory[q].status \notin Waiting)
  <2>1. Pruned(stored', disk, memory)
    BY <1>1, PruneEffect
  <2> QED
    BY <2>1 DEF Pruned
<1>6. faults' \in 0..MaxFaults
  BY <1>1, <1>2, ConstantFacts DEF Faulty, Failing, Failing
<1>7. /\ stored'[r] \in {record, stored[r], None}
      /\ r \notin unsaved' => \/ stored'[r] = record
                              \/ stored'[r] = None /\ record.status \notin Waiting
  BY <1>1, <1>3, <1>4, <1>5
<1>8. \A q \in Runs \ {r} :
        /\ q \in unsaved' <=> q \in unsaved
        /\ \/ stored'[q] = stored[q]
           \/ stored'[q] = None /\ (Known(q) => Status(q) \notin Waiting)
  BY <1>1, <1>3, <1>4, <1>5 DEF Known, Status
<1>9. unsaved' \subseteq Runs
  BY <1>1, <1>2
<1> QED
  BY <1>3, <1>5, <1>6, <1>7, <1>8, <1>9 DEF UpdatedTo, Stored

----------------------------------------------------------------------------
(* The records the operations make                                         *)

\* A record of run r that keeps the run's questions.
Amends(r, record, old) == record \in RunRecord(r) /\ record.questions = old.questions

\* The assignments of repair() to a run.
LEMMA RepairedRecord ==
    ASSUME NEW r \in Runs, runs[r] \in RunRecord(r), NEW paths \in SUBSET FilesOf(r),
           runs[r].attempt < MaxAttempt
    PROVE  LET new == [Repaired(r, paths) EXCEPT !.status = "PENDING_APPROVAL", !.clean = FALSE]
           IN  Amends(r, new, runs[r]) /\ new.status = "PENDING_APPROVAL"
               /\ new.backups = runs[r].backups
<1> DEFINE next == runs[r].attempt + 1
           bytes == [f \in FilesOf(r) |->
                       IF f \in paths THEN Authored(r, next) ELSE runs[r].contents[f]]
           touched == runs[r].authoredPaths \cup paths
<1>1. /\ runs[r].attempt \in 1..MaxAttempt /\ runs[r].contents \in [FilesOf(r) -> Content]
      /\ runs[r].authoredPaths \in SUBSET FilesOf(r)
  BY DEF RunRecord
<1>2. next \in 1..MaxAttempt
  BY <1>1, ActionConstants
<1>3. Authored(r, next) \in Content
  BY <1>2 DEF Authored, Content
<1>4. bytes \in [FilesOf(r) -> Content] /\ touched \in SUBSET FilesOf(r)
  BY <1>1, <1>3
<1>5. Repaired(r, paths)
        = [runs[r] EXCEPT !.attempt = next, !.contents = bytes, !.authoredPaths = touched]
  BY Zenon DEF Repaired
<1> HIDE DEF next, bytes, touched
<1>6. "PENDING_APPROVAL" \in Statuses /\ FALSE \in BOOLEAN
  BY DEF Statuses
<1> QED
  BY <1>2, <1>4, <1>5, <1>6, Zenon DEF Amends, RunRecord

\* plan() makes a record of its run that waits and has nothing to restore.
LEMMA PlannedRecords ==
    ASSUME NEW r \in Runs, workspace \in [Files -> Content], NEW record \in Planned(r)
    PROVE  record \in RunRecord(r) /\ record.status = "PENDING_APPROVAL" /\ record.backups = None
<1>1. PICK questions \in BOOLEAN, authored \in SUBSET FilesOf(r) :
        record = PlannedRecord(r, questions, authored)
  BY DEF Planned
<1>2. Authored(r, 1) \in Content
  BY ActionConstants DEF Authored, Content
<1>3. [f \in FilesOf(r) |-> IF f \in authored THEN Authored(r, 1) ELSE workspace[f]]
        \in [FilesOf(r) -> Content]
  BY <1>2, ConstantFacts
<1>4. 1 \in 1..MaxAttempt /\ "PENDING_APPROVAL" \in Statuses
  BY ActionConstants DEF Statuses
<1> QED
  BY <1>1, <1>3, <1>4 DEF PlannedRecord, RunRecord

----------------------------------------------------------------------------
(* What the operations share                                               *)

\* An operation that writes one run and leaves the others alone keeps the invariant.
LEMMA OneRunWritten ==
    ASSUME ActionsInv, Surroundings, NEW r \in Runs, NEW record \in RunRecord(r),
           UpdatedTo(r, record), r <= planned',
           Known(r) => record.questions = runs[r].questions,
           \A q \in Runs \ {r} : shadows'[q] = shadows[q] /\ replaced'[q] = replaced[q],
           \/ shadows'[r] = None
           \/ /\ shadows'[r] = record.contents /\ record.status = "MEASURED"
              /\ ~record.questions,
           replaced'[r] \in [FilesOf(r) -> Content] \cup {None},
           Landed(r, runs[r])',
           record.status = "PROMOTED" => Captured(r, record.backups, replaced'[r])
    PROVE  ActionsInv'
<1>1. Written(r)
  BY DEF UpdatedTo, Written
<1>2. \A q \in Runs \ {r} : Left(q)
  BY DEF UpdatedTo, Left
<1>3. Stored
  BY DEF UpdatedTo
<1> QED
  BY <1>1, <1>2, <1>3, RunsKeepInv

\* A record that keeps its backups, or has none, and is not promoted has landed.
LEMMA StillLanded ==
    ASSUME NEW r \in Runs, BackupsLanded, approved \subseteq approved', runs'[r].status # "PROMOTED",
           runs'[r].backups = None \/ (Known(r) /\ runs'[r].backups = runs[r].backups)
    PROVE  Landed(r, runs[r])'
BY DEF Landed, BackupsLanded, Known

\* Operations that leave the workspace alone.
LEMMA FilesUntouched ==
    ASSUME ActionsInv, UNCHANGED <<workspace, approved>>
    PROVE  FilesKept
BY DEF ActionsInv, Typed, TypeOK, OnlyApprovedBytesLand, FilesKept, Plain

\* Operations that no call waits for.
LEMMA CallsUntouched ==
    ASSUME ActionsInv, UNCHANGED <<repairing, answering>>
    PROVE  CallsKept
BY DEF ActionsInv, Typed, TypeOK, CallsKnown, CallsKept

\* A repair() that waited for the Author goes on: its run is known.
LEMMA RepairEnds ==
    ASSUME ActionsInv, NEW r \in Runs, repairing[r] > 0,
           repairing' = [repairing EXCEPT ![r] = @ - 1], UNCHANGED answering
    PROVE  CallsKept /\ Known(r)
<1>1. repairing \in [Runs -> 0..MaxCalls] /\ MaxCalls \in Nat
  BY ConstantFacts DEF ActionsInv, Typed, TypeOK
<1>2. repairing' \in [Runs -> 0..MaxCalls] /\ \A q \in Runs : repairing'[q] > 0 => repairing[q] > 0
  BY <1>1
<1> QED
  BY <1>2 DEF ActionsInv, Typed, TypeOK, CallsKnown, CallsKept

\* An answer() that waited for plan() goes on: its run is known.
LEMMA AnswerEnds ==
    ASSUME ActionsInv, NEW r \in Runs, answering[r] > 0,
           answering' = [answering EXCEPT ![r] = @ - 1], UNCHANGED repairing
    PROVE  CallsKept /\ Known(r)
<1>1. answering \in [Runs -> 0..MaxCalls] /\ MaxCalls \in Nat
  BY ConstantFacts DEF ActionsInv, Typed, TypeOK
<1>2. answering' \in [Runs -> 0..MaxCalls] /\ \A q \in Runs : answering'[q] > 0 => answering[q] > 0
  BY <1>1
<1> QED
  BY <1>2 DEF ActionsInv, Typed, TypeOK, CallsKnown, CallsKept

\* The shadow of one run is dropped or made.
LEMMA ShadowsKept ==
    ASSUME ActionsInv, NEW r \in Runs, NEW shadow, shadows' = [shadows EXCEPT ![r] = shadow]
    PROVE  /\ shadows' = [q \in Runs |-> shadows'[q]] /\ shadows'[r] = shadow
           /\ \A q \in Runs \ {r} : shadows'[q] = shadows[q]
BY DEF ActionsInv, Typed, Shapes

\* The record of a known run.
LEMMA KnownRun ==
    ASSUME ActionsInv, NEW r \in Runs
    PROVE  /\ replaced[r] \in [FilesOf(r) -> Content] \cup {None}
           /\ planned \in 0..MaxRuns /\ planned \in Nat /\ rejected \subseteq Runs
           /\ shadows = [q \in Runs |-> shadows[q]] /\ replaced = [q \in Runs |-> replaced[q]]
           /\ Known(r) => runs[r] \in RunRecord(r) /\ r <= planned /\ runs[r] # None
<1>1. r \in Nat /\ MaxRuns \in Nat
  BY ConstantFacts
<1> QED
  BY <1>1 DEF ActionsInv, Typed, TypeOK, Shapes, Known

----------------------------------------------------------------------------
(* plan(), answer(), measure() and repair()                                *)

\* The identifier plan() gives out is new: nothing is known of it.
LEMMA NewRun ==
    ASSUME ActionsInv, planned < MaxRuns, planned' = planned + 1
    PROVE  /\ planned' \in Runs /\ planned' \in 0..MaxRuns /\ planned <= planned'
           /\ ~Known(planned') /\ stored[planned'] = None /\ shadows[planned'] = None
           /\ \A r \in Runs : Known(r) => r # planned'
<1>1. planned \in 0..MaxRuns /\ MaxRuns \in Nat
  BY ConstantFacts DEF ActionsInv, Typed, TypeOK
<1>2. planned' \in Runs /\ planned' \in 0..MaxRuns /\ planned <= planned' /\ planned' > planned
  BY <1>1 DEF Runs
<1>3. ~Known(planned') /\ stored[planned'] = None
  BY <1>2 DEF ActionsInv, Typed, TypeOK, Known
<1>4. shadows[planned'] = None
  BY <1>2, <1>3 DEF ActionsInv, ShadowIsTheCurrentAttempt
<1> QED
  BY <1>2, <1>3, <1>4

\* plan() adds a run that waits.
LEMMA PlanKeepsInv ==
    ASSUME ActionsInv, plan
    PROVE  ActionsInv'
<1>1. PICK r \in Runs : r = planned'
  BY NewRun DEF plan
<1>2. PICK record \in Planned(r) : Update(r, record)
  BY <1>1 DEF plan
<1>3. record \in RunRecord(r) /\ record.status = "PENDING_APPROVAL" /\ record.backups = None
  BY <1>2, PlannedRecords DEF ActionsInv, Typed, TypeOK
<1>4. record # None
  BY <1>3, ConstantFacts
<1>5. UpdatedTo(r, record)
  BY <1>2, <1>4, UpdateEffect DEF ActionsInv
<1>6. ~Known(r) /\ shadows[r] = None /\ planned' \in 0..MaxRuns /\ planned <= planned' /\ r <= planned'
  BY <1>1, NewRun, ConstantFacts DEF plan
<1>7. Surroundings
  BY <1>6, KnownRun, FilesUntouched, CallsUntouched DEF plan, Surroundings, BooksKept
<1>8. Landed(r, runs[r])'
  BY <1>3, <1>5, StillLanded DEF UpdatedTo, ActionsInv, plan
<1> QED
  BY <1>3, <1>5, <1>6, <1>7, <1>8, OneRunWritten, KnownRun DEF plan

\* Operations that change no record.
LEMMA NoRunWritten ==
    ASSUME ActionsInv, Surroundings, faults' \in 0..MaxFaults,
           UNCHANGED <<runs, stored, unsaved, replaced>>,
           \A q \in Runs : shadows'[q] \in {shadows[q], None}
    PROVE  ActionsInv'
<1>1. Stored
  BY DEF Stored, ActionsInv, Typed, TypeOK, Shapes
<1>2. \A q \in Runs : Left(q)
  BY DEF Left
<1> QED
  BY <1>1, <1>2, RunsKeepInv

\* answer() and repair() up to their awaits, and their refusals.
LEMMA WaitingKeepsInv ==
    ASSUME ActionsInv, NEW r \in Runs,
           answer(r) \/ answerRefused(r) \/ repair(r) \/ repairRefused(r)
    PROVE  ActionsInv'
<1>1. /\ UNCHANGED <<runs, stored, unsaved, replaced, shadows, workspace, approved>>
      /\ UNCHANGED <<planned, rejected, faults>>
  BY DEF answer, answerRefused, repair, repairRefused, history
<1>2. FilesKept /\ BooksKept /\ faults' \in 0..MaxFaults
  BY <1>1, FilesUntouched, KnownRun DEF BooksKept, ActionsInv, Typed, TypeOK
<1>3. /\ answering \in [Runs -> 0..MaxCalls] /\ repairing \in [Runs -> 0..MaxCalls]
      /\ MaxCalls \in Nat
  BY ConstantFacts DEF ActionsInv, Typed, TypeOK
<1>4. CallsKept
  <2>1. CASE answer(r)
    <3>1. answering[r] < MaxCalls /\ answering' = [answering EXCEPT ![r] = @ + 1]
      BY <2>1 DEF answer
    <3>2. /\ answering' \in [Runs -> 0..MaxCalls]
          /\ \A q \in Runs \ {r} : answering'[q] = answering[q]
      BY <1>3, <3>1
    <3> QED
      BY <1>3, <2>1, <3>2 DEF answer, ActionsInv, CallsKnown, CallsKept
  <2>2. CASE answerRefused(r)
    BY <2>2, AnswerEnds DEF answerRefused
  <2>3. CASE repair(r)
    <3>1. repairing[r] < MaxCalls /\ repairing' = [repairing EXCEPT ![r] = @ + 1]
      BY <2>3 DEF repair
    <3>2. /\ repairing' \in [Runs -> 0..MaxCalls]
          /\ \A q \in Runs \ {r} : repairing'[q] = repairing[q]
      BY <1>3, <3>1
    <3> QED
      BY <1>3, <2>3, <3>2 DEF repair, ActionsInv, CallsKnown, CallsKept
  <2>4. CASE repairRefused(r)
    BY <2>4, RepairEnds DEF repairRefused
  <2> QED
    BY <2>1, <2>2, <2>3, <2>4
<1> QED
  BY <1>1, <1>2, <1>4, NoRunWritten DEF Surroundings

\* measure() makes the shadow from what the run carries.
LEMMA MeasureKeepsInv ==
    ASSUME ActionsInv, NEW r \in Runs, measure(r)
    PROVE  ActionsInv'
<1>1. PICK clean \in BOOLEAN :
        Update(r, [runs[r] EXCEPT !.status = "MEASURED", !.clean = clean])
  BY DEF measure
<1>2. PICK record : record = [runs[r] EXCEPT !.status = "MEASURED", !.clean = clean]
  OBVIOUS
<1>3. Known(r) /\ ~runs[r].questions
  BY DEF measure, Measurable
<1>4. "MEASURED" \in Statuses
  BY DEF Statuses
<1>5. /\ Amends(r, record, runs[r]) /\ record.status = "MEASURED"
      /\ record.contents = runs[r].contents /\ record.backups = runs[r].backups
  <2>1. runs[r] \in RunRecord(r)
    BY <1>3, KnownRun
  <2> QED
    BY <1>2, <1>4, <2>1, Zenon DEF Amends, RunRecord
<1>6. record \in RunRecord(r) /\ record.questions = runs[r].questions /\ record # None
  BY <1>5, ConstantFacts DEF Amends
<1>7. UpdatedTo(r, record)
  BY <1>1, <1>2, <1>6, UpdateEffect DEF ActionsInv
<1>8. /\ shadows' = [q \in Runs |-> shadows'[q]] /\ shadows'[r] = runs[r].contents
      /\ \A q \in Runs \ {r} : shadows'[q] = shadows[q]
  BY ShadowsKept DEF measure
<1>9. Surroundings
  BY <1>8, KnownRun, FilesUntouched, CallsUntouched DEF measure, Surroundings, BooksKept
<1>10. Landed(r, runs[r])'
  BY <1>3, <1>5, <1>7, StillLanded DEF UpdatedTo, ActionsInv, measure
<1> QED
  BY <1>3, <1>5, <1>6, <1>7, <1>8, <1>9, <1>10, OneRunWritten, KnownRun DEF measure

\* repair() changes what the run carries, and drops the shadow.
LEMMA RepairKeepsInv ==
    ASSUME ActionsInv, NEW r \in Runs, repairAuthored(r)
    PROVE  ActionsInv' /\ runs'[r].status = "PENDING_APPROVAL"
<1>1. PICK paths \in SUBSET FilesOf(r) :
        Update(r, [Repaired(r, paths) EXCEPT !.status = "PENDING_APPROVAL", !.clean = FALSE])
  BY DEF repairAuthored
<1>2. PICK record :
        record = [Repaired(r, paths) EXCEPT !.status = "PENDING_APPROVAL", !.clean = FALSE]
  OBVIOUS
<1>3. Known(r) /\ CallsKept /\ runs[r] \in RunRecord(r) /\ r <= planned
  BY RepairEnds, KnownRun DEF repairAuthored
<1>4. /\ Amends(r, record, runs[r]) /\ record.status = "PENDING_APPROVAL"
      /\ record.backups = runs[r].backups
  BY <1>2, <1>3, RepairedRecord DEF repairAuthored
<1>5. record \in RunRecord(r) /\ record.questions = runs[r].questions /\ record # None
  BY <1>4, ConstantFacts DEF Amends
<1>6. UpdatedTo(r, record)
  BY <1>1, <1>2, <1>5, UpdateEffect DEF ActionsInv
<1>7. /\ shadows' = [q \in Runs |-> shadows'[q]] /\ shadows'[r] = None
      /\ \A q \in Runs \ {r} : shadows'[q] = shadows[q]
  BY ShadowsKept DEF repairAuthored
<1>8. Surroundings
  BY <1>3, <1>7, KnownRun, FilesUntouched DEF repairAuthored, Surroundings, BooksKept
<1>9. Landed(r, runs[r])'
  BY <1>3, <1>4, <1>6, StillLanded DEF UpdatedTo, ActionsInv, repairAuthored
<1> QED
  <2>1. ActionsInv'
    BY <1>3, <1>4, <1>5, <1>6, <1>7, <1>8, <1>9, OneRunWritten, KnownRun DEF repairAuthored
  <2> QED
    BY <1>4, <1>6, <2>1 DEF UpdatedTo

\* The number of saves of one answer() that fail.
LEMMA FewFailures ==
    ASSUME NEW r, NEW n, NEW failed \in SUBSET {r, n}
    PROVE  Cardinality(failed) \in Nat
<1>1. IsFiniteSet({r, n})
  <2>1. IsFiniteSet({r}) /\ {r, n} = {r} \cup {n}
    BY FS_Singleton
  <2> QED
    BY <2>1, FS_AddElement
<1> QED
  BY <1>1, FS_Subset, FS_CardinalityType

\* Memory and disk once the successor n is made, and saved if it could be.
Succeeded(n, record, created, disk, saved) ==
    /\ record \in RunRecord(n) /\ record.status = "PENDING_APPROVAL"
    /\ record.backups = None /\ record # None
    /\ disk = [q \in Runs |-> disk[q]] /\ disk[n] = IF saved THEN record ELSE None
    /\ created = [q \in Runs |-> created[q]] /\ created[n] = record
    /\ \A q \in Runs \ {n} :
         /\ created[q] = runs[q]
         /\ \/ disk[q] = stored[q]
            \/ disk[q] = None /\ (Known(q) => Status(q) \notin Waiting)

\* The successor that answer() made is on disk, unless its save failed; the answered run
\* is not touched yet.
LEMMA SuccessorSaved ==
    ASSUME ActionsInv, NEW n \in Runs, ~Known(n), stored[n] = None, NEW record \in Planned(n),
           NEW created, created = [runs EXCEPT ![n] = record],
           NEW saved \in BOOLEAN, NEW disk, disk \in saveRun(stored, created, n, saved)
    PROVE  Succeeded(n, record, created, disk, saved)
<1>1. record \in RunRecord(n) /\ record.status = "PENDING_APPROVAL" /\ record.backups = None
  BY PlannedRecords DEF ActionsInv, Typed, TypeOK
<1>2. record # None
  BY <1>1, ConstantFacts
<1>3. runs = [q \in Runs |-> runs[q]] /\ stored = [q \in Runs |-> stored[q]]
  BY DEF ActionsInv, Typed, Shapes
<1>4. /\ created = [q \in Runs |-> created[q]] /\ created[n] = record
      /\ \A q \in Runs \ {n} : created[q] = runs[q]
  BY <1>3
<1> DEFINE base == IF saved THEN [stored EXCEPT ![n] = created[n]] ELSE stored
<1>5. disk \in prune(base, created)
  BY DEF saveRun
<1>6. base[n] = (IF saved THEN record ELSE None) /\ \A q \in Runs \ {n} : base[q] = stored[q]
  BY <1>3, <1>4
<1> HIDE DEF base
<1>7. /\ disk = [q \in Runs |-> disk[q]]
      /\ \A q \in Runs :
           \/ disk[q] = base[q]
           \/ disk[q] = None /\ (created[q] # None => created[q].status \notin Waiting)
  <2>1. Pruned(disk, base, created)
    BY <1>5, PruneEffect
  <2> QED
    BY <2>1 DEF Pruned
<1>8. disk[n] = IF saved THEN record ELSE None
  BY <1>1, <1>2, <1>4, <1>6, <1>7 DEF Waiting
<1>9. \A q \in Runs \ {n} :
        \/ disk[q] = stored[q]
        \/ disk[q] = None /\ (Known(q) => Status(q) \notin Waiting)
  BY <1>4, <1>6, <1>7 DEF Known, Status
<1> QED
  BY <1>1, <1>2, <1>4, <1>7, <1>8, <1>9 DEF Succeeded

\* answer(), when the ledger refuses the event: the successor stays.
LEMMA AnswerUnrecordedKeepsInv ==
    ASSUME ActionsInv, NEW r \in Runs, answerUnrecorded(r)
    PROVE  ActionsInv'
<1>1. PICK n \in Runs : n = planned'
  BY NewRun DEF answerUnrecorded
<1>2. /\ ~Known(n) /\ stored[n] = None /\ shadows[n] = None
      /\ planned' \in 0..MaxRuns /\ planned <= planned' /\ n <= planned'
  BY <1>1, NewRun, ConstantFacts DEF answerUnrecorded
<1>0. PICK record \in Planned(n), failed \in SUBSET {n} :
        /\ Failing(1 + Cardinality(failed))
        /\ runs' = [runs EXCEPT ![n] = record]
        /\ stored' \in saveRun(stored, runs', n, failed = {})
        /\ unsaved' = unsaved \cup failed
  BY <1>1, Zenon DEF answerUnrecorded
<1>A. PICK saved \in BOOLEAN : saved = (failed = {})
  OBVIOUS
<1>B. PICK created, disk :
        /\ created = [runs EXCEPT ![n] = record] /\ disk \in saveRun(stored, created, n, saved)
        /\ runs' = created /\ stored' = disk
  BY <1>0, <1>A, Zenon
<1>C. unsaved' = IF saved THEN unsaved ELSE unsaved \cup {n}
  BY <1>0, <1>A
<1>3. /\ created = [runs EXCEPT ![n] = record] /\ disk \in saveRun(stored, created, n, saved)
      /\ runs' = created /\ stored' = disk
      /\ unsaved' = IF saved THEN unsaved ELSE unsaved \cup {n}
  BY <1>B, <1>C
<1>4. /\ record \in RunRecord(n) /\ record.status = "PENDING_APPROVAL"
      /\ record.backups = None /\ record # None
      /\ disk = [q \in Runs |-> disk[q]] /\ disk[n] = IF saved THEN record ELSE None
      /\ created = [q \in Runs |-> created[q]] /\ created[n] = record
      /\ \A q \in Runs \ {n} :
           /\ created[q] = runs[q]
           /\ \/ disk[q] = stored[q]
              \/ disk[q] = None /\ (Known(q) => Status(q) \notin Waiting)
  <2>1. Succeeded(n, record, created, disk, saved)
    BY <1>2, <1>3, SuccessorSaved
  <2> QED
    BY <2>1, Zenon DEF Succeeded
<1>5. faults' \in 0..MaxFaults /\ unsaved' \subseteq Runs
  <2>1. Cardinality(failed) \in Nat
    <3>1. failed \in SUBSET {n, n}
      BY <1>0
    <3> QED
      BY <3>1, FewFailures
  <2> QED
    BY <1>0, <1>3, <2>1, ConstantFacts DEF Failing, ActionsInv, Typed, TypeOK
<1>6. UpdatedTo(n, record)
  BY <1>2, <1>3, <1>4, <1>5 DEF UpdatedTo, Stored
<1>7. FilesKept /\ CallsKept
  BY AnswerEnds, FilesUntouched DEF answerUnrecorded
<1>8. Surroundings
  BY <1>2, <1>7, KnownRun DEF answerUnrecorded, Surroundings, BooksKept
<1>9. Landed(n, runs[n])'
  BY <1>4, <1>6, StillLanded DEF UpdatedTo, ActionsInv, answerUnrecorded
<1> QED
  BY <1>2, <1>4, <1>6, <1>8, <1>9, OneRunWritten, KnownRun DEF answerUnrecorded

\* answer(): the successor is written, and then the answered run, whatever it has become.
LEMMA AnswerPlannedKeepsInv ==
    ASSUME ActionsInv, NEW r \in Runs, answerPlanned(r)
    PROVE  /\ ActionsInv' /\ runs'[r].status = "ANSWERED"
           /\ \A q \in Runs \ {r} : Known(q) => runs'[q] = runs[q]
<1>1. PICK n \in Runs : n = planned'
  BY NewRun DEF answerPlanned
<1>2. /\ ~Known(n) /\ stored[n] = None /\ shadows[n] = None
      /\ planned' \in 0..MaxRuns /\ planned <= planned' /\ n <= planned'
  BY <1>1, NewRun, ConstantFacts DEF answerPlanned
<1>3. CallsKept /\ Known(r) /\ runs[r] \in RunRecord(r) /\ r <= planned
  BY AnswerEnds, KnownRun DEF answerPlanned
<1>4. r # n /\ r <= planned'
  BY <1>1, <1>2, <1>3, ConstantFacts, KnownRun
<1>A. PICK record \in Planned(n), failed \in SUBSET {r, n} :
        LET created == [runs EXCEPT ![n] = record]
        IN  /\ Failing(Cardinality(failed))
            /\ runs' = [created EXCEPT ![r].status = "ANSWERED"]
            /\ \E disk \in saveRun(stored, created, n, n \notin failed) :
                 stored' \in saveRun(disk, runs', r, r \notin failed)
            /\ unsaved' = (unsaved \ {r}) \cup failed
  <2>1. \E record \in Planned(planned'), failed \in SUBSET {r, planned'} :
          LET created == [runs EXCEPT ![planned'] = record]
          IN  /\ Failing(Cardinality(failed))
              /\ runs' = [created EXCEPT ![r].status = "ANSWERED"]
              /\ \E disk \in saveRun(stored, created, planned', planned' \notin failed) :
                   stored' \in saveRun(disk, runs', r, r \notin failed)
              /\ unsaved' = (unsaved \ {r}) \cup failed
    BY DEF answerPlanned
  <2> QED
    BY <1>1, <2>1
<1>B. PICK created, memory : created = [runs EXCEPT ![n] = record] /\ memory = runs'
  OBVIOUS
<1>E. PICK saved \in BOOLEAN, written \in BOOLEAN :
        (saved <=> n \notin failed) /\ (written <=> r \notin failed)
  OBVIOUS
<1>C. PICK disk \in saveRun(stored, created, n, saved) :
        stored' \in saveRun(disk, memory, r, written)
  <2>1. saved = (n \notin failed) /\ written = (r \notin failed)
    BY <1>E
  <2> QED
    BY <1>A, <1>B, <2>1, Zenon
<1>D. PICK base : base = IF written THEN [disk EXCEPT ![r] = memory[r]] ELSE disk
  OBVIOUS
<1>5. /\ created = [runs EXCEPT ![n] = record] /\ disk \in saveRun(stored, created, n, saved)
      /\ Failing(Cardinality(failed))
      /\ runs' = [created EXCEPT ![r].status = "ANSWERED"] /\ memory = runs'
      /\ base = IF written THEN [disk EXCEPT ![r] = memory[r]] ELSE disk
      /\ stored' \in prune(base, memory)
      /\ unsaved' = (unsaved \ {r}) \cup failed
  BY <1>A, <1>B, <1>C, <1>D, Zenon DEF saveRun
<1>F. /\ r \notin unsaved' => written
      /\ n \notin unsaved' => saved
      /\ \A q \in Runs \ {r, n} : q \in unsaved' <=> q \in unsaved
  BY <1>5, <1>E
<1>6. Succeeded(n, record, created, disk, saved)
  BY <1>2, <1>5, SuccessorSaved
<1>7. PICK answered : answered = [runs[r] EXCEPT !.status = "ANSWERED"]
  OBVIOUS
<1>8. /\ Amends(r, answered, runs[r]) /\ answered.status = "ANSWERED"
      /\ answered.backups = runs[r].backups
  <2>1. "ANSWERED" \in Statuses
    BY DEF Statuses
  <2> QED
    BY <1>3, <1>7, <2>1, Zenon DEF Amends, RunRecord
<1>9. /\ runs' = [q \in Runs |-> runs'[q]] /\ runs'[r] = answered /\ runs'[n] = record
      /\ \A q \in Runs \ {r, n} : runs'[q] = runs[q]
  <2>1. /\ created = [q \in Runs |-> created[q]] /\ created[n] = record
        /\ \A q \in Runs \ {n} : created[q] = runs[q]
    BY <1>6, Zenon DEF Succeeded
  <2>2. runs' = [created EXCEPT ![r] = answered]
    BY <1>4, <1>5, <1>7, <2>1, Zenon
  <2> QED
    BY <1>4, <2>1, <2>2
<1>10. Pruned(stored', base, memory)
  BY <1>5, PruneEffect
<1>11. /\ disk = [q \in Runs |-> disk[q]] /\ disk[n] = IF saved THEN record ELSE None
       /\ \A q \in Runs \ {n} :
            \/ disk[q] = stored[q]
            \/ disk[q] = None /\ (Known(q) => Status(q) \notin Waiting)
  BY <1>6 DEF Succeeded
<1>12. /\ base[r] = IF written THEN answered ELSE disk[r]
       /\ \A q \in Runs \ {r} : base[q] = disk[q]
  BY <1>5, <1>9, <1>11
<1>13. /\ stored' = [q \in Runs |-> stored'[q]]
       /\ \A q \in Runs :
            \/ stored'[q] = base[q]
            \/ stored'[q] = None /\ (memory[q] # None => memory[q].status \notin Waiting)
  BY <1>10 DEF Pruned
<1>14. /\ record \in RunRecord(n) /\ record.status = "PENDING_APPROVAL"
       /\ record.backups = None /\ record # None
  BY <1>6, Zenon DEF Succeeded
<1>15. /\ stored'[n] \in {record, None}
       /\ n \notin unsaved' => stored'[n] = record
  BY <1>4, <1>5, <1>9, <1>11, <1>12, <1>13, <1>14, <1>F DEF Waiting
<1>16. /\ answered \in RunRecord(r) /\ answered # None /\ answered.questions = runs[r].questions
       /\ answered.status \notin Waiting
  BY <1>8, ConstantFacts DEF Amends, Waiting
<1>17. /\ stored'[r] \in {answered, stored[r], None}
       /\ r \notin unsaved' => stored'[r] = answered \/ stored'[r] = None
  BY <1>4, <1>5, <1>9, <1>11, <1>12, <1>13, <1>F
<1>18. \A q \in Runs \ {r, n} :
         /\ q \in unsaved' <=> q \in unsaved
         /\ \/ stored'[q] = stored[q]
            \/ stored'[q] = None /\ (Known(q) => Status(q) \notin Waiting)
  BY <1>4, <1>5, <1>9, <1>11, <1>12, <1>13, <1>F DEF Known, Status
<1>19. shadows' = shadows /\ replaced' = replaced /\ approved' = approved /\ shadows[r] = None
  <2>1. answering[r] > 0 /\ UNCHANGED <<shadows, replaced, approved>>
    BY DEF answerPlanned
  <2> QED
    BY <2>1 DEF ActionsInv, CallsKnown
<1>20. \A q \in Runs \ {r, n} : Left(q)
  BY <1>9, <1>18, <1>19 DEF Left
<1>21. Written(n)
  <2>1. Landed(n, runs[n])'
    BY <1>9, <1>14, <1>19, StillLanded DEF ActionsInv
  <2> QED
    BY <1>2, <1>9, <1>14, <1>15, <1>19, <2>1, KnownRun DEF Written
<1>22. Written(r)
  <2>1. Landed(r, runs[r])'
    BY <1>3, <1>8, <1>9, <1>19, StillLanded DEF ActionsInv
  <2>2. runs'[r].status = "ANSWERED"
    BY <1>8, <1>9
  <2> QED
    BY <1>4, <1>9, <1>16, <1>17, <1>19, <2>1, <2>2, KnownRun DEF Written
<1>23. Surroundings
  BY <1>2, <1>3, <1>19, KnownRun, FilesUntouched DEF answerPlanned, Surroundings, BooksKept
<1>24. Stored
  <2>1. Cardinality(failed) \in Nat /\ failed \subseteq Runs
    BY <1>A, FewFailures
  <2>2. faults' \in 0..MaxFaults /\ unsaved' \subseteq Runs
    BY <1>5, <2>1, ConstantFacts DEF Failing, ActionsInv, Typed, TypeOK
  <2> QED
    BY <1>9, <1>13, <2>2 DEF Stored
<1> QED
  <2>1. ActionsInv'
    BY <1>20, <1>21, <1>22, <1>23, <1>24, RunsKeepInv
  <2> QED
    BY <1>2, <1>8, <1>9, <2>1

----------------------------------------------------------------------------
(* approve(), #promote, reject() and restore()                             *)

\* The bytes an approval lands: the run's own, of the shadow, and clean.
LEMMA ShadowBytes ==
    ASSUME ActionsInv, NEW r \in Runs, Approvable(r)
    PROVE  /\ Known(r) /\ shadows[r] \in [FilesOf(r) -> Content]
           /\ {shadows[r][f] : f \in FilesOf(r)} \subseteq Content
           /\ Promotion(r) \in [Steps(r) -> Content]
           /\ \A i \in Steps(r) : Promotion(r)[i] \in {shadows[r][f] : f \in FilesOf(r)}
<1>1. Known(r) /\ shadows[r] \in [FilesOf(r) -> Content]
  BY DEF Approvable, ActionsInv, Typed, TypeOK
<1>2. \A i \in Steps(r) : RunFiles[r][i] \in FilesOf(r)
  BY DEF FilesOf
<1> QED
  BY <1>1, <1>2 DEF Promotion

\* The bytes a restore lands: they were there before.
LEMMA BackupBytes ==
    ASSUME ActionsInv, NEW r \in Runs, Restorable(r)
    PROVE  /\ Known(r) /\ runs[r].backups \in [Steps(r) -> Content]
           /\ \A i \in Steps(r) : runs[r].backups[i] \in approved \cup Plain
<1>1. runs[r] \in RunRecord(r) /\ runs[r] # None /\ runs[r].status = "PROMOTED"
  BY KnownRun DEF Restorable, Known, Status
<1>2. /\ runs[r].backups # None
      /\ \A i \in Steps(r) : runs[r].backups[i] \in approved \cup Plain
  BY <1>1 DEF ActionsInv, BackupsLanded, Landed
<1>3. runs[r].backups \in [Steps(r) -> Content] \cup {None}
  BY <1>1 DEF RunRecord
<1> QED
  BY <1>1, <1>2, <1>3 DEF Restorable

\* A list of numbers up to k has a greatest one.
LEMMA Greatest ==
    ASSUME NEW k \in Nat, NEW S, S \subseteq 1..k, S # {}
    PROVE  Max(S) \in S /\ \A i \in S : Max(S) >= i
<1> DEFINE gaps == {k - i : i \in S}
<1>1. S \subseteq Nat /\ \A i \in S : k - i \in Nat
  OBVIOUS
<1>5. gaps \subseteq Nat /\ gaps # {} /\ \A i \in S : k - i \in gaps
  BY <1>1, Zenon
<1>2. \E d \in gaps : \A e \in gaps : <<e, d>> \notin OpToRel(<, Nat)
  BY <1>5, NatLessThanWellFounded, WFMin, Zenon
<1>3. PICK d \in gaps : \A e \in gaps : ~(e < d)
  <2>1. \A d, e \in Nat : e < d => <<e, d>> \in OpToRel(<, Nat)
    BY Zenon DEF OpToRel
  <2> QED
    BY <1>2, <1>5, <2>1, Zenon
<1>4. PICK m \in S : d = k - m
  BY <1>3
<1> HIDE DEF gaps
<1>6. \A i \in S : m >= i
  <2> SUFFICES ASSUME NEW i \in S
               PROVE  m >= i
    OBVIOUS
  <2>1. ~(k - i < k - m) /\ i \in Nat /\ m \in Nat
    BY <1>1, <1>3, <1>4, <1>5
  <2> QED
    BY <2>1
<1> QED
  BY <1>4, <1>6, Zenon DEF Max

\* A file that has been written holds the bytes of one of the writes, any other file
\* what it held.
LEMMA WrittenOrKept ==
    ASSUME NEW r \in Runs, NEW bytes, NEW k \in 0..Len(RunFiles[r]), NEW f \in Files
    PROVE  \/ After(RunFiles[r], bytes, k)[f] = workspace[f]
           \/ \E i \in Steps(r) : RunFiles[r][i] = f /\ After(RunFiles[r], bytes, k)[f] = bytes[i]
<1> DEFINE writes == {i \in 1..k : RunFiles[r][i] = f}
<1>1. After(RunFiles[r], bytes, k)[f] = IF writes = {} THEN workspace[f] ELSE bytes[Max(writes)]
  BY DEF After
<1>2. RunFiles[r] \in Seq(Files) /\ Len(RunFiles[r]) \in Nat /\ k \in Nat
  BY ActionConstants
<1>3. 1..k \subseteq Steps(r)
  BY <1>2 DEF Steps
<1>4. ASSUME writes # {} PROVE Max(writes) \in writes
  BY <1>2, <1>4, Greatest
<1> QED
  BY <1>1, <1>3, <1>4

\* A file that the run names once, as its ith: it holds what it held before the ith
\* write, and the bytes of that write in the end.
LEMMA WrittenOnce ==
    ASSUME NEW r \in Runs, NEW bytes, NEW i \in Steps(r), RunFiles[r][i] \in NamedOnce(r)
    PROVE  LET f == RunFiles[r][i]
           IN  /\ After(RunFiles[r], bytes, i - 1)[f] = workspace[f]
               /\ After(RunFiles[r], bytes, Len(RunFiles[r]))[f] = bytes[i]
<1> DEFINE f == RunFiles[r][i]
           writes(k) == {j \in 1..k : RunFiles[r][j] = f}
           last == Len(RunFiles[r])
<1>1. RunFiles[r] \in Seq(Files) /\ last \in Nat /\ Steps(r) = 1..last
  BY ActionConstants DEF Steps
<1>2. f \in Files /\ i \in 1..last
  BY <1>1
<1>3. \A k : After(RunFiles[r], bytes, k)[f]
               = IF writes(k) = {} THEN workspace[f] ELSE bytes[Max(writes(k))]
  BY <1>2 DEF After
<1>4. \A j \in Steps(r) : RunFiles[r][j] = f => j = i
  BY DEF NamedOnce
<1>5. writes(i - 1) = {}
  BY <1>1, <1>2, <1>4
<1>6. writes(last) = {i}
  BY <1>1, <1>2, <1>4
<1>7. Max({i}) = i
  BY <1>2 DEF Max
<1> QED
  BY <1>3, <1>5, <1>6, <1>7

\* The first k files of a run written: each file holds the new bytes or what it held.
LEMMA AllWritten ==
    ASSUME ActionsInv, NEW r \in Runs, NEW bytes, bytes \in [Steps(r) -> Content],
           NEW k \in 0..Len(RunFiles[r]),
           workspace' = After(RunFiles[r], bytes, k),
           approved \subseteq approved', approved' \subseteq Content,
           \A i \in Steps(r) : bytes[i] \in approved' \cup Plain
    PROVE  FilesKept
<1>1. workspace \in [Files -> Content] /\ \A f \in Files : workspace[f] \in approved \cup Plain
  BY DEF ActionsInv, Typed, TypeOK, OnlyApprovedBytesLand, Plain
<1>2. \A f \in Files : workspace'[f] \in Content /\ workspace'[f] \in approved' \cup Plain
  <2> SUFFICES ASSUME NEW f \in Files
               PROVE  workspace'[f] \in Content /\ workspace'[f] \in approved' \cup Plain
    OBVIOUS
  <2>1. workspace'[f] = workspace[f] \/ \E i \in Steps(r) : workspace'[f] = bytes[i]
    BY WrittenOrKept
  <2> QED
    BY <1>1, <2>1
<1>3. workspace' = [f \in Files |-> workspace'[f]]
  BY Zenon DEF After
<1> QED
  BY <1>2, <1>3 DEF FilesKept

\* Some files of a run written, and one perhaps cut short.
LEMMA SomeWritten ==
    ASSUME ActionsInv, NEW r \in Runs, NEW bytes, bytes \in [Steps(r) -> Content],
           NEW k \in 0..Len(RunFiles[r]), workspace' \in PartlyWritten(RunFiles[r], bytes, k),
           approved \subseteq approved', approved' \subseteq Content,
           \A i \in Steps(r) : bytes[i] \in approved' \cup Plain
    PROVE  FilesKept
<1>1. PICK done : done = After(RunFiles[r], bytes, k)
  OBVIOUS
<1>2. workspace \in [Files -> Content] /\ \A f \in Files : workspace[f] \in approved \cup Plain
  BY DEF ActionsInv, Typed, TypeOK, OnlyApprovedBytesLand, Plain
<1>3. workspace' = done \/ \E f : workspace' = [done EXCEPT ![f] = Torn]
  BY <1>1 DEF PartlyWritten
<1>4. done = [f \in Files |-> done[f]]
  BY <1>1, Zenon DEF After
<1>5. \A f \in Files : workspace'[f] = done[f] \/ workspace'[f] = Torn
  BY <1>3, <1>4
<1>6. Torn \in Plain /\ Plain \subseteq Content
  BY ConstantFacts DEF Plain
<1>7. \A f \in Files : workspace'[f] \in Content /\ workspace'[f] \in approved' \cup Plain
  <2> SUFFICES ASSUME NEW f \in Files
               PROVE  workspace'[f] \in Content /\ workspace'[f] \in approved' \cup Plain
    OBVIOUS
  <2>1. done[f] = workspace[f] \/ \E i \in Steps(r) : done[f] = bytes[i]
    BY <1>1, WrittenOrKept
  <2> QED
    BY <1>2, <1>5, <1>6, <2>1
<1>8. workspace' = [f \in Files |-> workspace'[f]]
  BY <1>3, <1>4
<1> QED
  BY <1>7, <1>8 DEF FilesKept

\* approve(): the promoted bytes are approved ones, and the backups what they replaced.
LEMMA ApproveKeepsInv ==
    ASSUME ActionsInv, NEW r \in Runs, approve(r)
    PROVE  ActionsInv'
<1>1. Approvable(r) /\ Known(r) /\ runs[r] \in RunRecord(r) /\ r <= planned
  BY ShadowBytes, KnownRun DEF approve
<1>2. /\ shadows' = [q \in Runs |-> shadows'[q]] /\ shadows'[r] = None
      /\ \A q \in Runs \ {r} : shadows'[q] = shadows[q]
  BY ShadowsKept DEF approve
<1>3. CallsKept /\ UNCHANGED <<planned, rejected>>
  BY CallsUntouched DEF approve
<1>4. CASE Promotes(r)
  <2>1. PICK record : record = [runs[r] EXCEPT !.status = "PROMOTED", !.backups = Backups(r)]
    OBVIOUS
  <2>2. workspace \in [Files -> Content] /\ \A f \in Files : workspace[f] \in approved \cup Plain
    BY DEF ActionsInv, Typed, TypeOK, OnlyApprovedBytesLand, Plain
  <2>3. /\ Backups(r) \in [Steps(r) -> Content] /\ "PROMOTED" \in Statuses
        /\ \A i \in Steps(r) :
             Backups(r)[i] \in approved \cup Plain \cup {shadows[r][f] : f \in FilesOf(r)}
    <3> DEFINE held(i) == After(RunFiles[r], Promotion(r), i - 1)[RunFiles[r][i]]
    <3>1. ASSUME NEW i \in Steps(r)
          PROVE  /\ held(i) \in Content
                 /\ held(i) \in approved \cup Plain \cup {shadows[r][f] : f \in FilesOf(r)}
      <4>1. RunFiles[r][i] \in Files /\ i - 1 \in 0..Len(RunFiles[r])
        BY ActionConstants DEF Steps
      <4>2. \/ held(i) = workspace[RunFiles[r][i]]
            \/ \E j \in Steps(r) : held(i) = Promotion(r)[j]
        BY <4>1, WrittenOrKept
      <4> QED
        BY <1>1, <2>2, <4>1, <4>2, ShadowBytes
    <3>2. Backups(r) = [i \in Steps(r) |-> held(i)]
      BY DEF Backups
    <3> HIDE DEF held
    <3> QED
      BY <3>1, <3>2 DEF Statuses
  <2>4. Amends(r, record, runs[r]) /\ record.status = "PROMOTED" /\ record.backups = Backups(r)
    <3>1. Backups(r) \in [Steps(r) -> Content] \cup {None}
      BY <2>3
    <3> QED
      BY <1>1, <2>1, <2>3, <3>1, Zenon DEF Amends, RunRecord
  <2>5. record \in RunRecord(r) /\ record.questions = runs[r].questions /\ record # None
    BY <2>4, ConstantFacts DEF Amends
  <2>6. UpdatedTo(r, record)
    BY <1>4, <2>1, <2>5, UpdateEffect DEF approve, ActionsInv
  <2>7. /\ approved' = approved \cup {shadows[r][f] : f \in FilesOf(r)}
        /\ workspace' = After(RunFiles[r], Promotion(r), Len(RunFiles[r]))
    BY <1>4 DEF approve, Promotes
  <2>8. /\ approved \subseteq approved' /\ approved' \subseteq Content
        /\ {shadows[r][f] : f \in FilesOf(r)} \subseteq approved'
    BY <1>1, <2>7, ShadowBytes DEF ActionsInv, Typed, TypeOK
  <2>9. FilesKept
    <3>1. PICK bytes, k : bytes = Promotion(r) /\ k = Len(RunFiles[r])
      OBVIOUS
    <3>2. k \in 0..Len(RunFiles[r])
      BY <3>1, ActionConstants
    <3> QED
      BY <1>1, <2>7, <2>8, <3>1, <3>2, ShadowBytes, AllWritten
  <2>10. /\ replaced' = [q \in Runs |-> replaced'[q]]
         /\ replaced'[r] = [f \in FilesOf(r) |-> workspace[f]]
         /\ \A q \in Runs \ {r} : replaced'[q] = replaced[q]
    <3>1. replaced' = [replaced EXCEPT ![r] = [f \in FilesOf(r) |-> workspace[f]]]
      BY <1>4 DEF approve
    <3> QED
      BY <3>1, KnownRun
  <2>13. replaced'[r] \in [FilesOf(r) -> Content]
    BY <2>2, <2>10, ConstantFacts
  <2>14. Captured(r, Backups(r), replaced'[r])
    <3> SUFFICES ASSUME NEW i \in Steps(r), RunFiles[r][i] \in NamedOnce(r)
                 PROVE  Backups(r)[i] = replaced'[r][RunFiles[r][i]]
      BY DEF Captured
    <3>1. Backups(r)[i] = workspace[RunFiles[r][i]]
      BY WrittenOnce DEF Backups
    <3>2. RunFiles[r][i] \in FilesOf(r)
      BY DEF FilesOf
    <3> QED
      BY <2>10, <3>1, <3>2
  <2>11. Surroundings
    BY <1>2, <1>3, <2>9, <2>10, KnownRun DEF Surroundings, BooksKept
  <2>12. Landed(r, runs[r])'
    <3>1. runs'[r] = record /\ Backups(r) # None
      BY <2>3, <2>6, ConstantFacts DEF UpdatedTo
    <3> QED
      BY <2>3, <2>4, <2>8, <3>1 DEF Landed
  <2> QED
    BY <1>1, <1>2, <1>3, <2>4, <2>5, <2>6, <2>10, <2>11, <2>12, <2>13, <2>14, OneRunWritten
<1>5. CASE ~Promotes(r)
  <2>1. PICK record : record = [runs[r] EXCEPT !.status = "REFUSED", !.backups = None]
    OBVIOUS
  <2>2. Amends(r, record, runs[r]) /\ record.status = "REFUSED" /\ record.backups = None
    <3>1. None \in [Steps(r) -> Content] \cup {None} /\ "REFUSED" \in Statuses
      BY DEF Statuses
    <3> QED
      BY <1>1, <2>1, <3>1, Zenon DEF Amends, RunRecord
  <2>3. record \in RunRecord(r) /\ record.questions = runs[r].questions /\ record # None
    BY <2>2, ConstantFacts DEF Amends
  <2>4. UpdatedTo(r, record) /\ UNCHANGED <<workspace, approved, replaced>>
    BY <1>5, <2>1, <2>3, UpdateEffect DEF approve, ActionsInv
  <2>5. Surroundings
    BY <1>2, <1>3, <2>4, KnownRun, FilesUntouched DEF Surroundings, BooksKept
  <2>6. Landed(r, runs[r])'
    BY <2>2, <2>4, StillLanded DEF UpdatedTo, ActionsInv
  <2> QED
    BY <1>1, <1>2, <1>3, <2>2, <2>3, <2>4, <2>5, <2>6, OneRunWritten, KnownRun
<1> QED
  BY <1>4, <1>5

\* reject(): only the status changes, and the shadow goes.
LEMMA RejectKeepsInv ==
    ASSUME ActionsInv, NEW r \in Runs, reject(r)
    PROVE  ActionsInv'
<1>1. Known(r) /\ runs[r] \in RunRecord(r) /\ r <= planned
  BY KnownRun DEF reject
<1>2. PICK record : record = [runs[r] EXCEPT !.status = "REJECTED"]
  OBVIOUS
<1>3. /\ Amends(r, record, runs[r]) /\ record.status = "REJECTED"
      /\ record.backups = runs[r].backups
  <2>1. "REJECTED" \in Statuses
    BY DEF Statuses
  <2> QED
    BY <1>1, <1>2, <2>1, Zenon DEF Amends, RunRecord
<1>4. record \in RunRecord(r) /\ record.questions = runs[r].questions /\ record # None
  BY <1>3, ConstantFacts DEF Amends
<1>5. UpdatedTo(r, record)
  BY <1>2, <1>4, UpdateEffect DEF reject, ActionsInv
<1>6. /\ shadows' = [q \in Runs |-> shadows'[q]] /\ shadows'[r] = None
      /\ \A q \in Runs \ {r} : shadows'[q] = shadows[q]
  BY ShadowsKept DEF reject
<1>7. Surroundings
  BY <1>6, KnownRun, FilesUntouched, CallsUntouched DEF reject, Surroundings, BooksKept
<1>8. Landed(r, runs[r])'
  BY <1>1, <1>3, <1>5, StillLanded DEF UpdatedTo, ActionsInv, reject
<1> QED
  BY <1>1, <1>3, <1>4, <1>5, <1>6, <1>7, <1>8, OneRunWritten, KnownRun DEF reject

\* restore(): what lands was there before.
LEMMA RestoreKeepsInv ==
    ASSUME ActionsInv, NEW r \in Runs, restore(r)
    PROVE  /\ ActionsInv' /\ runs'[r] # None /\ runs'[r].status = "RESTORED"
           /\ workspace' = After(RunFiles[r], runs[r].backups, Len(RunFiles[r]))
<1>1. Known(r) /\ runs[r] \in RunRecord(r) /\ r <= planned /\ Restorable(r) /\ shadows[r] = None
  BY KnownRun DEF restore, Restorable, ActionsInv, ShadowIsTheCurrentAttempt
<1>2. PICK record : record = [runs[r] EXCEPT !.status = "RESTORED"]
  OBVIOUS
<1>3. /\ Amends(r, record, runs[r]) /\ record.status = "RESTORED"
      /\ record.backups = runs[r].backups
  <2>1. "RESTORED" \in Statuses
    BY DEF Statuses
  <2> QED
    BY <1>1, <1>2, <2>1, Zenon DEF Amends, RunRecord
<1>4. record \in RunRecord(r) /\ record.questions = runs[r].questions /\ record # None
  BY <1>3, ConstantFacts DEF Amends
<1>5. UpdatedTo(r, record)
  BY <1>2, <1>4, UpdateEffect DEF restore, ActionsInv
<1>6. FilesKept
  <2>1. PICK bytes, k : bytes = runs[r].backups /\ k = Len(RunFiles[r])
    OBVIOUS
  <2>2. /\ workspace' = After(RunFiles[r], bytes, k) /\ k \in 0..Len(RunFiles[r])
        /\ approved' = approved /\ approved \subseteq Content
    BY <2>1, ActionConstants DEF restore, ActionsInv, Typed, TypeOK
  <2>3. /\ bytes \in [Steps(r) -> Content]
        /\ \A i \in Steps(r) : bytes[i] \in approved \cup Plain
    BY <1>1, <2>1, BackupBytes
  <2> QED
    BY <2>2, <2>3, AllWritten
<1>7. Surroundings
  BY <1>6, KnownRun, CallsUntouched DEF restore, Surroundings, BooksKept
<1>8. Landed(r, runs[r])'
  BY <1>1, <1>3, <1>5, StillLanded DEF UpdatedTo, ActionsInv, restore
<1> QED
  <2>1. ActionsInv'
    BY <1>1, <1>3, <1>4, <1>5, <1>6, <1>7, <1>8, OneRunWritten, KnownRun DEF restore
  <2> QED
    BY <1>3, <1>4, <1>5, <2>1 DEF UpdatedTo, restore

\* A person's edit brings no bytes of a run.
LEMMA EditKeepsInv ==
    ASSUME ActionsInv, NEW g \in Files, edit(g)
    PROVE  ActionsInv'
<1>1. /\ UNCHANGED <<runs, shadows, stored, repairing, answering, planned, faults, unsaved>>
      /\ UNCHANGED <<approved, replaced, rejected>>
  BY DEF edit, history
<1>2. workspace \in [Files -> Content] /\ \A f \in Files : workspace[f] \in approved \cup Plain
  BY DEF ActionsInv, Typed, TypeOK, OnlyApprovedBytesLand, Plain
<1>3. FilesKept
  BY <1>1, <1>2 DEF edit, FilesKept, Plain, Content, ActionsInv, Typed, TypeOK
<1>4. Surroundings
  BY <1>1, <1>3, KnownRun, CallsUntouched, ConstantFacts
     DEF Surroundings, BooksKept, ActionsInv, Typed, TypeOK, Shapes
<1> QED
  BY <1>1, <1>4, NoRunWritten DEF ActionsInv, Typed, TypeOK

\* A decision that the ledger refuses only drops the shadow.
LEMMA UnrecordedKeepsInv ==
    ASSUME ActionsInv, NEW r \in Runs, decisionUnrecorded(r)
    PROVE  ActionsInv'
<1>1. /\ UNCHANGED <<workspace, runs, stored, repairing, answering, planned, unsaved>>
      /\ UNCHANGED <<approved, replaced, rejected>>
  BY DEF decisionUnrecorded, history
<1>2. faults' \in 0..MaxFaults
  BY ConstantFacts DEF decisionUnrecorded, Faulty, Failing, ActionsInv, Typed, TypeOK
<1>3. /\ shadows' = [q \in Runs |-> shadows'[q]] /\ shadows'[r] = None
      /\ \A q \in Runs \ {r} : shadows'[q] = shadows[q]
  BY ShadowsKept DEF decisionUnrecorded
<1>4. Surroundings
  BY <1>1, <1>3, KnownRun, FilesUntouched, CallsUntouched DEF Surroundings, BooksKept
<1> QED
  BY <1>1, <1>2, <1>3, <1>4, NoRunWritten

----------------------------------------------------------------------------
(* Promotions and restores cut short, and restarts                         *)

\* #promote that stops part-way lands only approved bytes, or a torn file.
LEMMA PromotionCutShort ==
    ASSUME ActionsInv, NEW r \in Runs, NEW k \in 0..Len(RunFiles[r]), Approvable(r),
           workspace' \in PartlyWritten(RunFiles[r], Promotion(r), k),
           approved' = approved \cup {shadows[r][f] : f \in FilesOf(r)}
    PROVE  FilesKept
<1>1. PICK bytes : bytes = Promotion(r)
  OBVIOUS
<1>2. bytes \in [Steps(r) -> Content] /\ workspace' \in PartlyWritten(RunFiles[r], bytes, k)
  BY <1>1, ShadowBytes
<1>3. /\ approved \subseteq approved' /\ approved' \subseteq Content
      /\ \A i \in Steps(r) : bytes[i] \in approved' \cup Plain
  BY <1>1, ShadowBytes DEF ActionsInv, Typed, TypeOK
<1> QED
  BY <1>2, <1>3, SomeWritten

\* restore() that stops part-way lands only what was there, or a torn file.
LEMMA RestoreCutShort ==
    ASSUME ActionsInv, NEW r \in Runs, NEW k \in 0..Len(RunFiles[r]), Restorable(r),
           workspace' \in PartlyWritten(RunFiles[r], runs[r].backups, k), approved' = approved
    PROVE  FilesKept
<1>1. PICK bytes : bytes = runs[r].backups
  OBVIOUS
<1>2. /\ bytes \in [Steps(r) -> Content] /\ workspace' \in PartlyWritten(RunFiles[r], bytes, k)
      /\ \A i \in Steps(r) : bytes[i] \in approved' \cup Plain
  BY <1>1, BackupBytes
<1>3. approved \subseteq approved' /\ approved' \subseteq Content
  BY DEF ActionsInv, Typed, TypeOK
<1> QED
  BY <1>2, <1>3, SomeWritten

\* #promote throws: the shadow is dropped, no record changes.
LEMMA PromoteThrowsKeepsInv ==
    ASSUME ActionsInv, NEW r \in Runs, NEW k \in 0..Len(RunFiles[r]), promoteThrows(r, k)
    PROVE  ActionsInv'
<1>1. UNCHANGED <<runs, stored, repairing, answering, planned, unsaved, replaced, rejected>>
  BY DEF promoteThrows
<1>2. FilesKept
  BY PromotionCutShort DEF promoteThrows
<1>3. faults' \in 0..MaxFaults
  BY ConstantFacts DEF promoteThrows, Faulty, Failing, ActionsInv, Typed, TypeOK
<1>4. /\ shadows' = [q \in Runs |-> shadows'[q]] /\ shadows'[r] = None
      /\ \A q \in Runs \ {r} : shadows'[q] = shadows[q]
  BY ShadowsKept DEF promoteThrows
<1>5. Surroundings
  BY <1>1, <1>2, <1>4, KnownRun, CallsUntouched DEF Surroundings, BooksKept
<1> QED
  BY <1>1, <1>3, <1>4, <1>5, NoRunWritten

\* A restart reads the run files: memory is then what the disk says.
LEMMA RestartKeepsInv ==
    ASSUME ActionsInv, Restarted, FilesKept, faults' \in 0..MaxFaults,
           UNCHANGED <<replaced, rejected>>
    PROVE  ActionsInv'
<1> USE DEF ActionsInv
<1>1. /\ runs' = stored /\ stored' = stored /\ planned' = planned /\ unsaved' = unsaved
      /\ shadows' = [r \in Runs |-> None]
      /\ repairing' = [r \in Runs |-> 0] /\ answering' = [r \in Runs |-> 0]
  BY DEF Restarted
<1>2. \A r \in Runs : shadows'[r] = None /\ repairing'[r] = 0 /\ answering'[r] = 0
  BY <1>1
<1>3. Typed'
  <2>1. \A r \in Runs :
          /\ runs'[r] \in RunRecord(r) \cup {None} /\ stored'[r] \in RunRecord(r) \cup {None}
          /\ shadows'[r] \in [FilesOf(r) -> Content] \cup {None}
          /\ replaced'[r] \in [FilesOf(r) -> Content] \cup {None}
          /\ r > planned' => runs'[r] = None /\ stored'[r] = None
    BY <1>1, <1>2, Zenon DEF Typed, TypeOK
  <2>2. repairing' \in [Runs -> 0..MaxCalls] /\ answering' \in [Runs -> 0..MaxCalls]
    BY <1>1, ConstantFacts
  <2>3. Shapes'
    BY <1>1 DEF Typed, Shapes
  <2>4. /\ workspace' \in [Files -> Content] /\ approved' \subseteq Content
        /\ planned' \in 0..MaxRuns /\ unsaved' \subseteq Runs /\ rejected' \subseteq Runs
    BY <1>1 DEF FilesKept, Typed, TypeOK
  <2> QED
    BY <2>1, <2>2, <2>3, <2>4, Zenon DEF Typed, TypeOK
<1>4. CallsKnown'
  BY <1>1, <1>2 DEF CallsKnown, Known
<1>5. BackupsLanded'
  <2> SUFFICES ASSUME NEW r \in Runs
               PROVE  Landed(r, stored[r])'
    BY <1>1 DEF BackupsLanded
  <2> QED
    BY <1>1 DEF BackupsLanded, Landed, FilesKept
<1>6. BackupsAreReplaced'
  <2> SUFFICES ASSUME NEW r \in Runs, r \notin unsaved, stored[r] # None,
                      stored[r].status = "PROMOTED"
               PROVE  Captured(r, stored[r].backups, replaced[r])
    BY <1>1 DEF BackupsAreReplaced, Known, Status
  <2>1. Known(r)
    BY DEF CallsKnown
  <2>2. stored[r] = runs[r]
    BY <2>1 DEF DiskAgreesWithMemory
  <2> QED
    BY <2>1, <2>2 DEF BackupsAreReplaced, Status
<1>7. ShadowIsTheCurrentAttempt'
  BY <1>2 DEF ShadowIsTheCurrentAttempt
<1>8. OnlyApprovedBytesLand'
  BY DEF OnlyApprovedBytesLand, FilesKept, Plain
<1>9. DiskAgreesWithMemory'
  BY <1>1 DEF DiskAgreesWithMemory
<1> QED
  BY <1>3, <1>4, <1>5, <1>6, <1>7, <1>8, <1>9

\* Whatever restarts the process.
LEMMA CrashesKeepInv ==
    ASSUME ActionsInv,
           \/ crash
           \/ \E r \in Runs : \E k \in 0..Len(RunFiles[r]) :
                crashInPromote(r, k) \/ restoreInterrupted(r, k)
    PROVE  ActionsInv'
<1>1. ASSUME Faulty(TRUE) PROVE faults' \in 0..MaxFaults
  BY <1>1, ConstantFacts DEF Faulty, Failing, ActionsInv, Typed, TypeOK
<1>2. CASE crash
  BY <1>1, <1>2, FilesUntouched, RestartKeepsInv DEF crash
<1>3. ASSUME NEW r \in Runs, NEW k \in 0..Len(RunFiles[r]), crashInPromote(r, k)
      PROVE  ActionsInv'
  <2>1. FilesKept
    BY <1>3, PromotionCutShort DEF crashInPromote
  <2> QED
    BY <1>1, <1>3, <2>1, RestartKeepsInv DEF crashInPromote
<1>4. ASSUME NEW r \in Runs, NEW k \in 0..Len(RunFiles[r]), restoreInterrupted(r, k)
      PROVE  ActionsInv'
  <2>1. FilesKept /\ faults' \in 0..MaxFaults
    BY <1>1, <1>4, RestoreCutShort DEF restoreInterrupted
  <2>2. CASE Restarted
    BY <1>4, <2>1, <2>2, RestartKeepsInv DEF restoreInterrupted
  <2>3. CASE UNCHANGED <<runs, shadows, stored, repairing, answering, planned, unsaved>>
    <3>1. UNCHANGED <<replaced, rejected>>
      BY <1>4 DEF restoreInterrupted
    <3>2. CallsKept
      BY <2>3, CallsUntouched
    <3>3. Surroundings
      BY <2>1, <2>3, <3>1, <3>2, KnownRun DEF Surroundings, BooksKept
    <3> QED
      BY <2>1, <2>3, <3>1, <3>3, NoRunWritten
  <2> QED
    BY <1>4, <2>2, <2>3 DEF restoreInterrupted
<1> QED
  BY <1>2, <1>3, <1>4

----------------------------------------------------------------------------
(* The theorems                                                            *)

\* The invariant holds at first.
LEMMA InitInv ==
    ASSUME Init
    PROVE  ActionsInv
<1>1. /\ workspace = Initial /\ planned = 0 /\ faults = 0
      /\ unsaved = {} /\ approved = {} /\ rejected = {}
      /\ runs = [r \in Runs |-> None] /\ stored = runs /\ shadows = runs /\ replaced = runs
      /\ repairing = [r \in Runs |-> 0] /\ answering = [r \in Runs |-> 0]
  BY DEF Init
<1>2. \A r \in Runs : /\ runs[r] = None /\ stored[r] = None /\ shadows[r] = None
                      /\ replaced[r] = None /\ repairing[r] = 0 /\ answering[r] = 0
  BY <1>1
<1>3. workspace \in [Files -> Content] /\ \A f \in Files : workspace[f] \in Plain
  BY <1>1, ActionConstants DEF Content, Plain
<1>4. Typed
  <2>1. Shapes
    BY <1>1 DEF Shapes
  <2>2. /\ repairing \in [Runs -> 0..MaxCalls] /\ answering \in [Runs -> 0..MaxCalls]
        /\ planned \in 0..MaxRuns /\ faults \in 0..MaxFaults
    BY <1>1, ConstantFacts
  <2>3. unsaved \subseteq Runs /\ rejected \subseteq Runs /\ approved \subseteq Content
    BY <1>1
  <2> QED
    BY <1>2, <1>3, <2>1, <2>2, <2>3 DEF Typed, TypeOK
<1>5. CallsKnown /\ BackupsLanded /\ BackupsAreReplaced
  BY <1>2 DEF CallsKnown, BackupsLanded, BackupsAreReplaced, Landed, Known
<1>6. ShadowIsTheCurrentAttempt /\ OnlyApprovedBytesLand /\ DiskAgreesWithMemory
  BY <1>2, <1>3 DEF ShadowIsTheCurrentAttempt, OnlyApprovedBytesLand, DiskAgreesWithMemory,
                    Known, Plain
<1> QED
  BY <1>4, <1>5, <1>6 DEF ActionsInv

\* Every step keeps the invariant.
LEMMA NextInv ==
    ASSUME ActionsInv, [Next]_vars
    PROVE  ActionsInv'
<1>1. CASE plan
  BY <1>1, PlanKeepsInv
<1>2. CASE crash
  BY <1>2, CrashesKeepInv
<1>3. ASSUME NEW f \in EditedFiles, edit(f)
      PROVE  ActionsInv'
  BY <1>3, EditKeepsInv, ActionConstants
<1>4. ASSUME NEW r \in Runs,
             \/ answer(r) \/ answerPlanned(r) \/ answerUnrecorded(r) \/ answerRefused(r)
             \/ measure(r)
             \/ repair(r) \/ repairAuthored(r) \/ repairRefused(r)
             \/ approve(r) \/ reject(r) \/ decisionUnrecorded(r) \/ restore(r)
      PROVE  ActionsInv'
  BY <1>4, WaitingKeepsInv, AnswerPlannedKeepsInv, AnswerUnrecordedKeepsInv, MeasureKeepsInv,
     RepairKeepsInv, ApproveKeepsInv, RejectKeepsInv, UnrecordedKeepsInv, RestoreKeepsInv
<1>5. ASSUME NEW r \in Runs, NEW k \in 0..Len(RunFiles[r]),
             promoteThrows(r, k) \/ crashInPromote(r, k) \/ restoreInterrupted(r, k)
      PROVE  ActionsInv'
  BY <1>5, PromoteThrowsKeepsInv, CrashesKeepInv
<1>6. CASE UNCHANGED vars
  <2>1. /\ UNCHANGED <<workspace, runs, shadows, stored, repairing, answering, planned, faults>>
        /\ UNCHANGED <<unsaved, approved, replaced, rejected>>
    BY <1>6 DEF vars, live, history
  <2>2. Surroundings
    BY <2>1, KnownRun, FilesUntouched, CallsUntouched, ConstantFacts
       DEF Surroundings, BooksKept, ActionsInv, Typed, TypeOK, Shapes
  <2> QED
    BY <2>1, <2>2, NoRunWritten DEF ActionsInv, Typed, TypeOK
<1> QED
  BY <1>1, <1>2, <1>3, <1>4, <1>5, <1>6 DEF Next

\* The inductive invariant of workspace actions.
THEOREM Invariance == Spec => []ActionsInv
<1>1. Init => ActionsInv
  BY InitInv
<1>2. ActionsInv /\ [Next]_vars => ActionsInv'
  BY NextInv
<1> QED
  BY <1>1, <1>2, PTL DEF Spec

\* plan(), answer(), measure(), repair(), approve(), reject() and restore() keep every
\* record, shadow, backup and count in its type.
THEOREM TypeCorrect == Spec => []TypeOK
<1>1. ActionsInv => TypeOK
  BY DEF ActionsInv, Typed
<1> QED
  BY <1>1, Invariance, PTL

\* The shadow an approval would promote is the attempt the run now carries, however
\* repairs, measurements, decisions and restarts interleave (repair(), #dropShadow).
THEOREM ApprovalSeesTheCurrentAttempt == Spec => []ShadowIsTheCurrentAttempt
<1>1. ActionsInv => ShadowIsTheCurrentAttempt
  BY DEF ActionsInv
<1> QED
  BY <1>1, Invariance, PTL

\* No bytes of a run are in the workspace unless a clean measurement of them was
\* approved, also after torn promotions, interrupted restores and lost saves (#promote).
THEOREM NothingLandsUnapproved == Spec => []OnlyApprovedBytesLand
<1>1. ActionsInv => OnlyApprovedBytesLand
  BY DEF ActionsInv
<1> QED
  BY <1>1, Invariance, PTL

\* A run whose last write succeeded is on disk as it is in memory, and prune() never
\* drops one that waits, for every retention (#saveRun).
THEOREM WaitingRunsAreKept == Spec => []DiskAgreesWithMemory
<1>1. ActionsInv => DiskAgreesWithMemory
  BY DEF ActionsInv
<1> QED
  BY <1>1, Invariance, PTL

----------------------------------------------------------------------------
(* The action properties                                                   *)

\* The operations that can give a run they know another record.
MayChange(r) ==
    \/ runs' = stored \/ repairAuthored(r) \/ answerPlanned(r)
    \/ measure(r) \/ approve(r) \/ reject(r) \/ restore(r)

\* A save changes the record of its own run alone.
LEMMA UpdateChangesOne ==
    ASSUME ActionsInv, NEW s \in Runs, NEW record, Update(s, record),
           NEW r \in Runs, r # s
    PROVE  runs'[r] = runs[r]
<1>1. runs = [q \in Runs |-> runs[q]] /\ runs' = [runs EXCEPT ![s] = record]
  BY DEF ActionsInv, Typed, Shapes, Update
<1> QED
  BY <1>1

\* plan() changes no run that is known.
LEMMA PlanningChangesNone ==
    ASSUME ActionsInv, NEW r \in Runs, Known(r), plan \/ \E s \in Runs : answerUnrecorded(s)
    PROVE  runs'[r] = runs[r]
<1>1. planned < MaxRuns /\ planned' = planned + 1
  BY DEF plan, answerUnrecorded
<1>2. planned' \in Runs /\ r # planned'
  BY <1>1, NewRun
<1>3. runs = [q \in Runs |-> runs[q]]
  BY DEF ActionsInv, Typed, Shapes
<1>4. \E record : runs' = [runs EXCEPT ![planned'] = record]
  BY Zenon DEF plan, answerUnrecorded, Update
<1> QED
  BY <1>2, <1>3, <1>4

\* No other operation changes the record of a known run.
LEMMA WhoChangesARun ==
    ASSUME ActionsInv, Next, NEW r \in Runs, Known(r), runs'[r] # runs[r]
    PROVE  MayChange(r)
<1>1. CASE plan
  BY <1>1, PlanningChangesNone
<1>2. CASE crash
  BY <1>2 DEF crash, Restarted, MayChange
<1>3. ASSUME NEW f \in EditedFiles, edit(f)
      PROVE  MayChange(r)
  BY <1>3 DEF edit
<1>4. ASSUME NEW s \in Runs,
             \/ answer(s) \/ answerUnrecorded(s) \/ answerRefused(s)
             \/ repair(s) \/ repairRefused(s) \/ decisionUnrecorded(s)
      PROVE  MayChange(r)
  BY <1>4, PlanningChangesNone DEF answer, answerRefused, repair, repairRefused, decisionUnrecorded
<1>5. ASSUME NEW s \in Runs, answerPlanned(s)
      PROVE  MayChange(r)
  BY <1>5, AnswerPlannedKeepsInv DEF MayChange
<1>6. ASSUME NEW s \in Runs,
             measure(s) \/ repairAuthored(s) \/ approve(s) \/ reject(s) \/ restore(s)
      PROVE  MayChange(r)
  <2>1. \E record : Update(s, record)
    BY <1>6, Zenon DEF measure, repairAuthored, approve, reject, restore
  <2>2. s = r
    BY <2>1, UpdateChangesOne
  <2> QED
    BY <1>6, <2>2 DEF MayChange
<1>7. ASSUME NEW s \in Runs, NEW k \in 0..Len(RunFiles[s]),
             promoteThrows(s, k) \/ crashInPromote(s, k) \/ restoreInterrupted(s, k)
      PROVE  MayChange(r)
  BY <1>7 DEF promoteThrows, crashInPromote, restoreInterrupted, Restarted, MayChange
<1> QED
  BY <1>1, <1>2, <1>3, <1>4, <1>5, <1>6, <1>7 DEF Next

\* A decided run changes only by restore(), by a repair() or answer() that was waiting
\* when the decision was taken, or by a restart that lost it (ALREADY_DECIDED).
THEOREM DecidedStaysDecided == Spec => DecisionsStand
<1>1. ASSUME ActionsInv, [Next]_vars,
             NEW r \in Runs, Known(r), Status(r) \notin Waiting, runs'[r] # runs[r]
      PROVE  \/ Status(r) = "PROMOTED" /\ runs'[r] # None /\ runs'[r].status = "RESTORED"
             \/ repairing[r] > 0 \/ answering[r] > 0
             \/ runs' = stored
  <2>1. MayChange(r)
    BY <1>1, WhoChangesARun DEF vars, live
  <2>2. ~measure(r) /\ ~approve(r) /\ ~reject(r)
    BY <1>1 DEF measure, Measurable, approve, Approvable, reject, Waiting
  <2>3. restore(r) => /\ Status(r) = "PROMOTED" /\ runs'[r] # None
                      /\ runs'[r].status = "RESTORED"
    BY <1>1, RestoreKeepsInv DEF restore, Restorable
  <2> QED
    BY <2>1, <2>2, <2>3 DEF MayChange, repairAuthored, answerPlanned
<1>2. ActionsInv /\ [Next]_vars =>
        [\A r \in Runs :
           Known(r) /\ Status(r) \notin Waiting /\ runs'[r] # runs[r] =>
             \/ Status(r) = "PROMOTED" /\ runs'[r] # None /\ runs'[r].status = "RESTORED"
             \/ repairing[r] > 0 \/ answering[r] > 0
             \/ runs' = stored]_vars
  BY <1>1
<1> QED
  BY <1>2, Invariance, PTL DEF Spec, DecisionsStand

\* A restore puts back, in every file that the run names once, what its promotion
\* replaced, unless the run's last save failed ("Writes back exactly what #promote captured").
THEOREM RestoresAreExact == Spec => RestoreReturnsWhatWasReplaced
<1>1. ASSUME ActionsInv, [Next]_vars, NEW r \in Runs \ unsaved, Known(r), runs'[r] # None,
             Status(r) = "PROMOTED", runs'[r].status = "RESTORED"
      PROVE  \A f \in NamedOnce(r) : workspace'[f] = replaced[r][f]
  <2>1. runs'[r] # runs[r] /\ ~UNCHANGED vars
    BY <1>1 DEF Status, vars, live
  <2>2. MayChange(r)
    BY <1>1, <2>1, WhoChangesARun
  <2>3. runs' # stored
    BY <1>1, <2>1 DEF ActionsInv, DiskAgreesWithMemory
  <2>4. ~measure(r) /\ ~approve(r) /\ ~reject(r)
    BY <1>1 DEF measure, Measurable, approve, Approvable, reject, Waiting
  <2>5. ~repairAuthored(r) /\ ~answerPlanned(r)
    BY <1>1, RepairKeepsInv, AnswerPlannedKeepsInv
  <2>6. restore(r)
    BY <2>2, <2>3, <2>4, <2>5 DEF MayChange
  <2>7. Captured(r, runs[r].backups, replaced[r])
    BY <1>1 DEF ActionsInv, BackupsAreReplaced
  <2>8. workspace' = After(RunFiles[r], runs[r].backups, Len(RunFiles[r]))
    BY <1>1, <2>6, RestoreKeepsInv
  <2> SUFFICES ASSUME NEW f \in NamedOnce(r)
               PROVE  workspace'[f] = replaced[r][f]
    OBVIOUS
  <2>9. PICK i \in Steps(r) : RunFiles[r][i] = f
    BY DEF NamedOnce, FilesOf
  <2> QED
    BY <2>7, <2>8, <2>9, WrittenOnce DEF Captured
<1>2. ActionsInv /\ [Next]_vars =>
        [\A r \in Runs \ unsaved :
           Known(r) /\ runs'[r] # None /\ Status(r) = "PROMOTED" /\ runs'[r].status = "RESTORED"
           => \A f \in NamedOnce(r) : workspace'[f] = replaced[r][f]]_vars
  BY <1>1
<1> QED
  BY <1>2, Invariance, PTL DEF Spec, RestoreReturnsWhatWasReplaced
=============================================================================
