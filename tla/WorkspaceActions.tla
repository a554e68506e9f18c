------------------------- MODULE WorkspaceActions -------------------------
(***************************************************************************)
(* workspace-actions.mjs with run-store.mjs: a planned change is measured  *)
(* in a shadow, approved or rejected by a person, promoted file by file    *)
(* into the workspace, and can be restored.                                *)
(*                                                                         *)
(* measure, approve, reject and restore run without yielding; repair and   *)
(* answer wait for a model between their checks and their assignments, and *)
(* any other call may come in between.  iterate is measure and repair in   *)
(* turn and keeps no state of its own.  Runs are written through to disk;  *)
(* shadows and calls in progress live in memory and die with the process.  *)
(*                                                                         *)
(* A file's content is where it came from: what attempt `rev` of a run     *)
(* leaves in it, the bytes it had at first, an edit by a person, or a      *)
(* write that was cut short.                                               *)
(***************************************************************************)
EXTENDS Naturals, Sequences, FiniteSets, FiniteSetsExt

CONSTANTS
    Files, MaxRuns,
    RunFiles,      \* the files of each run's step, in the order they are written;
                   \* plan() does not refuse a path that is named twice
    Initial,       \* what the workspace holds at first
    EditedFiles,   \* files a person works on meanwhile
    Derived,       \* runs whose files the search chose: candidates, not promises
    Original, Edited, Torn, Absent, None,
    Keep,          \* runRetention
    MaxAttempt, MaxCalls, MaxFaults   \* bounds of the model

Runs == 1..MaxRuns

Steps(r) == DOMAIN RunFiles[r]

FilesOf(r) == {RunFiles[r][i] : i \in Steps(r)}

NamedOnce(r) ==
    {f \in FilesOf(r) : \A i, j \in Steps(r) :
        RunFiles[r][i] = f /\ RunFiles[r][j] = f => i = j}

Authored(r, rev) == [run |-> r, rev |-> rev]

Content == [run : Runs, rev : 1..MaxAttempt] \cup {Original, Edited, Torn, Absent}

Statuses == {"PENDING_APPROVAL", "MEASURED", "PROMOTED", "REFUSED", "REJECTED",
             "ANSWERED", "RESTORED"}

\* What a run record holds.  backups, one for every write of the promotion, is None
\* until a promotion completes.
RunRecord(r) ==
    [status : Statuses, questions : BOOLEAN, attempt : 1..MaxAttempt,
     contents : [FilesOf(r) -> Content], authoredPaths : SUBSET FilesOf(r),
     clean : BOOLEAN, backups : [Steps(r) -> Content] \cup {None}]

ASSUME ActionConstants ==
    /\ MaxRuns \in Nat /\ Keep \in Nat /\ MaxFaults \in Nat /\ MaxCalls \in Nat
    /\ MaxAttempt \in Nat \ {0}
    /\ RunFiles \in [Runs -> Seq(Files)] /\ Derived \subseteq Runs
    /\ Initial \in [Files -> {Original, Absent}] /\ EditedFiles \subseteq Files
    /\ \A r \in Runs :
         None \notin RunRecord(r) \cup [FilesOf(r) -> Content] \cup [Steps(r) -> Content]

VARIABLES
    workspace,   \* the real files
    runs,        \* #runs
    shadows,     \* #shadows: the measured bytes of a run, or None
    stored,      \* the run files on disk
    repairing,   \* repair() calls waiting for the Author
    answering,   \* answer() calls waiting for plan()
    planned,     \* identifiers given out
    faults,      \* failed writes and crashes so far
    unsaved,     \* history: runs whose latest save failed, also over a restart
    approved,    \* history: contents of clean measurements a person approved
    replaced,    \* history: what the last complete promotion of a run replaced
    rejected     \* history: runs a person has rejected

live == <<workspace, runs, shadows, stored, repairing, answering, planned, faults>>

history == <<unsaved, approved, replaced, rejected>>

vars == <<live, history>>

Known(r) == runs[r] # None

Status(r) == runs[r].status

Waiting == {"PENDING_APPROVAL", "MEASURED"}

----------------------------------------------------------------------------
(* #saveRun, and the pruning that follows every save.                      *)

\* The protection as it was before runs could be MEASURED.
ProtectedIfPending(memory) ==
    {q \in Runs : memory[q] # None /\ memory[q].status = "PENDING_APPROVAL"}

Protected(memory) == {q \in Runs : memory[q] # None /\ memory[q].status \in Waiting}

\* prune() keeps the most recently saved.  Seconds order them, and names within
\* one second, so any choice of the kept ones is possible.
prune(disk, memory) ==
    LET candidates == {q \in Runs : disk[q] # None} \ Protected(memory)
        kept(K) == [q \in Runs |-> IF q \in candidates \ K THEN None ELSE disk[q]]
        size == IF Cardinality(candidates) < Keep THEN Cardinality(candidates) ELSE Keep
    IN  {kept(K) : K \in {S \in SUBSET candidates : Cardinality(S) = size}}

\* The directories a save of r may leave; a failed write is reported, not fatal.
saveRun(disk, memory, r, written) ==
    prune(IF written THEN [disk EXCEPT ![r] = memory[r]] ELSE disk, memory)

Failing(number) == faults + number <= MaxFaults /\ faults' = faults + number

Faulty(happened) == Failing(IF happened THEN 1 ELSE 0)

\* The new record of r, in memory and on disk.
Update(r, record) ==
    \E written \in BOOLEAN :
        /\ Faulty(~written)
        /\ runs' = [runs EXCEPT ![r] = record]
        /\ stored' \in saveRun(stored, runs', r, written)
        /\ unsaved' = IF written THEN unsaved \ {r} ELSE unsaved \cup {r}

----------------------------------------------------------------------------
(* plan() and answer()                                                     *)

\* What plan() makes.  A file the search chose and the Author left alone is
\* carried as it was read.
PlannedRecord(r, questions, authored) ==
    [status |-> "PENDING_APPROVAL", questions |-> questions, attempt |-> 1,
     contents |-> [f \in FilesOf(r) |->
                     IF f \in authored THEN Authored(r, 1) ELSE workspace[f]],
     authoredPaths |-> authored, clean |-> FALSE, backups |-> None]

\* Named files carry bytes of this run, the Author's or the caller's; of the
\* derived ones the Author writes some.  With questions open nothing is authored,
\* and what such a run carries is never measured.
Planned(r) ==
    {PlannedRecord(r, FALSE, authored) :
        authored \in IF r \in Derived THEN SUBSET FilesOf(r) ELSE {FilesOf(r)}}
      \cup {PlannedRecord(r, TRUE, {})}

plan ==
    /\ planned < MaxRuns
    /\ planned' = planned + 1
    /\ \E record \in Planned(planned') : Update(planned', record)
    /\ UNCHANGED <<workspace, shadows, repairing, answering, approved, replaced, rejected>>

\* The checks of answer(), up to its await of plan().
answer(r) ==
    /\ Known(r) /\ Status(r) = "PENDING_APPROVAL" /\ runs[r].questions
    /\ answering[r] < MaxCalls
    /\ answering' = [answering EXCEPT ![r] = @ + 1]
    /\ UNCHANGED <<workspace, runs, shadows, stored, repairing, planned, faults, history>>

\* plan() made a successor; the run is ANSWERED, whatever it has become.  Either
\* save may fail.
answerPlanned(r) ==
    /\ answering[r] > 0
    /\ planned < MaxRuns
    /\ answering' = [answering EXCEPT ![r] = @ - 1]
    /\ planned' = planned + 1
    /\ \E record \in Planned(planned'), failed \in SUBSET {r, planned'} :
         LET created == [runs EXCEPT ![planned'] = record]
         IN  /\ Failing(Cardinality(failed))
             /\ runs' = [created EXCEPT ![r].status = "ANSWERED"]
             /\ \E disk \in saveRun(stored, created, planned', planned' \notin failed) :
                  stored' \in saveRun(disk, runs', r, r \notin failed)
             /\ unsaved' = (unsaved \ {r}) \cup failed
    /\ UNCHANGED <<workspace, shadows, repairing, approved, replaced, rejected>>

\* The successor is made and saved, if it can be, and then the ledger refuses the
\* event: the answered run goes on waiting with its questions.
answerUnrecorded(r) ==
    /\ answering[r] > 0
    /\ planned < MaxRuns
    /\ answering' = [answering EXCEPT ![r] = @ - 1]
    /\ planned' = planned + 1
    /\ \E record \in Planned(planned'), failed \in SUBSET {planned'} :
         /\ Failing(1 + Cardinality(failed))
         /\ runs' = [runs EXCEPT ![planned'] = record]
         /\ stored' \in saveRun(stored, runs', planned', failed = {})
         /\ unsaved' = unsaved \cup failed
    /\ UNCHANGED <<workspace, shadows, repairing, approved, replaced, rejected>>

answerRefused(r) ==
    /\ answering[r] > 0
    /\ answering' = [answering EXCEPT ![r] = @ - 1]
    /\ UNCHANGED <<workspace, runs, shadows, stored, repairing, planned, faults, history>>

----------------------------------------------------------------------------
(* measure() and repair()                                                  *)

\* Named files must all change; of derived ones, those the Author wrote.
Expected(r) == IF r \in Derived THEN runs[r].authoredPaths ELSE FilesOf(r)

Changed(r) == {f \in FilesOf(r) : runs[r].contents[f] # workspace[f]}

\* measure() of a run in any state whose shadow is not there.
MeasurableWithoutShadow(r) ==
    Known(r) /\ ~runs[r].questions /\ shadows[r] = None

\* Also the recovery of a run whose shadow the process lost.
Measurable(r) ==
    /\ Known(r) /\ ~runs[r].questions
    /\ \/ Status(r) = "PENDING_APPROVAL"
       \/ Status(r) = "MEASURED" /\ shadows[r] = None

\* The commands decide; but a clean run changed exactly what it declared.
measure(r) ==
    /\ Measurable(r)
    /\ \E clean \in BOOLEAN :
         /\ clean => Changed(r) = Expected(r)
         /\ Update(r, [runs[r] EXCEPT !.status = "MEASURED", !.clean = clean])
    /\ shadows' = [shadows EXCEPT ![r] = runs[r].contents]
    /\ UNCHANGED <<workspace, repairing, answering, planned, approved, replaced, rejected>>

\* The checks of repair(), up to its await of the Author.
repair(r) ==
    /\ Known(r) /\ Status(r) = "MEASURED" /\ ~runs[r].clean
    /\ repairing[r] < MaxCalls
    /\ repairing' = [repairing EXCEPT ![r] = @ + 1]
    /\ UNCHANGED <<workspace, runs, shadows, stored, answering, planned, faults, history>>

Repaired(r, paths) ==
    [runs[r] EXCEPT
        !.attempt = @ + 1,
        !.contents = [f \in FilesOf(r) |-> IF f \in paths THEN Authored(r, runs[r].attempt + 1)
                                           ELSE runs[r].contents[f]],
        !.authoredPaths = @ \cup paths]

\* A repair that leaves the measurement and the shadow of the last attempt.
RepairKeepingMeasurement(r) ==
    /\ repairing[r] > 0
    /\ runs[r].attempt < MaxAttempt
    /\ repairing' = [repairing EXCEPT ![r] = @ - 1]
    /\ \E paths \in SUBSET FilesOf(r) : Update(r, Repaired(r, paths))
    /\ UNCHANGED <<workspace, shadows, answering, planned, approved, replaced, rejected>>

\* The Author answered: new bytes, no measurement, PENDING_APPROVAL again.
repairAuthored(r) ==
    /\ repairing[r] > 0
    /\ runs[r].attempt < MaxAttempt
    /\ repairing' = [repairing EXCEPT ![r] = @ - 1]
    /\ shadows' = [shadows EXCEPT ![r] = None]
    /\ \E paths \in SUBSET FilesOf(r) :
         Update(r, [Repaired(r, paths) EXCEPT !.status = "PENDING_APPROVAL", !.clean = FALSE])
    /\ UNCHANGED <<workspace, answering, planned, approved, replaced, rejected>>

repairRefused(r) ==
    /\ repairing[r] > 0
    /\ repairing' = [repairing EXCEPT ![r] = @ - 1]
    /\ UNCHANGED <<workspace, runs, shadows, stored, answering, planned, faults, history>>

----------------------------------------------------------------------------
(* approve(), #promote and reject()                                        *)

Approvable(r) == Known(r) /\ Status(r) = "MEASURED" /\ shadows[r] # None

\* An approval that promotes whatever was measured.
PromotesAnything(r) == TRUE

Promotes(r) == runs[r].clean

\* The workspace when the first k files of a list have been given their bytes: of a
\* file that the list names twice, the last write counts.
After(files, bytes, k) ==
    [f \in Files |->
        LET writes == {i \in 1..k : files[i] = f}
        IN  IF writes = {} THEN workspace[f] ELSE bytes[Max(writes)]]

\* And when the (k+1)st write may have been cut short.
PartlyWritten(files, bytes, k) ==
    {After(files, bytes, k)}
      \cup {[After(files, bytes, k) EXCEPT ![files[i]] = Torn] : i \in {k + 1} \cap DOMAIN files}

\* What #promote writes, in the order of the run's files.
Promotion(r) == [i \in Steps(r) |-> shadows[r][RunFiles[r][i]]]

\* Backups only of the files that the promotion will change.
BackupsOfChanged(r) ==
    [i \in {j \in Steps(r) : RunFiles[r][j] \in Changed(r)} |-> workspace[RunFiles[r][i]]]

\* Backups read after the write.
BackupsTooLate(r) ==
    [i \in Steps(r) |-> After(RunFiles[r], Promotion(r), i)[RunFiles[r][i]]]

\* Each file is read just before it is written, so that the second backup of a file
\* named twice holds what this promotion wrote.
Backups(r) ==
    [i \in Steps(r) |-> After(RunFiles[r], Promotion(r), i - 1)[RunFiles[r][i]]]

\* The approver's answer: promoted if the measurement was clean, else REFUSED.
approve(r) ==
    /\ Approvable(r)
    /\ shadows' = [shadows EXCEPT ![r] = None]
    /\ IF Promotes(r)
       THEN /\ workspace' = After(RunFiles[r], Promotion(r), Len(RunFiles[r]))
            /\ Update(r, [runs[r] EXCEPT !.status = "PROMOTED", !.backups = Backups(r)])
            /\ approved' = IF runs[r].clean
                           THEN approved \cup {shadows[r][f] : f \in FilesOf(r)} ELSE approved
            /\ replaced' = [replaced EXCEPT ![r] = [f \in FilesOf(r) |-> workspace[f]]]
       ELSE /\ Update(r, [runs[r] EXCEPT !.status = "REFUSED", !.backups = None])
            /\ UNCHANGED <<workspace, approved, replaced>>
    /\ UNCHANGED <<repairing, answering, planned, rejected>>

\* The process dies and starts again: runs come from disk, nothing else does.
Restarted ==
    /\ runs' = stored
    /\ shadows' = [r \in Runs |-> None]
    /\ repairing' = [r \in Runs |-> 0] /\ answering' = [r \in Runs |-> 0]
    /\ UNCHANGED <<stored, planned, unsaved>>

\* #promote throws at file k + 1, or the ledger refuses the event once all are
\* written: the shadow is dropped, the run stays MEASURED and has no backups.
promoteThrows(r, k) ==
    /\ Approvable(r) /\ Promotes(r)
    /\ Faulty(TRUE)
    /\ workspace' \in PartlyWritten(RunFiles[r], Promotion(r), k)
    /\ approved' = approved \cup {shadows[r][f] : f \in FilesOf(r)}
    /\ shadows' = [shadows EXCEPT ![r] = None]
    /\ UNCHANGED <<runs, stored, repairing, answering, planned, unsaved, replaced, rejected>>

\* The process dies while it promotes, or before the promotion is saved.
crashInPromote(r, k) ==
    /\ Approvable(r) /\ Promotes(r)
    /\ Faulty(TRUE)
    /\ workspace' \in PartlyWritten(RunFiles[r], Promotion(r), k)
    /\ approved' = approved \cup {shadows[r][f] : f \in FilesOf(r)}
    /\ Restarted
    /\ UNCHANGED <<replaced, rejected>>

\* A rejection, or the approval of an unclean run, that the ledger refuses to
\* record: the shadow is gone and the run is still MEASURED.
decisionUnrecorded(r) ==
    /\ Approvable(r)
    /\ Faulty(TRUE)
    /\ shadows' = [shadows EXCEPT ![r] = None]
    /\ UNCHANGED <<workspace, runs, stored, repairing, answering, planned, history>>

reject(r) ==
    /\ Known(r) /\ Status(r) \in Waiting
    /\ shadows' = [shadows EXCEPT ![r] = None]
    /\ Update(r, [runs[r] EXCEPT !.status = "REJECTED"])
    /\ rejected' = rejected \cup {r}
    /\ UNCHANGED <<workspace, repairing, answering, planned, approved, replaced>>

----------------------------------------------------------------------------
(* restore(), crashes, and the person who works in the same files.         *)

Restorable(r) == Known(r) /\ Status(r) = "PROMOTED"

\* The backups are written back in the order they were taken; a file that was not
\* there is deleted again: Absent.
restore(r) ==
    /\ Restorable(r)
    /\ workspace' = After(RunFiles[r], runs[r].backups, Len(RunFiles[r]))
    /\ Update(r, [runs[r] EXCEPT !.status = "RESTORED"])
    /\ UNCHANGED <<shadows, repairing, answering, planned, approved, replaced, rejected>>

\* Interrupted part-way, by an error or by a crash; it may be asked for again.
restoreInterrupted(r, k) ==
    /\ Restorable(r)
    /\ Faulty(TRUE)
    /\ workspace' \in PartlyWritten(RunFiles[r], runs[r].backups, k)
    /\ \/ Restarted
       \/ UNCHANGED <<runs, shadows, stored, repairing, answering, planned, unsaved>>
    /\ UNCHANGED <<approved, replaced, rejected>>

crash ==
    /\ Faulty(TRUE)
    /\ Restarted
    /\ UNCHANGED <<workspace, approved, replaced, rejected>>

edit(f) ==
    /\ workspace[f] # Edited
    /\ workspace' = [workspace EXCEPT ![f] = Edited]
    /\ UNCHANGED <<runs, shadows, stored, repairing, answering, planned, faults, history>>

Init ==
    /\ workspace = Initial
    /\ runs = [r \in Runs |-> None] /\ stored = runs /\ shadows = runs
    /\ repairing = [r \in Runs |-> 0] /\ answering = repairing
    /\ planned = 0 /\ faults = 0
    /\ unsaved = {} /\ approved = {} /\ rejected = {}
    /\ replaced = [r \in Runs |-> None]

Next ==
    \/ plan
    \/ crash
    \/ \E f \in EditedFiles : edit(f)
    \/ \E r \in Runs :
         \/ answer(r) \/ answerPlanned(r) \/ answerUnrecorded(r) \/ answerRefused(r)
         \/ measure(r)
         \/ repair(r) \/ repairAuthored(r) \/ repairRefused(r)
         \/ approve(r) \/ reject(r) \/ decisionUnrecorded(r) \/ restore(r)
    \/ \E r \in Runs : \E k \in 0..Len(RunFiles[r]) :
         promoteThrows(r, k) \/ crashInPromote(r, k) \/ restoreInterrupted(r, k)

Spec == Init /\ [][Next]_vars

----------------------------------------------------------------------------
(* Properties.                                                             *)

TypeOK ==
    /\ workspace \in [Files -> Content]
    /\ \A r \in Runs :
         /\ runs[r] \in RunRecord(r) \cup {None}
         /\ stored[r] \in RunRecord(r) \cup {None}
         /\ shadows[r] \in [FilesOf(r) -> Content] \cup {None}
         /\ replaced[r] \in [FilesOf(r) -> Content] \cup {None}
         /\ r > planned => runs[r] = None /\ stored[r] = None
    /\ repairing \in [Runs -> 0..MaxCalls] /\ answering \in [Runs -> 0..MaxCalls]
    /\ planned \in 0..MaxRuns /\ faults \in 0..MaxFaults
    /\ unsaved \subseteq Runs /\ rejected \subseteq Runs /\ approved \subseteq Content

\* The shadow an approval would promote holds the bytes the run now carries:
\* "approve() would promote a shadow written from a previous attempt" cannot
\* happen, however repairs, measurements, decisions and restarts interleave
\* (repair(), measure() and #dropShadow).
ShadowIsTheCurrentAttempt ==
    \A r \in Runs : shadows[r] # None =>
        /\ Known(r) /\ Status(r) = "MEASURED"
        /\ shadows[r] = runs[r].contents

\* What a run wrote is in the workspace only if a clean measurement of it was
\* approved - also after restores, torn writes, lost saves and restarts, which
\* put older contents back (approve(), #promote and restore()).
OnlyApprovedBytesLand ==
    \A f \in Files :
        workspace[f] \in approved \cup {Original, Edited, Torn, Absent}

\* A restore puts back, in every file the run names once, what its promotion
\* replaced, also when an earlier restore was interrupted or the process was
\* restarted in between ("Writes back exactly what #promote captured"); a run whose
\* last save failed may have come back with an older record.  A file that the plan
\* names twice keeps what was promoted into it: its second backup was read after the
\* first write, and restore() writes both back in order.
RestoreReturnsWhatWasReplaced ==
    [][\A r \in Runs \ unsaved :
         Known(r) /\ runs'[r] # None /\ Status(r) = "PROMOTED" /\ runs'[r].status = "RESTORED"
         => \A f \in NamedOnce(r) : workspace'[f] = replaced[r][f]]_vars

\* Unless its last write failed, the file of a run says what memory says, and a
\* run that waits for a person is never pruned (#saveRun and prune()).
DiskAgreesWithMemory ==
    \A r \in Runs \ unsaved : Known(r) =>
        \/ stored[r] = runs[r]
        \/ stored[r] = None /\ Status(r) \notin Waiting

\* A decided run changes only by restore - or by a repair or answer that was
\* waiting when the decision was taken, or by a restart that lost the decision
\* (the ALREADY_DECIDED refusals).
DecisionsStand ==
    [][\A r \in Runs :
         Known(r) /\ Status(r) \notin Waiting /\ runs'[r] # runs[r] =>
           \/ Status(r) = "PROMOTED" /\ runs'[r] # None /\ runs'[r].status = "RESTORED"
           \/ repairing[r] > 0 \/ answering[r] > 0
           \/ runs' = stored]_vars

\* "a rejected run cannot later be approved" (test/workspace-actions.test.mjs).
RejectedIsNeverPromoted ==
    \A r \in rejected : Known(r) => Status(r) # "PROMOTED"

\* `promotionAllOrNothing: true` (workspaceActionsStatus): a step that promotes
\* some of a run's files promotes them all.
PromotionAllOrNothing ==
    [][\A r \in Runs : shadows[r] # None =>
         LET landed == {f \in FilesOf(r) :
                          workspace'[f] # workspace[f] /\ workspace'[f] = shadows[r][f]}
         IN  landed # {} => \A f \in FilesOf(r) : workspace'[f] = shadows[r][f]]_vars
============================================================================
