------------------------ MODULE UpdateManagerProofs ------------------------
(***************************************************************************)
(* Safety of the update manager, for every set of bundles, channels and    *)
(* keys and every number of failed operations and crashes, and the proof   *)
(* that what state.json says is installed moves as InstalledRelease says.  *)
(*                                                                         *)
(* The inductive invariant says what a call knows at each of its steps     *)
(* (CallOK), that what memory holds can be written down at any moment      *)
(* (Booked), that a bundle in staging is the recorded one or a stray       *)
(* (StagingKnown), and, as long as no call was cut short, what the slots   *)
(* hold at each step (SlotsFollow).                                        *)
(***************************************************************************)
EXTENDS UpdateManager, TLAPS

Staging == {"stage_remove", "stage_copy", "stage_record"}

\* The steps of apply() up to its success, and those with the bundle still in staging.
Carrying == {"backup", "candidate", "remove_previous", "keep_current", "remove_current",
             "copy_staging"}

Applying == Carrying \cup {"remove_staging", "promoted", "verify_post", "succeed"}

Returning == {"unpromote", "restore", "restored"}

Call == [pc : {"idle", "rolled_back"} \cup Staging \cup Applying \cup Returning,
         bundle : Bundles \cup {None}, inApply : BOOLEAN, from : Versions \cup {None}]

CallOK ==
    /\ call \in Call
    /\ call.pc = "idle" => call = Idle
    /\ call.pc \in Staging => call.bundle \in Bundles
    /\ call.pc \in Applying \cup {"rolled_back"} => call.inApply
    /\ call.inApply => call.bundle \in Bundles

Typed == TypeOK /\ CallOK

\* What may be written to state.json: a version that was installed, or one above
\* everything that was.
Bookable(new) ==
    /\ \/ new.installed \in ever
       \/ new.installed = new.highest /\ new.highest > stateFile.highest
    /\ new.highest >= stateFile.highest
    /\ new.previous \in ever \cup {None}

\* Memory and the file can be written down, and an update goes above the highest.
Booked ==
    /\ Bookable(state) /\ Bookable(stateFile)
    /\ call.pc \in Applying => Bundle[call.bundle].version > state.highest
    /\ call.pc \in Applying \ {"backup"} => state.installed \in ever

\* A record of a staged bundle: the owner approved it if it says so, and no other
\* bundle is in staging but a stray.
Known(staged) ==
    staged # None =>
        /\ staged.approved => staged.bundle \in approved
        /\ call.pc # "stage_record" =>
            slot.staging \in {staged.bundle, Empty, Torn} \cup stray

StagingKnown ==
    /\ Known(state.staged) /\ Known(stateFile.staged)
    /\ call.pc = "stage_copy" => slot.staging = Empty
    /\ call.pc = "stage_record" => slot.staging = call.bundle
    /\ call.pc \in Carrying =>
        slot.staging = call.bundle /\ call.bundle \in approved \cup stray

\* The slot holds the release of that version.
Names(s, version) ==
    IF slot[s] = Empty THEN version \in {Base, None}
                       ELSE slot[s] # Torn /\ Bundle[slot[s]].version = version

SlotsFollow ==
    /\ call.pc \in {"idle", "backup", "candidate", "remove_previous", "rolled_back"} \cup Staging =>
        Names("current", state.installed) /\ Names("previous", state.previous)
    /\ call.pc = "keep_current" => Names("current", state.installed)
    /\ call.pc = "remove_current" => Names("previous", state.installed)
    /\ call.pc \in {"copy_staging", "remove_staging", "promoted"} =>
        Names("previous", state.installed)
    /\ call.pc \in {"remove_staging", "promoted", "verify_post", "succeed"} =>
        slot.current = call.bundle
    /\ call.pc \in {"verify_post", "succeed"} \cup Returning => Names("previous", state.previous)
    /\ call.pc \in {"unpromote", "restore"} => slot.previous # Empty
    /\ call.pc = "restored" =>
        \/ slot.previous # Empty /\ slot.current = slot.previous
        \/ slot.previous = Empty /\ (slot.current = Empty => Names("current", state.installed))

UpdateInv ==
    /\ Typed /\ Booked /\ StagingKnown /\ OnlyApprovedReleasesRun
    /\ regular => SlotsFollow

----------------------------------------------------------------------------
(* Facts about the constants and the records                               *)

\* Versions are numbers, and a bundle's is one of them.
LEMMA VersionsTyped ==
    /\ Versions \subseteq Nat /\ None \notin Versions /\ Base \in Versions
    /\ \A b \in Bundles : Bundle[b].version \in Versions /\ Bundle[b].version \in Nat
    /\ \A b \in Bundles : b # Empty /\ b # Torn
BY UpdateConstants DEF Versions

\* The table of file operations, step by step.
LEMMA FileSteps ==
    /\ DOMAIN FileStep = {"stage_remove", "stage_copy", "unpromote", "restore"} \cup Promoting
    /\ \A pc \in DOMAIN FileStep :
        /\ FileStep[pc].slot \in {"current", "previous", "staging"}
        /\ FileStep[pc].next \in {"stage_copy", "stage_record", "keep_current", "remove_current",
                                  "copy_staging", "remove_staging", "promoted", "restore",
                                  "restored"}
        /\ pc \in Staging => FileStep[pc].next \in Staging /\ FileStep[pc].slot = "staging"
        /\ pc \in Promoting => FileStep[pc].next \in Applying \ {"backup"}
        /\ pc \in Returning => FileStep[pc].next \in Returning /\ FileStep[pc].slot = "current"
<1>1. DOMAIN FileStep = {"stage_remove", "stage_copy", "unpromote", "restore"} \cup Promoting
  BY DEF FileStep, Promoting
<1> QED
  BY <1>1 DEF FileStep, Promoting, Staging, Applying, Carrying, Returning

\* Fields of a call that goes on to another step.
LEMMA GotoFields ==
    ASSUME CallOK, NEW pc, Goto(pc),
           pc \in {"idle", "rolled_back"} \cup Staging \cup Applying \cup Returning
    PROVE  /\ call' \in Call /\ call'.pc = pc
           /\ call'.bundle = call.bundle /\ call'.inApply = call.inApply
           /\ call'.from = call.from
BY Zenon DEF CallOK, Goto, Call

\* No call in progress.
LEMMA IdleTyped ==
    ASSUME Return
    PROVE  CallOK' /\ call'.pc = "idle"
<1>1. FALSE \in BOOLEAN
  OBVIOUS
<1>2. Idle \in Call /\ Idle.pc = "idle" /\ Idle.inApply = FALSE
  BY <1>1, Zenon DEF Idle, Call
<1> QED
  BY <1>2, Zenon DEF Return, CallOK, Staging, Applying, Carrying

\* A call that goes on stays in its operation.
LEMMA GotoTyped ==
    ASSUME CallOK, NEW pc, Goto(pc), pc \in {"rolled_back"} \cup Staging \cup Applying \cup Returning,
           pc \in Staging => call.pc \in Staging,
           pc \in Applying \cup {"rolled_back"} => call.inApply
    PROVE  CallOK'
<1>1. /\ call' \in Call /\ call'.pc = pc
      /\ call'.bundle = call.bundle /\ call'.inApply = call.inApply
  BY GotoFields
<1>2. pc # "idle"
  BY DEF Staging, Applying, Carrying, Returning
<1> QED
  BY <1>1, <1>2, Zenon DEF CallOK

\* Fields of a state record that an operation assigns.
LEMMA NewStates ==
    ASSUME Typed
    PROVE  /\ \A c \in Channels : LET new == [state EXCEPT !.channel = c] IN
                /\ new \in State /\ new.installed = state.installed
                /\ new.highest = state.highest /\ new.previous = state.previous
                /\ new.staged = state.staged
           /\ \A r \in StagedRecord : LET new == [state EXCEPT !.staged = r] IN
                /\ new \in State /\ new.installed = state.installed
                /\ new.highest = state.highest /\ new.previous = state.previous
                /\ new.staged = r
           /\ \A v \in Versions : LET new == [state EXCEPT !.previous = v] IN
                /\ new \in State /\ new.installed = state.installed
                /\ new.highest = state.highest /\ new.previous = v
                /\ new.staged = state.staged
           /\ \A v \in Versions : LET new == [state EXCEPT !.installed = v, !.staged = None] IN
                /\ new \in State /\ new.installed = v
                /\ new.highest = state.highest /\ new.previous = state.previous
                /\ new.staged = None
           /\ \A v \in Versions :
                LET new == [state EXCEPT !.installed = v, !.staged = None,
                                         !.highest = IF v > @ THEN v ELSE @] IN
                /\ new \in State /\ new.installed = v
                /\ new.highest = (IF v > state.highest THEN v ELSE state.highest)
                /\ new.previous = state.previous /\ new.staged = None
<1>1. state \in State
  BY DEF Typed, TypeOK
<1>2. \A c \in Channels : LET new == [state EXCEPT !.channel = c] IN
        /\ new \in State /\ new.installed = state.installed
        /\ new.highest = state.highest /\ new.previous = state.previous
        /\ new.staged = state.staged
  BY <1>1, Zenon DEF State
<1>3. \A r \in StagedRecord : LET new == [state EXCEPT !.staged = r] IN
        /\ new \in State /\ new.installed = state.installed
        /\ new.highest = state.highest /\ new.previous = state.previous
        /\ new.staged = r
  BY <1>1, Zenon DEF State
<1>4. \A v \in Versions : LET new == [state EXCEPT !.previous = v] IN
        /\ new \in State /\ new.installed = state.installed
        /\ new.highest = state.highest /\ new.previous = v
        /\ new.staged = state.staged
  BY <1>1, Zenon DEF State
<1>5. \A v \in Versions : LET new == [state EXCEPT !.installed = v, !.staged = None] IN
        /\ new \in State /\ new.installed = v
        /\ new.highest = state.highest /\ new.previous = state.previous
        /\ new.staged = None
  BY <1>1, Zenon DEF State
<1>6. \A v \in Versions :
        LET new == [state EXCEPT !.installed = v, !.staged = None,
                                 !.highest = IF v > @ THEN v ELSE @] IN
        /\ new \in State /\ new.installed = v
        /\ new.highest = (IF v > state.highest THEN v ELSE state.highest)
        /\ new.previous = state.previous /\ new.staged = None
  <2>1. \A v \in Versions : (IF v > state.highest THEN v ELSE state.highest) \in Versions
    BY <1>1 DEF State
  <2> QED
    BY <1>1, <2>1, Zenon DEF State
<1> QED
  BY <1>2, <1>3, <1>4, <1>5, <1>6, Zenon

----------------------------------------------------------------------------
(* What is written to state.json                                           *)

\* A step leaves this.state alone, reads it back, starts again without it, or assigns a
\* record that can be written down, whether the save then succeeds or throws.
Writes ==
    \/ UNCHANGED <<state, stateFile, ever>>
    \/ state' = stateFile /\ UNCHANGED <<stateFile, ever>>
    \/ state' = Unrecorded /\ stateFile' = Unrecorded /\ ever' = {Base} /\ Return
    \/ \E new \in State : Bookable(new) /\ (saveState(new) \/ saveThrows(new))

\* #loadState's `empty`.
LEMMA UnrecordedState ==
    /\ Unrecorded \in State /\ Unrecorded.installed = Base /\ Unrecorded.highest = Base
    /\ Unrecorded.previous = None /\ Unrecorded.staged = None /\ Base \in Versions
BY VersionsTyped, UpdateConstants DEF State, Unrecorded

\* A state with the same versions can be written down as well as this.state.
LEMMA SameVersions ==
    ASSUME Typed, Booked, NEW new \in State, new.installed = state.installed,
           new.highest = state.highest, new.previous = state.previous
    PROVE  Bookable(new)
BY DEF Booked, Bookable

\* approve() leaves the staged record what it is, but for the approval.
LEMMA ApprovedRecord ==
    ASSUME Typed, state.staged # None
    PROVE  LET new == [state EXCEPT !.staged.approved = TRUE] IN
           /\ new \in State /\ new.installed = state.installed
           /\ new.highest = state.highest /\ new.previous = state.previous
           /\ new.staged \in StagedRecord /\ new.staged.bundle = state.staged.bundle
<1>1. state \in State /\ state.staged \in StagedRecord
  BY DEF Typed, TypeOK, State
<1>2. TRUE \in BOOLEAN
  OBVIOUS
<1>3. LET r == [state.staged EXCEPT !.approved = TRUE] IN
      r \in StagedRecord /\ r.bundle = state.staged.bundle
  BY <1>1, <1>2, Zenon DEF StagedRecord
<1> QED
  BY <1>1, <1>3, Zenon DEF State

\* Every step writes only what can be written: an update that succeeded goes above the
\* highest version, and a rollback leads to a version that was installed.
LEMMA EveryWrite ==
    ASSUME UpdateInv, Next
    PROVE  Writes
<1> USE DEF UpdateInv
<1>0. state \in State /\ Bookable(state)
  BY DEF Typed, TypeOK, Booked
<1>1. CASE check \/ \E c \in Channels, k \in Keys : installChannelKey(c, k)
  BY <1>0, <1>1, Zenon DEF check, installChannelKey, Assign, Writes
<1>2. ASSUME NEW c \in Channels, setChannel(c)
      PROVE  Writes
  <2> DEFINE new == [state EXCEPT !.channel = c]
  <2>1. saveState(new) \/ saveThrows(new)
    BY <1>2, Zenon DEF setChannel, Assign
  <2>2. new \in State /\ Bookable(new)
    BY NewStates, SameVersions
  <2> HIDE DEF new
  <2> QED
    BY <2>1, <2>2, Zenon DEF Writes
<1>3. CASE approve
  <2> DEFINE new == [state EXCEPT !.staged.approved = TRUE]
  <2>1. (saveState(new) \/ saveThrows(new)) /\ state.staged # None
    BY <1>3, Zenon DEF approve, Assign
  <2>2. new \in State /\ Bookable(new)
    BY <2>1, ApprovedRecord, SameVersions
  <2> HIDE DEF new
  <2> QED
    BY <2>1, <2>2, Zenon DEF Writes
<1>4. CASE StageRecord
  <2> DEFINE r == [bundle |-> call.bundle, channel |-> state.channel, approved |-> FALSE]
             new == [state EXCEPT !.staged = r]
  <2>1. (saveState(new) \/ saveThrows(new)) /\ call.pc = "stage_record"
    BY <1>4, Zenon DEF StageRecord, At
  <2>2. call.bundle \in Bundles /\ state.channel \in Channels
    BY <1>0, <2>1 DEF Typed, CallOK, Staging, State
  <2>3. r \in StagedRecord
    BY <2>2 DEF StagedRecord
  <2> HIDE DEF r
  <2>4. new \in State /\ Bookable(new)
    BY <2>3, NewStates, SameVersions
  <2> HIDE DEF new
  <2> QED
    BY <2>1, <2>4, Zenon DEF Writes
<1>5. CASE Backup \/ CandidateHealth \/ VerifyPost \/ RolledBack
  BY <1>0, <1>5, Zenon DEF Backup, CandidateHealth, VerifyPost, Health, RolledBack, Writes
<1>6. CASE Promoted
  <2> DEFINE new == [state EXCEPT !.previous = state.installed]
  <2>1. (saveState(new) \/ saveThrows(new)) /\ call.pc = "promoted"
    BY <1>6, Zenon DEF Promoted, At
  <2>2. state.installed \in ever
    BY <2>1 DEF Booked, Applying
  <2>3. state.installed \in Versions
    BY <1>0 DEF State
  <2>4. /\ new \in State /\ new.installed = state.installed
        /\ new.highest = state.highest /\ new.previous = state.installed
    BY <2>3, NewStates
  <2> HIDE DEF new
  <2>5. Bookable(new)
    BY <1>0, <2>2, <2>4 DEF Bookable
  <2> QED
    BY <2>1, <2>4, <2>5, Zenon DEF Writes
<1>7. CASE Succeed
  <2> DEFINE v == Bundle[call.bundle].version
             new == [state EXCEPT !.installed = v, !.staged = None,
                                  !.highest = IF v > @ THEN v ELSE @]
  <2>1. (saveState(new) \/ saveThrows(new)) /\ call.pc = "succeed"
    BY <1>7, Zenon DEF Succeed, At
  <2>2. call.bundle \in Bundles /\ v > state.highest
    BY <2>1 DEF Typed, CallOK, Booked, Applying
  <2>3. v \in Versions /\ v \in Nat
    BY <2>2, VersionsTyped
  <2> HIDE DEF v
  <2>4. /\ new \in State /\ new.installed = v /\ new.previous = state.previous
        /\ new.highest = (IF v > state.highest THEN v ELSE state.highest)
    BY <2>3, NewStates, Zenon
  <2> HIDE DEF new
  <2>5. state.highest \in Nat /\ stateFile.highest \in Nat
    BY VersionsTyped DEF Typed, TypeOK, State
  <2>6. Bookable(new)
    BY <1>0, <2>2, <2>3, <2>4, <2>5 DEF Bookable
  <2> QED
    BY <2>1, <2>4, <2>6, Zenon DEF Writes
<1>8. CASE Restored
  <2> DEFINE to == IF state.previous # None THEN state.previous ELSE state.installed
             new == [state EXCEPT !.installed = to, !.staged = None]
  <2>1. saveState(new) \/ saveThrows(new)
    BY <1>8, Zenon DEF Restored
  <2>2. to \in Versions
    BY <1>0 DEF State
  <2>3. to \in ever \/ (to = state.highest /\ state.highest > stateFile.highest)
    BY <1>0 DEF Bookable
  <2> HIDE DEF to
  <2>4. /\ new \in State /\ new.installed = to
        /\ new.highest = state.highest /\ new.previous = state.previous
    BY <2>2, NewStates, Zenon
  <2> HIDE DEF new
  <2>5. Bookable(new)
    BY <1>0, <2>3, <2>4 DEF Bookable
  <2> QED
    BY <2>1, <2>4, <2>5, Zenon DEF Writes
<1>9. CASE \/ \E b \in Bundles : Expire(b) \/ stage(b)
           \/ apply \/ rollback \/ FileOperation \/ FileOperationThrows \/ StageRefused
  BY <1>9, Zenon DEF Expire, stage, apply, rollback, FileOperation, FileOperationThrows,
     StageRefused, Writes
<1>10. CASE Restart
  BY <1>10, Zenon DEF Restart, Writes
<1> QED
  BY <1>1, <1>2, <1>3, <1>4, <1>5, <1>6, <1>7, <1>8, <1>9, <1>10, Zenon DEF Next

\* What was written, and what memory holds, can be written down again.
LEMMA WritesBooked ==
    ASSUME Typed, Booked, Writes
    PROVE  /\ state' \in State /\ stateFile' \in State /\ ever' \subseteq Versions
           /\ Bookable(state)' /\ Bookable(stateFile)'
           /\ Return \/ ever \subseteq ever'
<1>1. /\ state \in State /\ stateFile \in State /\ ever \subseteq Versions
      /\ Bookable(state) /\ Bookable(stateFile)
  BY DEF Typed, TypeOK, Booked
<1>2. \A t \in State : t.highest \in Nat /\ t.installed \in Versions
  BY VersionsTyped DEF State
<1>3. CASE UNCHANGED <<state, stateFile, ever>>
  BY <1>1, <1>3 DEF Bookable
<1>4. CASE state' = stateFile /\ UNCHANGED <<stateFile, ever>>
  BY <1>1, <1>4 DEF Bookable
<1>5. ASSUME NEW new \in State, Bookable(new), saveState(new)
      PROVE  /\ state' \in State /\ stateFile' \in State /\ ever' \subseteq Versions
             /\ Bookable(state)' /\ Bookable(stateFile)'
             /\ ever \subseteq ever'
  BY <1>1, <1>2, <1>5 DEF saveState, Bookable
<1>6. ASSUME NEW new \in State, Bookable(new), saveThrows(new)
      PROVE  /\ state' \in State /\ stateFile' \in State /\ ever' \subseteq Versions
             /\ Bookable(state)' /\ Bookable(stateFile)'
             /\ ever \subseteq ever'
  BY <1>1, <1>2, <1>6 DEF saveThrows, Bookable
<1>7. CASE state' = Unrecorded /\ stateFile' = Unrecorded /\ ever' = {Base} /\ Return
  <2>1. /\ Unrecorded \in State /\ Unrecorded.installed = Base /\ Unrecorded.highest = Base
        /\ Unrecorded.previous = None /\ Base \in Nat /\ Base \in Versions
    BY UnrecordedState, UpdateConstants
  <2> QED
    BY <1>7, <2>1 DEF Bookable
<1> QED
  BY <1>3, <1>4, <1>5, <1>6, <1>7 DEF Writes

----------------------------------------------------------------------------
(* What a call is at                                                       *)

\* The calls as they begin.
LEMMA Beginnings ==
    ASSUME Typed
    PROVE  /\ \A b \in Bundles : stage(b) =>
                /\ CallOK' /\ call'.pc = "stage_remove" /\ call'.bundle = b
           /\ apply =>
                /\ CallOK' /\ call'.pc = "backup" /\ call'.bundle = slot.staging
                /\ slot.staging \in Bundles
           /\ rollback => CallOK' /\ call'.pc = FirstRollbackStep
<1> USE DEF CallOK, Staging, Applying, Carrying, Returning
<1>1. /\ TRUE \in BOOLEAN /\ FALSE \in BOOLEAN /\ None \in Bundles \cup {None}
      /\ state.installed \in Versions
  BY DEF Typed, TypeOK, State
<1>2. ASSUME NEW b \in Bundles, stage(b)
      PROVE  CallOK' /\ call'.pc = "stage_remove" /\ call'.bundle = b
  <2>1. /\ call' = [Idle EXCEPT !.pc = "stage_remove", !.bundle = b]
        /\ Idle = [pc |-> "idle", bundle |-> None, inApply |-> FALSE, from |-> None]
    BY <1>2, Zenon DEF stage, Idle
  <2>2. call' = [pc |-> "stage_remove", bundle |-> b, inApply |-> FALSE, from |-> None]
    BY <2>1, Zenon
  <2> QED
    BY <1>1, <2>2 DEF Call
<1>3. ASSUME apply
      PROVE  /\ CallOK' /\ call'.pc = "backup" /\ call'.bundle = slot.staging
             /\ slot.staging \in Bundles
  <2>1. /\ call' = [Idle EXCEPT !.pc = "backup", !.bundle = slot.staging, !.inApply = TRUE,
                                !.from = state.installed]
        /\ Idle = [pc |-> "idle", bundle |-> None, inApply |-> FALSE, from |-> None]
        /\ slot.staging \in Bundles
    BY <1>3, Zenon DEF apply, Idle, verifyBundle
  <2>2. call' = [pc |-> "backup", bundle |-> slot.staging, inApply |-> TRUE,
                 from |-> state.installed]
    BY <2>1, Zenon
  <2> QED
    BY <1>1, <2>1, <2>2 DEF Call
<1>4. ASSUME rollback
      PROVE  CallOK' /\ call'.pc = FirstRollbackStep
  <2>1. /\ call' = [Idle EXCEPT !.pc = FirstRollbackStep]
        /\ Idle = [pc |-> "idle", bundle |-> None, inApply |-> FALSE, from |-> None]
    BY <1>4, Zenon DEF rollback, Idle
  <2>2. call' = [pc |-> FirstRollbackStep, bundle |-> None, inApply |-> FALSE, from |-> None]
    BY <2>1, Zenon
  <2>3. FirstRollbackStep \in {"restored", "unpromote"}
    BY DEF FirstRollbackStep
  <2> QED
    BY <1>1, <2>2, <2>3 DEF Call
<1> QED
  BY <1>2, <1>3, <1>4

\* The catch of apply() leads to the rollback.
LEMMA CatchTyped ==
    ASSUME CallOK, Catch
    PROVE  /\ CallOK' /\ call'.pc = FirstRollbackStep
           /\ FirstRollbackStep \in {"restored", "unpromote"}
           /\ call'.bundle = call.bundle /\ call'.inApply = call.inApply
<1>1. FirstRollbackStep \in {"restored", "unpromote"}
  BY DEF FirstRollbackStep
<1> HIDE DEF FirstRollbackStep
<1>2. FirstRollbackStep \in Returning
  BY <1>1 DEF Returning
<1>3. Goto(FirstRollbackStep)
  BY DEF Catch
<1>4. FirstRollbackStep \notin Staging \cup Applying \cup {"rolled_back"}
  BY <1>1 DEF Staging, Applying, Carrying
<1> QED
  BY <1>1, <1>2, <1>3, <1>4, GotoTyped, GotoFields, Zenon

\* Every step leaves the call in one of its steps with what it works on.
LEMMA CallStep ==
    ASSUME Typed, Next
    PROVE  CallOK'
<1>0. CallOK
  BY DEF Typed
<1>1. CASE UNCHANGED call
  BY <1>0, <1>1, Zenon DEF CallOK
<1>2. CASE \/ check \/ approve
           \/ \E c \in Channels : setChannel(c) \/ \E k \in Keys : installChannelKey(c, k)
           \/ \E b \in Bundles : Expire(b)
  BY <1>1, <1>2, Zenon DEF check, approve, setChannel, installChannelKey, Assign, Expire
<1>3. CASE apply \/ rollback \/ \E b \in Bundles : stage(b)
  BY <1>3, Beginnings
<1>4. CASE FileOperation
  <2>1. call.pc \in DOMAIN FileStep /\ Goto(FileStep[call.pc].next)
    BY <1>4, Zenon DEF FileOperation
  <2>2. /\ call.pc \in Staging => FileStep[call.pc].next \in Staging
        /\ call.pc \in Promoting => FileStep[call.pc].next \in Applying
        /\ call.pc \in Returning => FileStep[call.pc].next \in Returning
        /\ call.pc \in Staging \cup Promoting \cup Returning
    BY <2>1, FileSteps DEF Staging, Returning
  <2>3. call.pc \in Promoting => call.inApply
    BY <1>0 DEF CallOK, Promoting, Applying, Carrying
  <2>4. /\ Staging \cap (Applying \cup Returning \cup {"rolled_back"}) = {}
        /\ Returning \cap (Applying \cup {"rolled_back"}) = {}
    BY DEF Staging, Applying, Carrying, Returning
  <2> QED
    BY <1>0, <2>1, <2>2, <2>3, <2>4, GotoTyped
<1>5. CASE FileOperationThrows
  BY <1>0, <1>5, CatchTyped, IdleTyped, Zenon DEF FileOperationThrows
<1>6. CASE StageRecord \/ StageRefused \/ Succeed \/ RolledBack \/ Restart
  BY <1>6, IdleTyped, Zenon DEF StageRecord, StageRefused, Succeed, RolledBack, Restart
<1>7. CASE Backup
  <2>1. call.inApply
    BY <1>0, <1>7 DEF Backup, At, CallOK, Applying, Carrying
  <2>2. "candidate" \in Applying /\ "candidate" \notin Staging
    BY DEF Applying, Carrying, Staging
  <2>3. Goto("candidate") \/ Return
    BY <1>7, Zenon DEF Backup
  <2> QED
    BY <1>0, <2>1, <2>2, <2>3, GotoTyped, IdleTyped
<1>8. CASE CandidateHealth \/ VerifyPost \/ Promoted
  <2>1. call.inApply
    BY <1>0, <1>8 DEF CandidateHealth, VerifyPost, Promoted, Health, At, CallOK, Applying, Carrying
  <2>2. Goto("remove_previous") \/ Goto("succeed") \/ Goto("verify_post") \/ Catch
    BY <1>8, Zenon DEF CandidateHealth, VerifyPost, Promoted, Health
  <2>3. {"remove_previous", "succeed", "verify_post"} \subseteq Applying \ Staging
    BY DEF Applying, Carrying, Staging
  <2> QED
    BY <1>0, <2>1, <2>2, <2>3, GotoTyped, CatchTyped
<1>9. CASE Restored
  <2>1. (call.inApply /\ Goto("rolled_back")) \/ Return
    BY <1>9, Zenon DEF Restored
  <2>2. "rolled_back" \notin Staging
    BY DEF Staging
  <2> QED
    BY <1>0, <2>1, <2>2, GotoTyped, IdleTyped
<1> QED
  BY <1>2, <1>3, <1>4, <1>5, <1>6, <1>7, <1>8, <1>9, Zenon DEF Next

----------------------------------------------------------------------------
(* Types                                                                   *)

\* A file operation fills the slot it is about with what the table says.
LEMMA FileEffect ==
    ASSUME Typed, FileOperation
    PROVE  /\ slot' \in [{"current", "previous", "staging"} -> Content]
           /\ call.pc \in DOMAIN FileStep
           /\ \A x \in {"current", "previous", "staging"} :
                slot'[x] = IF x = FileStep[call.pc].slot THEN Held(FileStep[call.pc].from)
                                                         ELSE slot[x]
           /\ Held(FileStep[call.pc].from) \in Content
<1>1. /\ call.pc \in DOMAIN FileStep
      /\ slot' = [slot EXCEPT ![FileStep[call.pc].slot] = Held(FileStep[call.pc].from)]
  BY Zenon DEF FileOperation
<1>2. slot \in [{"current", "previous", "staging"} -> Content]
  BY DEF Typed, TypeOK
<1>3. call.pc = "stage_copy" => call.bundle \in Bundles
  BY DEF Typed, CallOK, Staging
<1>4. Held(FileStep[call.pc].from) \in Content
  <2>1. FileStep[call.pc].from \in {"nothing", "inbox", "current", "previous", "staging"}
    BY <1>1, FileSteps DEF FileStep, Promoting
  <2>2. FileStep[call.pc].from = "inbox" => call.pc = "stage_copy"
    BY <1>1, FileSteps DEF FileStep, Promoting
  <2> QED
    BY <1>2, <1>3, <2>1, <2>2 DEF Held, Content
<1>5. FileStep[call.pc].slot \in {"current", "previous", "staging"}
  BY <1>1, FileSteps
<1> QED
  BY <1>1, <1>2, <1>4, <1>5

\* One that did not finish leaves its slot as it was, in part, or empty, and the
\* others alone.
LEMMA PartlyEffect ==
    ASSUME Typed, Partly
    PROVE  /\ slot' \in [{"current", "previous", "staging"} -> Content]
           /\ \A x \in {"current", "previous", "staging"} : slot'[x] \in {slot[x], Torn, Empty}
           /\ call.pc \notin DOMAIN FileStep => slot' = slot
<1>1. slot \in [{"current", "previous", "staging"} -> Content]
  BY DEF Typed, TypeOK
<1>2. CASE call.pc \notin DOMAIN FileStep
  BY <1>1, <1>2 DEF Partly
<1>3. CASE call.pc \in DOMAIN FileStep
  <2>1. PICK left \in {slot[FileStep[call.pc].slot], Torn, Empty} :
          slot' = [slot EXCEPT ![FileStep[call.pc].slot] = left]
    BY <1>3 DEF Partly
  <2>2. FileStep[call.pc].slot \in {"current", "previous", "staging"}
    BY <1>3, FileSteps
  <2> QED
    BY <1>1, <1>3, <2>1, <2>2 DEF Content
<1> QED
  BY <1>2, <1>3

\* Every step keeps the types.
LEMMA TypedStep ==
    ASSUME UpdateInv, Next
    PROVE  Typed'
<1> USE DEF UpdateInv
<1>1. /\ CallOK' /\ state' \in State /\ stateFile' \in State /\ ever' \subseteq Versions
  BY CallStep, EveryWrite, WritesBooked
<1>2. slot' \in [{"current", "previous", "staging"} -> Content]
  <2>1. CASE FileOperation
    BY <2>1, FileEffect
  <2>2. CASE FileOperationThrows \/ Restart
    <3>1. Partly
      BY <2>2, Zenon DEF FileOperationThrows, Restart
    <3> QED
      BY <3>1, PartlyEffect
  <2>3. ~FileOperation /\ ~FileOperationThrows /\ ~Restart => UNCHANGED slot
    BY Zenon DEF Next, setChannel, installChannelKey, check, approve, Assign, Expire, stage,
       apply, rollback, StageRecord, StageRefused, Backup, CandidateHealth, Health, Promoted, VerifyPost,
       Succeed, Restored, RolledBack
  <2> QED
    BY <2>1, <2>2, <2>3 DEF Typed, TypeOK
<1>3. keys' \in [Channels -> Keys \cup {None}]
  <2>1. CASE \E c \in Channels, k \in Keys : installChannelKey(c, k)
    <3>1. PICK c \in Channels, k \in Keys : keys' = [keys EXCEPT ![c] = k]
      BY <2>1, Zenon DEF installChannelKey
    <3> QED
      BY <3>1 DEF Typed, TypeOK
  <2>2. ~(\E c \in Channels, k \in Keys : installChannelKey(c, k)) => UNCHANGED keys
    BY Zenon DEF Next, setChannel, check, approve, Assign, Expire, stage, FileOperation,
       FileOperationThrows, Restart, apply, rollback, StageRecord, StageRefused, Backup, CandidateHealth,
       Health, Promoted, VerifyPost, Succeed, Restored, RolledBack
  <2> QED
    BY <2>1, <2>2 DEF Typed, TypeOK
<1>4. expired' \subseteq Bundles
  <2>1. (\E b \in Bundles : expired' = expired \cup {b}) \/ UNCHANGED expired
    BY Zenon DEF Next, setChannel, installChannelKey, check, approve, Assign, Expire, stage,
       FileOperation, FileOperationThrows, Restart, apply, rollback, StageRecord, StageRefused, Backup,
       CandidateHealth, Health, Promoted, VerifyPost, Succeed, Restored, RolledBack
  <2> QED
    BY <2>1 DEF Typed, TypeOK
<1>5. approved' \subseteq Bundles
  <2>1. CASE approve
    <3>1. state.staged # None /\ approved' = approved \cup {state.staged.bundle}
      BY <2>1, Zenon DEF approve
    <3> QED
      BY <3>1 DEF Typed, TypeOK, State, StagedRecord
  <2>2. ~approve => UNCHANGED approved
    BY Zenon DEF Next, setChannel, installChannelKey, check, Assign, Expire, stage,
       FileOperation, FileOperationThrows, Restart, apply, rollback, StageRecord, StageRefused, Backup,
       CandidateHealth, Health, Promoted, VerifyPost, Succeed, Restored, RolledBack
  <2> QED
    BY <2>1, <2>2 DEF Typed, TypeOK
<1>6. stray' \subseteq Bundles
  <2>1. (call.pc = "stage_record" /\ stray' = stray \cup {call.bundle}) \/ UNCHANGED stray
    BY Zenon DEF Next, setChannel, installChannelKey, check, approve, Assign, Expire, stage,
       FileOperation, FileOperationThrows, Restart, apply, rollback, StageRecord, StageRefused, Backup,
       CandidateHealth, Health, Promoted, VerifyPost, Succeed, Restored, RolledBack, At
  <2> QED
    BY <2>1 DEF Typed, TypeOK, CallOK, Staging
<1>7. faults' \in 0..MaxFaults
  <2>1. Fault \/ UNCHANGED faults
    BY Zenon DEF Next, setChannel, installChannelKey, check, approve, Assign, Expire, stage,
       FileOperation, FileOperationThrows, Restart, apply, rollback, StageRecord, StageRefused, Backup,
       CandidateHealth, Health, Promoted, VerifyPost, Succeed, Restored, RolledBack,
       saveState, saveThrows
  <2> QED
    BY <2>1, UpdateConstants DEF Fault, Typed, TypeOK
<1>8. regular' \in BOOLEAN
  <2>1. \/ regular' = FALSE \/ UNCHANGED regular
        \/ regular' = (regular /\ (slot.previous # Empty \/ slot.current = Empty))
        \/ regular' = (regular /\ call = Idle /\ state = stateFile)
    BY Zenon DEF Next, setChannel, installChannelKey, check, approve, Assign, Expire, stage,
       FileOperation, FileOperationThrows, Restart, apply, rollback, StageRecord, StageRefused, Backup,
       CandidateHealth, Health, Promoted, VerifyPost, Succeed, Restored, RolledBack
  <2> QED
    BY <2>1, Zenon DEF Typed, TypeOK
<1>9. call'.pc # "idle" => \/ call'.bundle \in Bundles
                           \/ call'.pc \in {"unpromote", "restore", "restored"}
  BY <1>1 DEF CallOK, Call, Returning
<1> QED
  BY <1>1, <1>2, <1>3, <1>4, <1>5, <1>6, <1>7, <1>8, <1>9, Zenon DEF Typed, TypeOK

----------------------------------------------------------------------------
(* The record of what is installed                                         *)

\* A call is at a step of apply() because it just began, or went on from an earlier
\* step with the same bundle; going on, the versions in memory stay as they are, and
\* the first record writes the installed one down.
LEMMA ApplyGoesOn ==
    ASSUME Typed, Next, call'.pc \in Applying
    PROVE  \/ apply
           \/ /\ call.pc \in Applying /\ call'.bundle = call.bundle
              /\ state'.installed = state.installed /\ state'.highest = state.highest
              /\ call.pc # "backup" \/ state.installed \in ever'
<1>0. CallOK
  BY DEF Typed
<1>1. "idle" \notin Applying /\ Returning \cap Applying = {} /\ Staging \cap Applying = {}
  BY DEF Applying, Carrying, Returning, Staging
<1>2. ~Return /\ ~Catch
  <2>1. FirstRollbackStep \in Returning
    BY DEF FirstRollbackStep, Returning
  <2> QED
    BY <1>0, <1>1, <2>1, IdleTyped, CatchTyped
<1>3. CASE call = Idle
  <2>1. call.pc = "idle"
    BY <1>3 DEF Idle
  <2>2. call' # call
    BY <1>1, <2>1
  <2>3. ~rollback /\ ~\E b \in Bundles : stage(b)
    <3>1. FirstRollbackStep \in Returning /\ "stage_remove" \in Staging
      BY DEF FirstRollbackStep, Returning, Staging
    <3> QED
      BY <1>1, <3>1, Beginnings
  <2>4. /\ ~FileOperation /\ ~FileOperationThrows /\ ~StageRecord /\ ~StageRefused
        /\ ~Backup /\ ~CandidateHealth
        /\ ~Promoted /\ ~VerifyPost /\ ~Succeed /\ ~Restored /\ ~RolledBack /\ ~Restart
    <3>1. call.pc \notin DOMAIN FileStep
      BY <2>1, FileSteps DEF Promoting
    <3> QED
      BY <2>1, <3>1, <1>2 DEF FileOperation, FileOperationThrows, StageRecord,
         StageRefused, Backup, CandidateHealth, Health, Promoted, VerifyPost, Succeed, Restored, RolledBack, Restart, At
  <2> QED
    BY <2>2, <2>3, <2>4, Zenon DEF Next, setChannel, installChannelKey, check, approve, Assign,
       Expire
<1>4. CASE call # Idle
  <2>0. ~\E b \in Bundles : Expire(b)
    <3>1. call # Idle /\ "stage_record" \notin Applying
      BY <1>4 DEF Applying, Carrying
    <3> QED
      BY <3>1, Zenon DEF Expire
  <2>1. \/ FileOperation \/ FileOperationThrows \/ StageRecord \/ StageRefused
        \/ Backup \/ CandidateHealth
        \/ Promoted \/ VerifyPost \/ Succeed \/ Restored \/ RolledBack \/ Restart
    BY <1>4, <2>0, Zenon DEF Next, setChannel, installChannelKey, check, approve, Assign,
       stage, apply, rollback
  <2>2. CASE FileOperation
    <3>1. /\ call.pc \in DOMAIN FileStep /\ Goto(FileStep[call.pc].next)
          /\ UNCHANGED state
      BY <2>2, Zenon DEF FileOperation
    <3>2. FileStep[call.pc].next \in Staging \cup Applying \cup Returning
      BY <3>1, FileSteps DEF Staging, Returning
    <3>3. call'.pc = FileStep[call.pc].next /\ call'.bundle = call.bundle
      BY <1>0, <3>1, <3>2, GotoFields
    <3>4. call.pc \in Promoting
      BY <1>1, <3>1, <3>3, FileSteps DEF Staging, Returning
    <3>5. call.pc \in Applying /\ call.pc # "backup"
      BY <3>4 DEF Promoting, Applying, Carrying
    <3> QED
      BY <3>1, <3>3, <3>5
  <2>3. CASE Backup
    <3>1. /\ call.pc = "backup" /\ saveState(state) /\ Goto("candidate")
      BY <1>2, <2>3, Zenon DEF Backup, At
    <3>2. call'.bundle = call.bundle /\ call.pc \in Applying
      BY <1>0, <3>1, GotoFields DEF Applying, Carrying
    <3> QED
      BY <3>1, <3>2 DEF saveState
  <2>4. CASE CandidateHealth \/ VerifyPost
    <3>1. /\ call.pc \in {"candidate", "verify_post"}
          /\ Goto("remove_previous") \/ Goto("succeed")
          /\ saveState(state)
      BY <1>2, <2>4, Zenon DEF CandidateHealth, VerifyPost, Health, At
    <3>2. call'.bundle = call.bundle /\ call.pc \in Applying /\ call.pc # "backup"
      BY <1>0, <3>1, GotoFields DEF Applying, Carrying
    <3> QED
      BY <3>1, <3>2 DEF saveState
  <2>5. CASE Promoted
    <3> DEFINE new == [state EXCEPT !.previous = state.installed]
    <3>1. /\ call.pc = "promoted" /\ Goto("verify_post") /\ state' = new
      BY <1>2, <2>5, Zenon DEF Promoted, At, saveState, saveThrows
    <3>2. call'.bundle = call.bundle /\ call.pc \in Applying
      BY <1>0, <3>1, GotoFields DEF Applying, Carrying
    <3>3. state.installed \in Versions
      BY DEF Typed, TypeOK, State
    <3>4. new.installed = state.installed /\ new.highest = state.highest
      BY <3>3, NewStates, Zenon
    <3> QED
      BY <3>1, <3>2, <3>4
  <2>6. CASE \/ FileOperationThrows \/ StageRecord \/ StageRefused \/ Succeed
             \/ RolledBack \/ Restart
    BY <1>2, <2>6, Zenon DEF FileOperationThrows, StageRecord, StageRefused, Succeed,
       RolledBack, Restart
  <2>7. CASE Restored
    <3>1. Goto("rolled_back")
      BY <1>2, <2>7, Zenon DEF Restored
    <3>2. call'.pc = "rolled_back"
      BY <1>0, <3>1, GotoFields
    <3> QED
      BY <3>2 DEF Applying, Carrying
  <2> QED
    BY <2>1, <2>2, <2>3, <2>4, <2>5, <2>6, <2>7
<1> QED
  BY <1>3, <1>4

\* Every step keeps memory and state.json such that they can be written down.
LEMMA BookedStep ==
    ASSUME UpdateInv, Next
    PROVE  Booked'
<1> USE DEF UpdateInv
<1>1. Bookable(state)' /\ Bookable(stateFile)' /\ (Return \/ ever \subseteq ever')
  BY EveryWrite, WritesBooked
<1>2. ASSUME call'.pc \in Applying
      PROVE  /\ Bundle[call'.bundle].version > state'.highest
             /\ call'.pc # "backup" => state'.installed \in ever'
  <2>1. CASE apply
    <3>1. /\ Bundle[slot.staging].version > state.highest /\ UNCHANGED state
      BY <2>1, Zenon DEF apply, verifyBundle
    <3> QED
      BY <2>1, <3>1, Beginnings
  <2>2. CASE /\ call.pc \in Applying /\ call'.bundle = call.bundle
             /\ state'.installed = state.installed /\ state'.highest = state.highest
             /\ call.pc # "backup" \/ state.installed \in ever'
    <3>1. ~Return
      BY <1>2, IdleTyped DEF Applying, Carrying
    <3> QED
      BY <1>1, <2>2, <3>1 DEF Booked
  <2> QED
    BY <1>2, <2>1, <2>2, ApplyGoesOn
<1> QED
  BY <1>1, <1>2 DEF Booked

----------------------------------------------------------------------------
(* The slots                                                               *)

\* The part of the invariant that is about what the slots hold.
Slots ==
    /\ StagingKnown /\ OnlyApprovedReleasesRun
    /\ regular => SlotsFollow

\* Each file operation: what it leaves in the slots and the step after it.
LEMMA FileMoves ==
    ASSUME Typed, FileOperation
    PROVE  LET Moved(pc, next, x, content) ==
                   call.pc = pc =>
                       /\ call'.pc = next /\ slot'[x] = content
                       /\ \A y \in {"current", "previous", "staging"} \ {x} : slot'[y] = slot[y]
           IN  /\ Moved("stage_remove", "stage_copy", "staging", Empty)
               /\ Moved("stage_copy", "stage_record", "staging", call.bundle)
               /\ Moved("remove_previous", "keep_current", "previous", Empty)
               /\ Moved("keep_current", "remove_current", "previous", slot.current)
               /\ Moved("remove_current", "copy_staging", "current", Empty)
               /\ Moved("copy_staging", "remove_staging", "current", slot.staging)
               /\ Moved("remove_staging", "promoted", "staging", Empty)
               /\ Moved("unpromote", "restore", "current", Empty)
               /\ Moved("restore", "restored", "current", slot.previous)
               /\ call.pc \in {"stage_remove", "stage_copy", "unpromote", "restore"} \cup Promoting
               /\ call'.bundle = call.bundle
<1>1. /\ call.pc \in DOMAIN FileStep /\ Goto(FileStep[call.pc].next)
  BY Zenon DEF FileOperation
<1>2. FileStep[call.pc].next \in Staging \cup Applying \cup Returning
  BY <1>1, FileSteps DEF Staging, Returning
<1>3. call'.pc = FileStep[call.pc].next /\ call'.bundle = call.bundle
  BY <1>1, <1>2, GotoFields DEF Typed
<1>4. \A x \in {"current", "previous", "staging"} :
         slot'[x] = IF x = FileStep[call.pc].slot THEN Held(FileStep[call.pc].from) ELSE slot[x]
  BY FileEffect
<1>5. call.pc \in {"stage_remove", "stage_copy", "unpromote", "restore"} \cup Promoting
  BY <1>1, FileSteps
<1> QED
  BY <1>3, <1>4, <1>5 DEF FileStep, Held

\* A file operation keeps the slots right.
LEMMA FileSlots ==
    ASSUME UpdateInv, FileOperation
    PROVE  Slots'
<1> USE DEF UpdateInv
<1>1. /\ UNCHANGED <<state, stateFile, approved, stray, regular>>
  BY Zenon DEF FileOperation
<1>2. /\ slot \in [{"current", "previous", "staging"} -> Content]
      /\ call.pc \in Staging => call.bundle \in Bundles
      /\ call.pc \in Applying => call.bundle \in Bundles
      /\ \A b \in Bundles : b # Empty /\ b # Torn
  BY VersionsTyped DEF Typed, TypeOK, CallOK
<1> USE FileMoves DEF Staging, Applying, Carrying, Returning, Promoting
<1>3. StagingKnown'
  BY <1>1, <1>2 DEF StagingKnown, Known
<1>4. OnlyApprovedReleasesRun'
  BY <1>1, <1>2 DEF OnlyApprovedReleasesRun, StagingKnown
<1>5. ASSUME regular' PROVE SlotsFollow'
  BY <1>1, <1>2, <1>5 DEF SlotsFollow, Names, StagingKnown
<1> QED
  BY <1>3, <1>4, <1>5 DEF Slots

\* A file operation that throws, or the end of the process at any step, keeps the slots
\* right: a copy cut off is no release, and a copy that was not recorded is a stray.
LEMMA FaultSlots ==
    ASSUME UpdateInv, FileOperationThrows \/ Restart
    PROVE  Slots'
<1> USE DEF UpdateInv
<1>1. /\ Partly /\ UNCHANGED approved
      /\ state' \in {state, stateFile, Unrecorded} /\ stateFile' \in {stateFile, Unrecorded}
      /\ stray \subseteq stray'
  BY Zenon DEF FileOperationThrows, Restart
<1>2. /\ slot' \in [{"current", "previous", "staging"} -> Content]
      /\ \A x \in {"current", "previous", "staging"} : slot'[x] \in {slot[x], Torn, Empty}
      /\ call.pc \notin DOMAIN FileStep => slot' = slot
  BY <1>1, PartlyEffect
<1>3. call'.pc \in {"idle", "unpromote", "restored"}
  <2>1. Return \/ Catch
    BY Zenon DEF FileOperationThrows, Restart
  <2> QED
    BY <2>1, IdleTyped, CatchTyped DEF Typed
<1>4. call.pc = "stage_record" => slot.staging \in stray'
  <2>1. "stage_record" \notin DOMAIN FileStep
    BY FileSteps DEF Promoting
  <2>2. call.pc = "stage_record" => stray' = stray \cup {call.bundle}
    BY <2>1, Zenon DEF FileOperationThrows, Restart, At
  <2> QED
    BY <2>2 DEF StagingKnown
<1>5. StagingKnown'
  BY <1>1, <1>2, <1>3, <1>4, UnrecordedState DEF StagingKnown, Known, Carrying
<1>6. OnlyApprovedReleasesRun'
  BY <1>1, <1>2 DEF OnlyApprovedReleasesRun
<1>7. ASSUME regular' PROVE SlotsFollow'
  <2>1. regular /\ call = Idle /\ state' = state
    BY <1>7, Zenon DEF FileOperationThrows, Restart
  <2>2. call.pc = "idle" /\ call.pc \notin DOMAIN FileStep /\ slot' = slot
    BY <1>2, <2>1, FileSteps DEF Idle, Promoting
  <2>3. call'.pc = "idle"
    BY <2>2, IdleTyped, Zenon DEF FileOperationThrows, Restart
  <2> QED
    BY <2>1, <2>2, <2>3 DEF SlotsFollow, Names, Staging, Applying, Carrying, Returning
<1> QED
  BY <1>5, <1>6, <1>7 DEF Slots

\* A step that leaves the slots and the releases memory names as they are, and the call
\* where it is or between calls on to a call that looks at the same slots.
LEMMA QuietSlots ==
    ASSUME UpdateInv, UNCHANGED <<slot, stray, regular>>, approved \subseteq approved',
           state'.installed = state.installed, state'.previous = state.previous,
           state'.staged = state.staged, stateFile' \in {stateFile, state'},
           \/ call' = call
           \/ /\ call'.pc \in {"idle", "candidate", "remove_previous"}
              /\ call.pc \in {"backup", "candidate", "rolled_back"}
              /\ call'.pc # "idle" => call'.bundle = call.bundle /\ call.pc \in Carrying
           \/ call.pc = "verify_post" /\ call'.pc = "succeed" /\ call'.bundle = call.bundle
           \/ call.pc = "idle" /\ call'.pc = "stage_remove"
           \/ /\ call.pc = "idle" /\ call'.pc = "backup" /\ call'.bundle = slot.staging
              /\ slot.staging \in approved \cup stray
    PROVE  Slots'
<1> USE DEF UpdateInv, Staging, Applying, Carrying, Returning
<1>1. StagingKnown'
  BY DEF StagingKnown, Known
<1>2. OnlyApprovedReleasesRun'
  BY DEF OnlyApprovedReleasesRun
<1>3. ASSUME regular' PROVE SlotsFollow'
  BY <1>3 DEF SlotsFollow, Names
<1> QED
  BY <1>1, <1>2, <1>3 DEF Slots

\* The way back begins: from any step of apply(), or from no call at all.  With nothing in
\* previous there is nothing to bring back.
LEMMA RollbackSlots ==
    ASSUME UpdateInv, UNCHANGED <<slot, stray, approved>>, regular' => regular,
           state'.installed = state.installed, state'.staged = state.staged,
           state'.previous = state.previous \/ ~regular',
           stateFile' \in {stateFile, state'},
           call.pc \in {"idle", "candidate", "verify_post"} \/ ~regular',
           call.pc # "stage_record",
           call'.pc = FirstRollbackStep
    PROVE  Slots'
<1> USE DEF UpdateInv, Staging, Applying, Carrying, Returning
<1>0. \/ call'.pc = "restored" /\ slot'.previous = Empty
      \/ call'.pc = "unpromote" /\ slot'.previous # Empty
  BY DEF FirstRollbackStep
<1>1. StagingKnown'
  BY <1>0 DEF StagingKnown, Known
<1>2. OnlyApprovedReleasesRun'
  BY DEF OnlyApprovedReleasesRun
<1>3. ASSUME regular' PROVE SlotsFollow'
  <2>1. call.pc = "verify_post" => slot.current # Empty
    BY <1>3, VersionsTyped DEF SlotsFollow, Typed, CallOK
  <2> QED
    BY <1>0, <1>3, <2>1 DEF SlotsFollow, Names
<1> QED
  BY <1>1, <1>2, <1>3 DEF Slots

\* stage() ends: both records name the bundle it copied, or, when the save threw, memory
\* does and the copy is a stray.
LEMMA StageRecordSlots ==
    ASSUME UpdateInv, StageRecord
    PROVE  Slots'
<1> USE DEF UpdateInv
<1> DEFINE r == [bundle |-> call.bundle, channel |-> state.channel, approved |-> FALSE]
           new == [state EXCEPT !.staged = r]
<1>1. /\ call.pc = "stage_record" /\ state' = new /\ stateFile' \in {stateFile, new}
      /\ \/ stateFile' = new /\ UNCHANGED <<stray, regular>>
         \/ stray' = stray \cup {call.bundle} /\ regular' = FALSE
      /\ UNCHANGED <<slot, approved>>
  BY Zenon DEF StageRecord, At, saveState, saveThrows
<1>2. call'.pc = "idle"
  BY IdleTyped, Zenon DEF StageRecord
<1>3. r \in StagedRecord
  <2>1. call.bundle \in Bundles /\ state.channel \in Channels
    BY <1>1 DEF Typed, TypeOK, CallOK, Staging, State
  <2> QED
    BY <2>1 DEF StagedRecord
<1>4. r.bundle = call.bundle /\ ~r.approved
  OBVIOUS
<1> HIDE DEF r
<1>5. new.staged = r /\ new.installed = state.installed /\ new.previous = state.previous
  BY <1>3, NewStates, Zenon
<1> HIDE DEF new
<1>6. StagingKnown'
  BY <1>1, <1>2, <1>4, <1>5 DEF StagingKnown, Known, Carrying
<1>7. OnlyApprovedReleasesRun'
  BY <1>1 DEF OnlyApprovedReleasesRun
<1>8. ASSUME regular' PROVE SlotsFollow'
  BY <1>1, <1>2, <1>5, <1>8 DEF SlotsFollow, Names, Staging, Returning
<1> QED
  BY <1>6, <1>7, <1>8 DEF Slots

\* stage() refuses what landed: the records stay, and the copy is a stray.
LEMMA StageRefusedSlots ==
    ASSUME UpdateInv, StageRefused
    PROVE  Slots'
<1> USE DEF UpdateInv
<1>1. /\ call.pc = "stage_record" /\ stray' = stray \cup {call.bundle}
      /\ UNCHANGED <<state, stateFile, slot, approved, regular>>
  BY Zenon DEF StageRefused, At
<1>2. call'.pc = "idle"
  BY IdleTyped, Zenon DEF StageRefused
<1>3. StagingKnown'
  BY <1>1, <1>2 DEF StagingKnown, Known, Carrying
<1>4. OnlyApprovedReleasesRun'
  BY <1>1 DEF OnlyApprovedReleasesRun
<1>5. ASSUME regular' PROVE SlotsFollow'
  BY <1>1, <1>2, <1>5 DEF SlotsFollow, Names, Staging, Returning
<1> QED
  BY <1>3, <1>4, <1>5 DEF Slots

\* approve() adds the bundle on record to the approved ones.
LEMMA ApproveSlots ==
    ASSUME UpdateInv, approve
    PROVE  Slots'
<1> USE DEF UpdateInv
<1> DEFINE new == [state EXCEPT !.staged.approved = TRUE]
<1>1. /\ state.staged # None /\ state' = new /\ stateFile' \in {stateFile, new}
      /\ approved' = approved \cup {state.staged.bundle}
      /\ UNCHANGED <<slot, call, stray, regular>>
  BY Zenon DEF approve, Assign, saveState, saveThrows
<1>2. /\ new.staged.bundle = state.staged.bundle
      /\ new.installed = state.installed /\ new.previous = state.previous
  BY <1>1, ApprovedRecord
<1> HIDE DEF new
<1>3. StagingKnown'
  BY <1>1, <1>2 DEF StagingKnown, Known
<1>4. OnlyApprovedReleasesRun'
  BY <1>1 DEF OnlyApprovedReleasesRun
<1>5. ASSUME regular' PROVE SlotsFollow'
  BY <1>1, <1>2, <1>5 DEF SlotsFollow, Names
<1> QED
  BY <1>3, <1>4, <1>5 DEF Slots

\* #promote ends: the release that was installed is the one in previous.
LEMMA PromotedSlots ==
    ASSUME UpdateInv, Promoted
    PROVE  Slots'
<1> USE DEF UpdateInv
<1> DEFINE new == [state EXCEPT !.previous = state.installed]
<1>1. /\ call.pc = "promoted" /\ state' = new /\ stateFile' \in {stateFile, new}
      /\ \/ Goto("verify_post") /\ UNCHANGED regular
         \/ Catch /\ regular' = FALSE
      /\ UNCHANGED <<slot, approved, stray>>
  BY Zenon DEF Promoted, At, saveState, saveThrows
<1>2. state.installed \in Versions
  BY DEF Typed, TypeOK, State
<1>3. /\ new.installed = state.installed /\ new.previous = state.installed
      /\ new.staged = state.staged
  BY <1>2, NewStates, Zenon
<1> HIDE DEF new
<1>4. CASE Catch /\ regular' = FALSE
  BY <1>1, <1>3, <1>4, CatchTyped, RollbackSlots DEF Typed
<1>5. CASE Goto("verify_post") /\ UNCHANGED regular
  <2>1. call'.pc = "verify_post" /\ call'.bundle = call.bundle
    BY <1>5, GotoFields DEF Typed, Applying
  <2>2. StagingKnown'
    BY <1>1, <1>3, <2>1 DEF StagingKnown, Known, Carrying
  <2>3. OnlyApprovedReleasesRun'
    BY <1>1 DEF OnlyApprovedReleasesRun
  <2>4. ASSUME regular' PROVE SlotsFollow'
    BY <1>1, <1>3, <1>5, <2>1, <2>4 DEF SlotsFollow, Names, Staging, Returning
  <2> QED
    BY <2>2, <2>3, <2>4 DEF Slots
<1> QED
  BY <1>1, <1>4, <1>5

\* apply() succeeds: the release in current is the installed one.
LEMMA SucceedSlots ==
    ASSUME UpdateInv, Succeed
    PROVE  Slots'
<1> USE DEF UpdateInv
<1> DEFINE v == Bundle[call.bundle].version
           new == [state EXCEPT !.installed = v, !.staged = None,
                                !.highest = IF v > @ THEN v ELSE @]
<1>1. /\ call.pc = "succeed" /\ state' = new /\ stateFile' \in {stateFile, new}
      /\ UNCHANGED <<slot, approved, stray, regular>>
  BY Zenon DEF Succeed, At, saveState, saveThrows
<1>2. call'.pc = "idle"
  BY IdleTyped, Zenon DEF Succeed
<1>3. call.bundle \in Bundles
  BY <1>1 DEF Typed, CallOK, Applying
<1>4. v \in Versions /\ v = Bundle[call.bundle].version
  BY <1>3, VersionsTyped
<1> HIDE DEF v
<1>5. new.installed = v /\ new.previous = state.previous /\ new.staged = None
  BY <1>4, NewStates, Zenon
<1> HIDE DEF new
<1>6. StagingKnown'
  BY <1>1, <1>2, <1>5 DEF StagingKnown, Known, Carrying
<1>7. OnlyApprovedReleasesRun'
  BY <1>1 DEF OnlyApprovedReleasesRun
<1>8. ASSUME regular' PROVE SlotsFollow'
  BY <1>1, <1>2, <1>3, <1>4, <1>5, <1>8, VersionsTyped DEF SlotsFollow, Names, Staging, Returning
<1> QED
  BY <1>6, <1>7, <1>8 DEF Slots

\* rollback() ends: the release brought back from previous is the installed one.
LEMMA RestoredSlots ==
    ASSUME UpdateInv, Restored
    PROVE  Slots'
<1> USE DEF UpdateInv
<1> DEFINE to == IF state.previous # None THEN state.previous ELSE state.installed
           new == [state EXCEPT !.installed = to, !.staged = None]
<1>1. /\ call.pc = "restored" /\ state' = new /\ stateFile' \in {stateFile, new}
      /\ (call.inApply /\ Goto("rolled_back")) \/ Return
      /\ UNCHANGED <<slot, approved, stray>>
  BY Zenon DEF Restored, At, saveState, saveThrows
<1>2. regular' = (regular /\ (slot.previous # Empty \/ slot.current = Empty))
  BY Zenon DEF Restored
<1>3. call'.pc \in {"idle", "rolled_back"}
  BY <1>1, IdleTyped, GotoFields DEF Typed
<1>4. /\ to \in Versions
      /\ to = IF state.previous # None THEN state.previous ELSE state.installed
  BY DEF Typed, TypeOK, State
<1> HIDE DEF to
<1>5. new.installed = to /\ new.previous = state.previous /\ new.staged = None
  BY <1>4, NewStates, Zenon
<1> HIDE DEF new
<1>6. StagingKnown'
  BY <1>1, <1>3, <1>5 DEF StagingKnown, Known, Carrying
<1>7. OnlyApprovedReleasesRun'
  BY <1>1 DEF OnlyApprovedReleasesRun
<1>8. ASSUME regular' PROVE SlotsFollow'
  <2>1. regular /\ (slot.previous # Empty \/ slot.current = Empty)
    BY <1>2, <1>8, Zenon
  <2>2. /\ Names("previous", state.previous)
        /\ \/ slot.previous # Empty /\ slot.current = slot.previous
           \/ slot.previous = Empty /\ (slot.current = Empty => Names("current", state.installed))
    BY <1>1, <2>1 DEF SlotsFollow, Returning
  <2>3. slot.previous # Empty => state.previous # None
    <3>1. slot.previous \in Content
      BY DEF Typed, TypeOK
    <3> QED
      BY <2>2, <3>1, VersionsTyped DEF Names, Content
  <2>4. (slot.previous = Empty /\ slot.current = Empty) => to \in {Base, None}
    BY <1>4, <2>2 DEF Names
  <2>5. Names("current", to)
    BY <1>4, <2>1, <2>2, <2>3, <2>4 DEF Names
  <2> QED
    BY <1>1, <1>3, <1>5, <2>2, <2>5 DEF SlotsFollow, Names, Staging, Returning
<1> QED
  BY <1>6, <1>7, <1>8 DEF Slots

\* Every step keeps the slots right.
LEMMA SlotsStep ==
    ASSUME UpdateInv, Next
    PROVE  Slots'
<1> USE DEF UpdateInv
<1>0. CallOK /\ (call = Idle => call.pc = "idle")
  BY DEF Typed, Idle
<1>1. CASE \/ check
           \/ \E c \in Channels : setChannel(c) \/ \E k \in Keys : installChannelKey(c, k)
           \/ \E b \in Bundles : Expire(b)
  <2>1. /\ UNCHANGED <<slot, call, stray, regular, approved>> /\ stateFile' \in {stateFile, state'}
        /\ state' = state \/ \E c \in Channels : state' = [state EXCEPT !.channel = c]
    BY <1>1, Zenon DEF check, setChannel, installChannelKey, Expire, Assign, saveState, saveThrows
  <2>2. /\ state'.installed = state.installed /\ state'.previous = state.previous
        /\ state'.staged = state.staged
    <3>1. \A c \in Channels : LET new == [state EXCEPT !.channel = c] IN
            /\ new.installed = state.installed /\ new.previous = state.previous
            /\ new.staged = state.staged
      BY NewStates
    <3>2. ASSUME NEW c \in Channels, state' = [state EXCEPT !.channel = c]
          PROVE  /\ state'.installed = state.installed /\ state'.previous = state.previous
                 /\ state'.staged = state.staged
      <4> DEFINE new == [state EXCEPT !.channel = c]
      <4>1. /\ new.installed = state.installed /\ new.previous = state.previous
            /\ new.staged = state.staged /\ state' = new
        BY <3>1, <3>2
      <4> HIDE DEF new
      <4> QED
        BY <4>1
    <3> QED
      BY <2>1, <3>2
  <2> QED
    BY <2>1, <2>2, QuietSlots
<1>2. ASSUME NEW b \in Bundles, stage(b)
      PROVE  Slots'
  <2>1. /\ UNCHANGED <<state, stateFile, slot, stray, regular, approved>> /\ call.pc = "idle"
    BY <1>0, <1>2, Zenon DEF stage
  <2>2. call'.pc = "stage_remove"
    BY <1>2, Beginnings
  <2> QED
    BY <2>1, <2>2, QuietSlots
<1>3. CASE apply
  <2>1. /\ UNCHANGED <<state, stateFile, slot, stray, regular, approved>> /\ call.pc = "idle"
        /\ state.staged # None /\ state.staged.approved
    BY <1>0, <1>3, Zenon DEF apply
  <2>2. call'.pc = "backup" /\ call'.bundle = slot.staging /\ slot.staging \in Bundles
    BY <1>3, Beginnings
  <2>3. slot.staging \in approved \cup stray
    BY <2>1, <2>2, VersionsTyped DEF StagingKnown, Known
  <2> QED
    BY <2>1, <2>2, <2>3, QuietSlots
<1>4. CASE rollback
  <2>1. /\ UNCHANGED <<state, stateFile, slot, stray, regular, approved>> /\ call.pc = "idle"
    BY <1>0, <1>4, Zenon DEF rollback
  <2>2. call'.pc = FirstRollbackStep
    BY <1>4, Beginnings
  <2> QED
    BY <2>1, <2>2, RollbackSlots
<1>5. CASE Backup \/ RolledBack
  <2>1. /\ UNCHANGED <<state, slot, stray, regular, approved>> /\ stateFile' \in {stateFile, state'}
    BY <1>5, Zenon DEF Backup, RolledBack, saveState, saveThrows
  <2>2. \/ call.pc = "backup" /\ Goto("candidate")
        \/ call.pc \in {"backup", "rolled_back"} /\ Return
    BY <1>5, Zenon DEF Backup, RolledBack, At
  <2>3. \/ call.pc = "backup" /\ call'.pc = "candidate" /\ call'.bundle = call.bundle
        \/ call.pc \in {"backup", "rolled_back"} /\ call'.pc = "idle"
    BY <1>0, <2>2, GotoFields, IdleTyped DEF Applying, Carrying
  <2> QED
    BY <2>1, <2>3, QuietSlots DEF Carrying
<1>6. CASE CandidateHealth \/ VerifyPost
  <2>1. /\ UNCHANGED <<state, slot, stray, regular, approved>> /\ stateFile' \in {stateFile, state'}
        /\ \/ call.pc = "candidate" /\ Goto("remove_previous")
           \/ call.pc = "verify_post" /\ Goto("succeed")
           \/ call.pc \in {"candidate", "verify_post"} /\ Catch
    BY <1>6, Zenon DEF CandidateHealth, VerifyPost, Health, At, saveState, saveThrows
  <2>2. CASE call.pc \in {"candidate", "verify_post"} /\ Catch
    <3>1. call'.pc = FirstRollbackStep
      BY <1>0, <2>2, CatchTyped
    <3> QED
      BY <2>1, <2>2, <3>1, RollbackSlots
  <2>3. CASE call.pc = "candidate" /\ Goto("remove_previous")
    <3>1. call'.pc = "remove_previous" /\ call'.bundle = call.bundle
      BY <1>0, <2>3, GotoFields DEF Applying, Carrying
    <3> QED
      BY <2>1, <2>3, <3>1, QuietSlots DEF Carrying
  <2>4. CASE call.pc = "verify_post" /\ Goto("succeed")
    <3>1. call'.pc = "succeed" /\ call'.bundle = call.bundle
      BY <1>0, <2>4, GotoFields DEF Applying, Carrying
    <3> QED
      BY <2>1, <2>4, <3>1, QuietSlots
  <2> QED
    BY <2>1, <2>2, <2>3, <2>4
<1> QED
  BY <1>1, <1>2, <1>3, <1>4, <1>5, <1>6, ApproveSlots, FileSlots, FaultSlots, StageRecordSlots,
     StageRefusedSlots, PromotedSlots, SucceedSlots, RestoredSlots, Zenon DEF Next

----------------------------------------------------------------------------
(* The theorems                                                            *)

\* An installation as it is first started satisfies the invariant.
LEMMA InitInv == Init => UpdateInv
<1> SUFFICES ASSUME Init PROVE UpdateInv
  OBVIOUS
<1>1. /\ state = [channel |-> DefaultChannel, installed |-> Base, highest |-> Base,
                  staged |-> None, previous |-> None]
      /\ stateFile = state /\ ever = {Base}
      /\ slot = [current |-> Empty, previous |-> Empty, staging |-> Empty]
      /\ call = [pc |-> "idle", bundle |-> None, inApply |-> FALSE, from |-> None]
      /\ keys = [c \in Channels |-> None] /\ expired = {} /\ approved = {} /\ stray = {}
      /\ faults = 0 /\ regular = TRUE
  BY DEF Init, Idle, Unrecorded
<1>2. state \in State
  BY <1>1, VersionsTyped, UpdateConstants DEF State
<1>3. /\ slot \in [{"current", "previous", "staging"} -> Content]
      /\ keys \in [Channels -> Keys \cup {None}]
  BY <1>1 DEF Content
<1>4. call \in Call /\ call.pc = "idle" /\ call.inApply = FALSE
  BY <1>1 DEF Call
<1>5. Typed
  <2>1. CallOK
    BY <1>1, <1>4 DEF CallOK, Idle, Staging, Applying, Carrying
  <2>2. /\ state \in State /\ stateFile \in State
        /\ expired \subseteq Bundles /\ approved \subseteq Bundles /\ stray \subseteq Bundles
        /\ faults \in 0..MaxFaults /\ ever \subseteq Versions
    BY <1>1, <1>2, VersionsTyped, UpdateConstants
  <2>3. regular \in BOOLEAN
    BY <1>1
  <2> QED
    BY <1>3, <1>4, <2>1, <2>2, <2>3, Zenon DEF Typed, TypeOK
<1>6. Booked
  <2>1. /\ state.installed = Base /\ state.highest = Base /\ state.previous = None
        /\ stateFile = state /\ ever = {Base} /\ Base >= Base
    BY <1>1, UpdateConstants
  <2> QED
    BY <1>4, <2>1 DEF Booked, Bookable, Applying, Carrying
<1>7. StagingKnown /\ OnlyApprovedReleasesRun
  BY <1>1, <1>4 DEF StagingKnown, Known, Carrying, OnlyApprovedReleasesRun
<1>8. SlotsFollow
  BY <1>1, <1>4 DEF SlotsFollow, Names, Staging, Returning
<1> QED
  BY <1>5, <1>6, <1>7, <1>8 DEF UpdateInv

\* The inductive invariant holds in every reachable state of the update manager.
THEOREM Invariance == Spec => []UpdateInv
<1>1. UpdateInv /\ [Next]_vars => UpdateInv'
  <2> SUFFICES ASSUME UpdateInv, [Next]_vars PROVE UpdateInv'
    OBVIOUS
  <2>1. CASE Next
    BY <2>1, TypedStep, BookedStep, SlotsStep DEF UpdateInv, Slots
  <2>2. CASE UNCHANGED vars
    <3>1. Typed'
      BY <2>2, Zenon DEF vars, UpdateInv, Typed, TypeOK, CallOK
    <3>2. Booked' /\ StagingKnown' /\ OnlyApprovedReleasesRun'
      BY <2>2 DEF vars, UpdateInv, Booked, Bookable, StagingKnown, Known, OnlyApprovedReleasesRun
    <3>3. regular' => SlotsFollow'
      BY <2>2 DEF vars, UpdateInv, SlotsFollow, Names
    <3> QED
      BY <3>1, <3>2, <3>3 DEF UpdateInv
  <2> QED
    BY <2>1, <2>2
<1> QED
  BY <1>1, InitInv, PTL DEF Spec

\* The manager's state, its file, the slots and the call in progress keep their types.
THEOREM TypeCorrect == Spec => []TypeOK
<1>1. UpdateInv => TypeOK
  BY DEF UpdateInv, Typed
<1> QED
  BY <1>1, Invariance, PTL

\* approve() and apply(): whatever fails and wherever the process dies, what runs and what
\* is kept to return to was approved, or was copied by a stage() that was cut off.
THEOREM OnlyTheApprovedRun == Spec => []OnlyApprovedReleasesRun
<1>1. UpdateInv => OnlyApprovedReleasesRun
  BY DEF UpdateInv
<1> QED
  BY <1>1, Invariance, PTL

\* #promote and rollback(): as long as no call was cut short, current and previous hold
\* between calls the releases the record names.
THEOREM SlotsAreTheRecorded == Spec => []SlotsMatchTheRecord
<1>1. UpdateInv => SlotsMatchTheRecord
  <2> SUFFICES ASSUME UpdateInv, regular, call = Idle
               PROVE  Names("current", state.installed) /\ Names("previous", state.previous)
    BY DEF SlotsMatchTheRecord, Names
  <2>1. call.pc = "idle"
    BY DEF Idle
  <2> QED
    BY <2>1 DEF UpdateInv, SlotsFollow
<1> QED
  BY <1>1, Invariance, PTL

\* verifyBundle's anti-rollback check and rollback(): what state.json says is installed
\* moves as InstalledRelease says, up to the loss of the file (#loadState).
THEOREM Refinement == Spec => ImplementsInstalledRelease
<1>1. Init => Installations!Init
  BY UnrecordedState DEF Init, Installations!Init
<1>2. UpdateInv /\ [Next]_vars => [Installations!Next]_(Installations!vars)
  <2> SUFFICES ASSUME UpdateInv, [Next]_vars
               PROVE  Installations!Next \/ UNCHANGED Installations!vars
    OBVIOUS
  <2>1. CASE UNCHANGED <<stateFile, ever>>
    BY <2>1 DEF Installations!vars
  <2>2. ASSUME NEW new \in State, Bookable(new), saveState(new)
        PROVE  Installations!Next
    <3>1. stateFile' = new /\ ever' = ever \cup {new.installed}
      BY <2>2 DEF saveState
    <3>2. CASE new.installed \in ever
      BY <2>2, <3>1, <3>2 DEF Bookable, Installations!Next, Installations!Return
    <3>3. CASE new.installed = new.highest /\ new.highest > stateFile.highest
      BY <3>1, <3>3 DEF Installations!Next, Installations!Install
    <3> QED
      BY <2>2, <3>2, <3>3 DEF Bookable
  <2>5. ASSUME stateFile' = Unrecorded, ever' = {Base}
        PROVE  Installations!Next
    BY <2>5, UnrecordedState DEF Installations!Next, Installations!Forget
  <2>3. CASE Next
    BY <2>1, <2>2, <2>3, <2>5, EveryWrite, Zenon DEF Writes, saveThrows
  <2>4. CASE UNCHANGED vars
    BY <2>1, <2>4 DEF vars
  <2> QED
    BY <2>3, <2>4
<1> QED
  BY <1>1, <1>2, Invariance, PTL DEF Spec, ImplementsInstalledRelease, Installations!Spec
=============================================================================
