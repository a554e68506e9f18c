--------------------------- MODULE UpdateManager ---------------------------
(***************************************************************************)
(* update-manager.mjs: signed bundles wait in the inbox, one is staged and *)
(* approved, apply() promotes it through the slots `current` and           *)
(* `previous`, and a failure or the owner rolls back.                      *)
(*                                                                         *)
(* No other request comes between two steps of a call: the callbacks the   *)
(* server passes (server.mjs 961-992) settle at once.  What comes between  *)
(* is a file operation or a save that throws, and the death of the         *)
(* process.  Either leaves the slot it was changing as it was, in part, or *)
(* empty; state.json is replaced by a rename and no save tears it, but it  *)
(* may be missing or unreadable when the process starts.                   *)
(*                                                                         *)
(* healthCheck is a parameter of the class and may answer either way.      *)
(* Refusals change nothing, so an operation that is refused (safe mode, no *)
(* typed confirmation, no recent reauthentication) is one not taken.  The  *)
(* migration, which the server does not pass, is left out.                 *)
(***************************************************************************)
EXTENDS Naturals, FiniteSets

CONSTANTS
    Bundle,          \* [b -> [version, minFrom, channel, key]]: what may be in the inbox
    Channels, Keys, DefaultChannel,
    Base,            \* currentVersion: the release of the program that runs
    Empty, Torn,     \* a slot that holds nothing, or a part of a bundle
    None,
    MaxFaults        \* bound: failed file operations and crashes

Bundles == DOMAIN Bundle

Versions == {Base} \cup {Bundle[b].version : b \in Bundles}

\* What a slot holds: a whole bundle, nothing, or a part of one.
Content == Bundles \cup {Empty, Torn}

StagedRecord == [bundle : Bundles, channel : Channels, approved : BOOLEAN]

State == [channel : Channels, installed : Versions, highest : Versions,
          staged : StagedRecord \cup {None}, previous : Versions \cup {None}]

ASSUME UpdateConstants ==
    /\ Base \in Nat /\ MaxFaults \in Nat /\ DefaultChannel \in Channels
    /\ Bundle \in [Bundles -> [version : Nat, minFrom : Nat, channel : Channels, key : Keys]]
    /\ None \notin StagedRecord \cup Versions \cup Keys
    /\ Bundles \cap {Empty, Torn} = {}

VARIABLES
    state,       \* this.state
    stateFile,   \* what #loadState would read
    slot,        \* the directories current, previous and staging
    keys,        \* keys/<channel>.pub.pem
    expired,     \* bundles whose expires_utc has passed
    call,        \* the call in progress: its next step, and what it works on
    faults,      \* failed file operations, failed saves and crashes so far
    ever,        \* history: the versions state.json has named, since it was last lost
    approved,    \* history: bundles the owner approved
    stray,       \* history: bundles copied by a stage() that did not record them
    regular      \* history: no call cut short, state.json not lost, and no rollback
                 \* with nothing to go back to

vars == <<state, stateFile, slot, keys, expired, call, faults, ever, approved,
          stray, regular>>

Idle == [pc |-> "idle", bundle |-> None, inApply |-> FALSE, from |-> None]

----------------------------------------------------------------------------
(* #loadState, #saveState and #record                                      *)

\* #loadState's `empty`, when state.json is missing or does not parse.
Unrecorded == [channel |-> DefaultChannel, installed |-> Base, highest |-> Base,
               staged |-> None, previous |-> None]

Init ==
    /\ state = Unrecorded /\ stateFile = Unrecorded
    /\ slot = [current |-> Empty, previous |-> Empty, staging |-> Empty]
    /\ keys = [c \in Channels |-> None]
    /\ expired = {}
    /\ call = Idle
    /\ faults = 0
    /\ ever = {Base}
    /\ approved = {}
    /\ stray = {}
    /\ regular = TRUE

Fault == faults < MaxFaults /\ faults' = faults + 1

\* Every record writes the whole of this.state.
saveState(new) ==
    /\ state' = new
    /\ stateFile' = new
    /\ ever' = ever \cup {new.installed}
    /\ UNCHANGED faults

\* What was assigned before the save stays assigned.
saveThrows(new) ==
    /\ Fault
    /\ state' = new
    /\ UNCHANGED <<stateFile, ever>>

----------------------------------------------------------------------------
(* verifyBundle                                                            *)

\* Without check 4's comparison with the highest version ever installed.
VerifiedAboveInstalled(content, channel) ==
    /\ content \in Bundles \ expired
    /\ keys[channel] = Bundle[content].key
    /\ Bundle[content].channel = channel
    /\ Bundle[content].version > state.installed
    /\ state.installed >= Bundle[content].minFrom

verifyBundle(content, channel) ==
    /\ content \in Bundles \ expired
    /\ keys[channel] = Bundle[content].key
    /\ Bundle[content].channel = channel
    /\ Bundle[content].version > state.installed
    /\ Bundle[content].version > state.highest
    /\ state.installed >= Bundle[content].minFrom

\* Time matters where a bundle is verified: before a call, and before stage() records.
Expire(b) ==
    /\ call = Idle \/ call.pc = "stage_record"
    /\ expired' = expired \cup {b}
    /\ UNCHANGED <<state, stateFile, slot, keys, call, faults, ever, approved, stray, regular>>

----------------------------------------------------------------------------
(* setChannel, installChannelKey, check, approve                           *)

\* A call that only changes this.state and records it.
Assign(new) ==
    /\ call = Idle
    /\ saveState(new) \/ saveThrows(new)
    /\ UNCHANGED <<slot, expired, call, stray, regular>>

setChannel(c) ==
    /\ Assign([state EXCEPT !.channel = c])
    /\ UNCHANGED <<keys, approved>>

installChannelKey(c, k) ==
    /\ keys' = [keys EXCEPT ![c] = k]
    /\ Assign(state)
    /\ UNCHANGED approved

check ==
    /\ Assign(state)
    /\ UNCHANGED <<keys, approved>>

approve ==
    /\ state.staged # None
    /\ Assign([state EXCEPT !.staged.approved = TRUE])
    /\ approved' = approved \cup {state.staged.bundle}
    /\ UNCHANGED keys

----------------------------------------------------------------------------
(* The calls that change slots: one file operation at a time.              *)

At(pc) == call.pc = pc

Goto(pc) == call' = [call EXCEPT !.pc = pc]

Return == call' = Idle

\* The file operations: the slot each one changes, what it leaves there, and
\* the step after it.
FileStep ==
    [ stage_remove    |-> [slot |-> "staging",  from |-> "nothing", next |-> "stage_copy"],
      stage_copy      |-> [slot |-> "staging",  from |-> "inbox",   next |-> "stage_record"],
      remove_previous |-> [slot |-> "previous", from |-> "nothing", next |-> "keep_current"],
      keep_current    |-> [slot |-> "previous", from |-> "current", next |-> "remove_current"],
      remove_current  |-> [slot |-> "current",  from |-> "nothing", next |-> "copy_staging"],
      copy_staging    |-> [slot |-> "current",  from |-> "staging", next |-> "remove_staging"],
      remove_staging  |-> [slot |-> "staging",  from |-> "nothing", next |-> "promoted"],
      unpromote       |-> [slot |-> "current",  from |-> "nothing", next |-> "restore"],
      restore         |-> [slot |-> "current",  from |-> "previous", next |-> "restored"] ]

Promoting == {"remove_previous", "keep_current", "remove_current", "copy_staging",
              "remove_staging"}

Held(from) ==
    CASE from = "nothing" -> Empty
      [] from = "inbox" -> call.bundle
      [] OTHER -> slot[from]

FileOperation ==
    /\ call.pc \in DOMAIN FileStep
    /\ slot' = [slot EXCEPT ![FileStep[call.pc].slot] = Held(FileStep[call.pc].from)]
    /\ Goto(FileStep[call.pc].next)
    /\ UNCHANGED <<state, stateFile, keys, expired, faults, ever, approved, stray, regular>>

\* What an operation that did not finish leaves of the slot it was changing.
Partly ==
    IF call.pc \in DOMAIN FileStep
    THEN \E left \in {slot[FileStep[call.pc].slot], Torn, Empty} :
            slot' = [slot EXCEPT ![FileStep[call.pc].slot] = left]
    ELSE UNCHANGED slot

\* rollback() replaces current only when previous holds something.
FirstRollbackStep == IF slot'.previous = Empty THEN "restored" ELSE "unpromote"

\* apply()'s catch, reached from any failure between the backup and success.
Catch == Goto(FirstRollbackStep)

FileOperationThrows ==
    /\ call.pc \in DOMAIN FileStep
    /\ Fault
    /\ Partly
    /\ IF call.pc \in Promoting THEN Catch ELSE Return
    /\ regular' = FALSE
    /\ UNCHANGED <<state, stateFile, keys, expired, ever, approved, stray>>

----------------------------------------------------------------------------
(* stage                                                                   *)

stage(b) ==
    /\ call = Idle
    /\ verifyBundle(b, state.channel)
    /\ call' = [Idle EXCEPT !.pc = "stage_remove", !.bundle = b]
    /\ UNCHANGED <<state, stateFile, slot, keys, expired, faults, ever, approved, stray, regular>>

\* What landed in staging is verified again, and recorded.
StageRecord ==
    LET new == [state EXCEPT !.staged = [bundle |-> call.bundle, channel |-> state.channel,
                                         approved |-> FALSE]]
    IN  /\ At("stage_record")
        /\ verifyBundle(slot.staging, state.channel)
        /\ Return
        /\ \/ saveState(new) /\ UNCHANGED <<stray, regular>>
           \/ saveThrows(new) /\ stray' = stray \cup {call.bundle} /\ regular' = FALSE
        /\ UNCHANGED <<slot, keys, expired, approved>>

\* What landed is refused, and stays in staging beside the record of an earlier bundle.
StageRefused ==
    /\ At("stage_record")
    /\ ~verifyBundle(slot.staging, state.channel)
    /\ Return
    /\ stray' = stray \cup {call.bundle}
    /\ UNCHANGED <<state, stateFile, slot, keys, expired, faults, ever, approved, regular>>

----------------------------------------------------------------------------
(* apply                                                                   *)

\* The guard on the owner's approval left out.
ApplyUnapproved ==
    /\ call = Idle
    /\ state.staged # None
    /\ verifyBundle(slot.staging, state.staged.channel)
    /\ call' = [Idle EXCEPT !.pc = "backup", !.bundle = slot.staging, !.inApply = TRUE,
                            !.from = state.installed]
    /\ UNCHANGED <<state, stateFile, slot, keys, expired, faults, ever, approved, stray, regular>>

\* What is in staging is not verified again.
ApplyUnverified ==
    /\ call = Idle
    /\ state.staged # None
    /\ state.staged.approved
    /\ call' = [Idle EXCEPT !.pc = "backup", !.bundle = slot.staging, !.inApply = TRUE,
                            !.from = state.installed]
    /\ UNCHANGED <<state, stateFile, slot, keys, expired, faults, ever, approved, stray, regular>>

apply ==
    /\ call = Idle
    /\ state.staged # None
    /\ state.staged.approved
    /\ verifyBundle(slot.staging, state.staged.channel)
    /\ call' = [Idle EXCEPT !.pc = "backup", !.bundle = slot.staging, !.inApply = TRUE,
                            !.from = state.installed]
    /\ UNCHANGED <<state, stateFile, slot, keys, expired, faults, ever, approved, stray, regular>>

\* Without a verified backup the call ends here, with only the attempt recorded;
\* the record itself may fail, with or without one.
Backup ==
    /\ At("backup")
    /\ \/ saveState(state) /\ Goto("candidate")
       \/ saveState(state) /\ Return
       \/ saveThrows(state) /\ Return
    /\ UNCHANGED <<slot, keys, expired, approved, stray, regular>>

\* A health check, and the record of a good answer.
Health(pc, next) ==
    /\ At(pc)
    /\ UNCHANGED slot
    /\ \/ saveState(state) /\ Goto(next)
       \/ saveThrows(state) /\ Catch
       \/ UNCHANGED <<state, stateFile, ever, faults>> /\ Catch
    /\ UNCHANGED <<keys, expired, approved, stray, regular>>

CandidateHealth == Health("candidate", "remove_previous")

\* The end of #promote.  The version kept is the one that was installed.
PromotedIsKept ==
    LET new == [state EXCEPT !.previous = Bundle[call.bundle].version]
    IN  /\ At("promoted")
        /\ UNCHANGED slot
        /\ \/ saveState(new) /\ Goto("verify_post") /\ UNCHANGED regular
           \/ saveThrows(new) /\ Catch /\ regular' = FALSE
        /\ UNCHANGED <<keys, expired, approved, stray>>

Promoted ==
    LET new == [state EXCEPT !.previous = state.installed]
    IN  /\ At("promoted")
        /\ UNCHANGED slot
        /\ \/ saveState(new) /\ Goto("verify_post") /\ UNCHANGED regular
           \/ saveThrows(new) /\ Catch /\ regular' = FALSE
        /\ UNCHANGED <<keys, expired, approved, stray>>

VerifyPost == Health("verify_post", "succeed")

Succeed ==
    LET version == Bundle[call.bundle].version
        new == [state EXCEPT !.installed = version, !.staged = None,
                             !.highest = IF version > @ THEN version ELSE @]
    IN  /\ At("succeed")
        /\ Return
        /\ saveState(new) \/ saveThrows(new)
        /\ UNCHANGED <<slot, keys, expired, approved, stray, regular>>

----------------------------------------------------------------------------
(* rollback, called by the owner or by apply()'s catch                     *)

rollback ==
    /\ call = Idle
    /\ UNCHANGED slot
    /\ call' = [Idle EXCEPT !.pc = FirstRollbackStep]
    /\ UNCHANGED <<state, stateFile, keys, expired, faults, ever, approved, stray, regular>>

\* The health answer is recorded and changes nothing else.  With nothing in
\* previous the record goes back and current does not.
Restored ==
    LET to == IF state.previous # None THEN state.previous ELSE state.installed
        new == [state EXCEPT !.installed = to, !.staged = None]
    IN  /\ At("restored")
        /\ \/ saveState(new) /\ IF call.inApply THEN Goto("rolled_back") ELSE Return
           \/ saveThrows(new) /\ Return
        /\ regular' = (regular /\ (slot.previous # Empty \/ slot.current = Empty))
        /\ UNCHANGED <<slot, keys, expired, approved, stray>>

\* apply()'s own record of the rollback, before it throws.
RolledBack ==
    /\ At("rolled_back")
    /\ saveState(state) \/ saveThrows(state)
    /\ Return
    /\ UNCHANGED <<slot, keys, expired, approved, stray, regular>>

----------------------------------------------------------------------------
\* The process ends anywhere; the constructor reads state.json back.  When it is
\* missing or does not parse, the installation starts as at first: the ledger, which
\* also has the versions, is not read.
Restart ==
    /\ Fault
    /\ Partly
    /\ Return
    /\ \/ /\ state' = stateFile /\ UNCHANGED <<stateFile, ever>>
          /\ regular' = (regular /\ call = Idle /\ state = stateFile)
       \/ /\ state' = Unrecorded /\ stateFile' = Unrecorded /\ ever' = {Base}
          /\ regular' = FALSE
    /\ stray' = IF At("stage_record") THEN stray \cup {call.bundle} ELSE stray
    /\ UNCHANGED <<keys, expired, approved>>

Next ==
    \/ \E c \in Channels : setChannel(c) \/ \E k \in Keys : installChannelKey(c, k)
    \/ \E b \in Bundles : Expire(b) \/ stage(b)
    \/ check \/ approve \/ apply \/ rollback
    \/ FileOperation \/ FileOperationThrows \/ StageRecord \/ StageRefused
    \/ Backup \/ CandidateHealth \/ Promoted \/ VerifyPost \/ Succeed
    \/ Restored \/ RolledBack
    \/ Restart

Spec == Init /\ [][Next]_vars

----------------------------------------------------------------------------
(* Properties                                                              *)

TypeOK ==
    /\ state \in State /\ stateFile \in State
    /\ slot \in [{"current", "previous", "staging"} -> Content]
    /\ keys \in [Channels -> Keys \cup {None}]
    /\ expired \subseteq Bundles /\ approved \subseteq Bundles /\ stray \subseteq Bundles
    /\ faults \in 0..MaxFaults /\ ever \subseteq Versions /\ regular \in BOOLEAN
    /\ call.pc # "idle" => \/ call.bundle \in Bundles
                           \/ call.pc \in {"unpromote", "restore", "restored"}

\* state.json moves as InstalledRelease says, whatever fails and wherever the
\* process dies: no version is installed at or below one that was installed
\* before (verifyBundle's anti-rollback), and rollback() only names one that was -
\* for as long as #loadState finds the file.  Only its loss makes the manager forget
\* the highest version, and then the installation counts from the start.
Installations ==
    INSTANCE InstalledRelease WITH installed <- stateFile.installed,
                                   highest <- stateFile.highest

ImplementsInstalledRelease == Installations!Spec

\* approve(): "Staging without approval never becomes an install."  What runs, and
\* what is kept to return to, is a bundle the owner approved - or one whose
\* stage() was cut off or refused between the copy and the record, so that an
\* approval given to another bundle stands over it.
OnlyApprovedReleasesRun ==
    {slot.current, slot.previous} \subseteq approved \cup stray \cup {Empty, Torn}

\* The release a slot holds is the one the record names for it, between calls, as
\* long as no call was cut short, state.json was not lost and no rollback ran with
\* nothing to go back to (which leaves the failed release in current).  An empty
\* slot stands for the release the program came with.
SlotsMatchTheRecord ==
    LET Names(s, version) ==
            IF slot[s] = Empty THEN version \in {Base, None}
                               ELSE slot[s] # Torn /\ Bundle[slot[s]].version = version
    IN  regular /\ call = Idle =>
            Names("current", state.installed) /\ Names("previous", state.previous)

\* update-manager.test.mjs:346: after a failed update the installed version is the
\* one the update started from.
FailedUpdateKeepsTheVersion ==
    At("rolled_back") => state.installed = call.from
=============================================================================
