# TLA+ models of the Noesar control plane

These modules model the part of Noesar that turns a request into an effect under a person's
control: the reference control plane, `src/services/reference-control-plane/src`. Paths below
are relative to that directory. Everything runs in one Node.js process; a handler runs without
interruption until it awaits, so concurrency is what happens between two awaits, plus the death
of the process at any point.

## The system and its parts

| Part | State it keeps | Operations | Talks to |
|---|---|---|---|
| Capability engine (`capability.mjs`, `isolation.mjs`) | in memory: signing secret, registry of grants, counter | authorizePlan, mint, spend, revoke, grant | called by the routes, the executor and workspace actions |
| Executor and shadow (`executor.mjs`, `shadow.mjs`) | the call in progress, a copy of the workspace | execute, observe, compare | spends tokens; its verdict decides promotion |
| Event ledger (`events.mjs`) | events in memory, journal on disk | append, verify, loadFrom | every workspace action appends |
| Workspace actions and run store (`workspace-actions.mjs`, `run-store.mjs`) | runs in memory and on disk, shadows in memory, the workspace itself | plan, answer, measure, repair, iterate, approve, reject, restore | model calls (awaited), executor, minter, ledger |
| Workflow runs (`ai-workspace/workflow-service.mjs`) | runs and steps in a JSON store, the set of runs being advanced | createRun, advance, decideApproval, cancelRun, replayRun | tools (awaited, with time-outs), approval queue |
| Update manager (`update-manager.mjs`) | slots `current`, `previous`, `staging` on disk, `state.json`, pinned keys | setChannel, installChannelKey, check, stage, approve, apply, rollback | backup and health check (callbacks), watchdog |
| Agent runs (`ai-workspace/agent-service.mjs`) | runs and steps in the JSON store | createRun, approveStep, updateStep, executeStep | tools and models (awaited) |
| Memory candidates (`memory-service.mjs`) | rows of an external database | write, promote (two statements) | database (awaited) |
| Approval queue (`approval-queue.mjs`) | nothing | list, decide | workflow service, agent service, update manager, memory |
| Identity (`auth.mjs`, `auth-store.mjs`) | `auth.json`: account, sessions, challenges, attach codes, terminals, pending changes | setup, login, factor changes, attach and remember, recovery, revocation | routes |
| Adapter grants, authority protocol, watchdog, audit ledger, session protocol | small registries, nonces, counters, a hash-chained file | see the files | routes |
| Providers and egress, sandbox, local models, database, reasoning, user interfaces, Rust mirrors | – | input/output, cryptography, text, SQL | – |

`PROJECT.json` lists every part with what is modelled of it, and the hazards at their lines.

What is hard here, and what correctness means for each part:

* **Authority.** A token may be presented by three callers, in any order with revocations, and
  the registry, the secret and the counter that names tokens all vanish with the process. No
  grant may be overspent, widened, revived, or paid for by another.
* **Effects.** Every effect in a shadow must have been paid for first, and `ok` must mean that
  what was declared happened and nothing else.
* **Record.** The journal is appended to by a process that may die inside the write. What was
  told must survive, recovery must invent nothing and must work more than once.
* **Change.** `repair` and `answer` wait for a model between check and assignment; promotions
  and restores write several files; saves may fail. Only approved bytes may land, decisions must
  stand, and a restore must give back what was replaced.
* **Workflows.** Retries, time-outs, cancellations, rejections and compensations overlap, and a
  dead process leaves steps running. Nothing may be done twice or skipped, and every call ends.
* **Updates.** An update is nine file operations and seven saves; any of them may fail or be the
  last thing the process does. What runs must have been approved, the record must say what runs,
  and no way through failures and rollbacks may lead back below a version that was installed.
* **Approvals.** A decision names its item by id and may be old; executions and database decisions
  wait between check and write. A step's tool must be called once for each time the step was made
  ready, and a decision must not be undone by something that nobody decided.
* **Identity.** Nothing interleaves, but some thirty operations may follow each other in any order.
  A code is good once, a session is never stronger than what it rests on, a recovery ends what
  came before it, and guessing stays slow.

## The modules

### Capability

One action per operation: `mint`, `spend`, `revoke`, `restart`, `tick`. A refusal in the code
throws before anything is assigned, so refused calls are stuttering steps and only their
conditions (`Mintable`, `Spendable`) are stated. `issued` is the registry, `counter` and `epoch`
stand for `#counter` and the secret, `held` is every token ever handed out. Two conversions are
modelled by what they do:

* `IdOf` is the content of the hash that names a token: the digest of the plan, then the characters
  of the step's id and of the counter with nothing between them. Step `s11` at counter 2 and step `s1`
  at counter 12 of one plan have the same identifier, and the entry of the later mint replaces the
  earlier one. The hash itself is taken to be free of collisions.
* `Mac` is the tuple that `#sign` fixes. It holds the paths and the operations in lower case as one
  list (`Signed`) without saying where the paths end, so a token verifies (`Verifies`) when it reads
  the same as one signed under the present secret. `Presented` offers every token with the end of its
  paths moved (`Resplit`), and tokens with another expiry. An operation spelled otherwise than one of
  the four is left out of `Resplit`: `spend` is never asked for it, so it grants nothing.

Uses are counted in halves, because `mint` accepts fractions. `granted` and `spent` (by identifier) and
`honoured` are history. `revoke` has the guard of its two callers, the route in `server.mjs` and the
command in `session-protocol.mjs`: both withdraw only what `grant()` still describes. `Executor` extends
this module and adds its own spends.

### Executor

`execute` starts a call with two tokens; `refuseAction` and `performAction` are one turn of its
loop; `finish` observes, compares and gives the verdict; `crash` kills the process between two
turns. Since `execute()` never yields, no other call interleaves, but the clock runs on while
every token is judged at the `nowUnix` of the call. Commands may change any files and exit
either way. File contents are abstracted to *differs or not*.

### EventLedger

`append` is the whole of `append()`, and `appendThrows` and `crashInAppend` are the same call
when the write fails or the process dies in it. `Writes` names what may have reached the disk:
all of it, all but the newline, a fragment, nothing. A journal is a sequence of lines, each a
sequence of pieces, the last one perhaps without a newline, so that gluing of an append to an open line is
visible. `loadFrom` and `loadRefused` are the start. A digest is the identity of the event before.

### WorkspaceActions

Runs in memory (`runs`) and on disk (`stored`), measured shadows, the workspace. `measure`,
`approve`, `reject`, `restore` are single steps because they never yield. `repair` and `answer`
are split at their await: `repairing` and `answering` count calls in flight. `iterate` is
`measure` and `repair` in turn and keeps nothing, so it is covered by the other actions. Every
change is followed by `#saveRun` and its pruning (`Update`, `saveRun`, `prune`) in the same
action, and the save may fail. `promoteThrows`, `crashInPromote`, `restoreInterrupted` are the
interrupted loops, at each file and with a torn file; `decisionUnrecorded` and `answerUnrecorded`
are the paths on which the event ledger throws in the middle of an operation. A file's content
is its origin: the attempt of a run, the original, a person's edit, a torn write, absent. Whether
a measurement is clean is a free choice, except that a clean one changed exactly what it had to.

Promotion goes through the run's outcomes in order, and for each reads what the file holds, keeps it as
the backup and writes (`Promotion`, `After`, `Backups`). `plan()` takes a path twice, so `RunFiles` may
name a file twice, and then the second backup of it holds bytes that the promotion itself wrote; a
restore writes the backups back in their order. The new run that `answer` opens is saved by a call of
its own, which may fail as well (`Failing`).

### WorkflowRun

One run. `adv` is the call of `advance()` in progress (`advancing` allows one per run), `comp` the
compensations in progress, one per caller: two operators and `advance()` itself. A step of the model
is what happens between two awaits; each `transact` is atomic, as temp-then-rename of the store makes
it. Where two transactions follow each other in one turn, the change and then `#finishRun`,
`crashBeforeFinish` is the death of the process between them. `overlap` is history: an operator's
compensation ran at the same time as an advance. `crash` forgets calls and keeps the stored run.

### UpdateManager and InstalledRelease

`state` is `this.state`, `stateFile` what a restart reads back, `slot` what the three directories
hold: a whole bundle, a torn one, nothing. `stage`, `apply` and `rollback` are split at every file
operation (`FileStep` names them in order) and every save; `call` is where the call is. Requests do
not come between: the callbacks the server passes settle without waiting. What comes between is
`FileOperationThrows`, a save that throws (`saveThrows`: what was assigned stays assigned, the file
stays old) and `Restart`. `Catch` is the catch of `apply`, which calls `rollback()` whatever failed.
A bundle is its version, the version it needs, its channel and its key; `verifyBundle` is the code's
list of checks on that, a torn bundle failing them by its hashes. `Expire` lets a bundle's expiry
pass. `stage` verifies a second time what it copied, and may refuse it (`StageRefused`), which leaves
it in `staging`. `Restart` reads `state.json` back, or finds it missing or unparsable and starts from
`Unrecorded`, with the program's own version installed and the highest. `ever`, `approved`, `stray`
and `regular` are history.

`InstalledRelease` is what the manager promises about the version an installation names: `Install`
goes above every version there was, `Return` only to one there was, and `Forget` is the loss of the
record, after which the installation counts from the beginning. `ImplementsInstalledRelease` maps
`installed` and `highest` to the fields of `stateFile` and `ever` to the history of the same name.
`highest` may grow in a `Return`: when the save of a success fails, the success stays in memory, and
the next save, perhaps that of a rollback, writes its version down as the highest.

### AgentRuns, MemoryCandidates and ApprovalQueue

`AgentRuns` is one agent run. `executeStep` checks, marks the step `running` and calls the tool in one
step; `executionEnds` writes the outcome whenever it comes, and `outcomeLost` is the case in which the
store refuses both the outcome and the failure. `patchStep` is the route that passes whatever status
it is sent to `updateStep`; `"other"` stands for each one the service does not know.
`MemoryCandidates` splits `promote()` at the wait between its `SELECT` and its `UPDATE`; `write`
inserts a record in any promotion state, private to its writer. `ApprovalQueue` extends both and adds
what the queue does itself: `rejectStep`, and the choice of the service in `decide`. Workflow gates
are decided in `WorkflowRun`; a staged update cannot be decided in the queue, since `approve` wants a
typed confirmation that the queue does not pass. `calls`, `reopened` and `written` are history that
the properties count with; `patched`, `overtaken`, `abandoned` and `crossed` name the cases in which
something came between a check and its write.

### Identity

The owner's account as one record and what hangs on it. Every operation is one synchronous
read-modify-write of a file that is replaced by a rename, so one operation is one action. Time is the
number of the 30-second step of a code, and `Window` the codes valid around it. Lifetimes are not
counted: sessions, codes, challenges, terminals and locks may expire at any moment. A session is what
it rests on: password, code or passkey, whether a remembered terminal carried it, and before which
recovery it was. `top`, `reused`, `compared`, `lapsed` and `era` are history.

Several passkeys may be enrolled. A session is opened by a second update after the operation's own,
with a ledger entry between them; a death or a refused entry there leaves what the operation followed
by the end of that session leaves, so the two are one action. A route that changes a factor
authenticates before it waits for its body, so the session may be gone when the change is made: such
an operation asks only that a session was opened (`Asked`). The count of failed logins stops at its
limit, from which on the code does the same whatever it is. Only the comparisons of `beginLogin` are
counted, since the lock is about those. An open socket keeps the authentication it was opened with
(`session-protocol.mjs`), outside the model.

### The MC modules and the proof modules

`MC*` give the constants values. A component's theorems and proofs are in a module of their own:
`CapabilityProofs` (about the specification of `Executor`, which extends `Capability`),
`EventLedgerProofs`, `WorkspaceActionsProofs`, `WorkflowRunProofs`, `UpdateManagerProofs` (with the
refinement of `InstalledRelease`), `ApprovalQueueProofs` (with `AgentRuns` and `MemoryCandidates`) and
`IdentityProofs`.

## The runs

| Run | Shows | States |
|---|---|---|
| `executor` | the seven properties of engine and executor | 2.08 million |
| `event_ledger` | causal record, recovery of a prefix, reported loss, survival of torn writes | 0.87 million |
| `workspace_actions` | shadow and attempt agree, only approved bytes land, restores, disk and memory, decisions | 1.82 million |
| `workflow_run` | bounded attempts, nothing left open, undoing complete and in order, no work after cancel, liveness | 32 thousand |
| `updates` | approved releases run, slots match the record, refinement of `InstalledRelease` | 8.3 million |
| `approvals` | tools are called once per readiness, running means executing, rejections stand, visible means promoted | 2.35 million |
| `identity` | codes used once, second factor carried, recovery, slowed guesses | 1.84 million |
| `journal_tail`, `rejected_run`, `promotion`, `rejected_gate`, `failed_update` | one disagreement each between the code and what it says of itself | stop at the counterexample |

Every property of a passing run is shown to be sensitive to the code by a mutant: an operator
written just before the definition it replaces (`MintableAsAsked`, `CloseTornLine`, ...), a
plausible slip that makes TLC report exactly that property.

### Findings

1. `journal_tail`: a record whose newline was cut off is kept and the line left open; the next
   event is glued to it and lost at the following restart although its caller was told.
2. `rejected_run`: a rejection taken while `repair()` waits is overwritten, and the run can be
   promoted.
3. `promotion`: `promotionAllOrNothing: true` is reported, but files are written one by one and
   nothing is undone when one fails.
4. `rejected_gate`: `advance()` called while a rejection compensates runs the steps behind the
   gate and reports the run completed.
5. `failed_update`: an update that fails before its promotion rolls back from a release that was
   never replaced. On an installation that was updated before, it ends at the release before the
   installed one. The server's own health check fails only in safe mode, in which `apply` is
   refused, so there the case is reached by a failing save or file operation.

Seen while modelling, and stated in the properties as the cases they leave out:

* Two steps of a plan can come to the same token identifier (`capability.mjs:191-196` hashes without a
  delimiter). The later entry replaces the earlier, whose token then draws on it, and a revoked
  identifier is live again. `SpendsWithinGrant`, `TokensDrawOnTheirOwnGrant` and
  `WithdrawnStaysWithdrawn` say what holds then and what holds without it.
* The MAC does not fix where the paths end (`capability.mjs:98-99`): a token for the files `a` and
  `execute` reads the same as one that may execute `a` (`HonouredWithinApproval`).
* A run that names a file twice keeps, as the second backup of it, what its promotion wrote; a restore
  leaves the promoted bytes there (`NamedOnce` in `RestoreReturnsWhatWasReplaced`).
* `workspace-actions.mjs:2533` reports `runsPersistAcrossRestart: false`, while runs are stored and read
  back (`DiskAgreesWithMemory`).
* A lost or damaged `state.json` resets the highest version to the program's own. The header of
  `update-manager.mjs` (10-11) and `docs/UPDATE_MANAGER_DESIGN.md` (98-101) say that deleting local state
  does not enable a silent rollback, since the ledger records the version; nothing reads it back from
  there (`Forget` in `InstalledRelease`).
* `PATCH` on an agent step stores any status, `updateStep` checking none (`patched` in the properties).
* A memory record can be written `project` or `global` at once, without a decision, as
  `tools/acceptance/memory-integration.mjs:79-83` does; it stays private (`VisibleMeansPromoted`).
* `spend()` keeps only the counter of a grant with uses left, so that it is listed and revoked
  without step, paths or expiry.
* A `stage()` cut off between copy and record leaves another bundle's approval over the new files
  (`stray` in `OnlyApprovedReleasesRun`); the comment of `approve()` speaks of every install.
* The comment in `#promote` says `previous/` is not removed before a promotion passed its health
  check; it is replaced before the check that follows the promotion.
* A rollback with nothing in `previous` puts the record back and leaves the failed release in
  `current` (`regular` in `SlotsMatchTheRecord`).
* The outcome of an execution overwrites a rejection that came meanwhile (`overtaken`), and the later
  of two memory decisions overwrites the earlier (`crossed`).
* A recovery leaves remembered terminals and passkeys as they are (`RecoveryCutsOldSessions`); the
  comment of `completeRecovery` speaks of everything the old credential could reach.
* The comment at `beginLogin` says a changed password closes the login without authenticator; the
  condition is that none is enrolled.

### Bounds, and why they are enough

* `executor`: two tokens, one restart, two points in time, two spends by identifier, one job of a write
  and a command. Two tokens are needed for one to draw on another's grant or to stand in front of
  another in the list; one restart repeats identifiers; time 1 is where everything expires. The two
  counters are written like 1 and 11 and two steps are called `s` and `s1`, so that identifiers meet
  within two mints; a file is called `execute` and a path `read`, so that the end of the paths can move.
  The requests cover each reason for refusal that widens something, and one and a half uses.
* `event_ledger`: four events, two correlations, two times, two crashes. Losing a told event
  takes a torn write, a restart, an append and another restart: two crashes and two events.
* `workspace_actions`: two runs that share a file, one that names two files and the shared one twice,
  one derived, two attempts, one call in flight per kind and run, one fault, one retained run file.
  One fault is one crash, failed save, failed write or refused event: any of them at any point. Two
  faults in a row and two repairs in flight of one run are outside the instance.
* `workflow_run`: three steps (one retried and undoable, one gated and undoable, one last), two
  operators, two crashes, so that the second crash may hit the recovery from the first.
* `updates`: two releases on one channel and a third on another with another key that needs the
  second; two faults, so that the recovery from one can be hit by the other, or the loss of the state
  file can follow it. A second update, with
  something in `previous`, is what rollbacks from a failed update need.
* `approvals`: a step whose tool is mutative without its saying so, and a step answered by the model
  that says it is; two `PATCH`es, so that one may undo another, and one restart; one memory record
  and two people, who are alike (`SYMMETRY`; nothing but invariants is checked there). The services
  share nothing but the queue, so more of either adds no interaction.
* `identity`: lock after two failures, two time steps and so three codes, two authenticators, three
  sessions, one terminal, one challenge, one recovery. Two authenticators let one replace the other;
  three sessions are an origin, one carried from it and one more, or one carried on from that.

`CHECK_DEADLOCK FALSE` is set where the bounds use themselves up; `workflow_run` checks deadlock.

### Fairness

Only `WorkflowRun` assumes any: `advance()` once started takes its turns, and a compensation that
runs ends. The code justifies both: every tool call is raced against a timer (`withTimeout`) and
the back-off is a timer. No call by a person is assumed, nor that a crashed run is ever resumed:
`CancellationEnds` is about cancellations that some call works on, unless the process dies.

## What is proved

Every safety property that a passing run checks, invariant or action property, and the refinement of
`InstalledRelease` are also theorems: they hold for every value of the constants, so for any number of
runs, steps, files, bundles, people, faults and restarts. The assumptions on the constants are named in
the modules that declare them, and TLC evaluates them on every run. They say what type a constant has
and that the value standing for nothing is no value; beyond that, `SpellingsTyped` of `Capability` wants
two counters and two operations to be written differently, and steps' ids to be just sequences of
characters; `Identity` wants the limit of failed
logins positive (it is 5 in the code) and at least one step of time, `WorkflowRun` wants every step to have at
least one attempt (`maxAttempts` is at least 1 in the code), and `WorkspaceActions` counts attempts from 1.

None of the properties is inductive. Each proof module defines the invariant its properties rest on,
proves `Init => Inv` and `Inv /\ [Next]_vars => Inv'` with a lemma per action, and draws the temporal
theorems from it with `PTL`. What the invariants add, and why:

**`CapabilityProofs`** (`Inv`): `GrantsAreNeverOverspent`, `NothingOutsideTheApproval`,
`NoTokenDrawsOnAnothersGrant`, `EveryEffectIsPaid`, `OkIsAsDeclared`, `RevocationIsFinal`.

* `KnownKeys`, `OneTokenPerSerial`: a token of the present incarnation is named after a counter that was
  passed, and no two tokens of an incarnation share it. With the same step's id, the same identifier
  therefore means the same token (`SerialOfId`), although identifiers repeat after a restart and may
  meet between steps; it needs `Verifies` to tie a spend to the secret.
* `FreshIds`, `WholeLeft`: an identifier that no token of this incarnation carries has neither entry nor
  spends, so that a first mint under it starts from nothing; entries of whole grants hold whole uses, so
  that a counter that is not 0 pays for a use.
* `MintedInScope`, `HonouredInScope`: every held token lies within its step's files, operations and
  approval (what `mint` checked), and everything honoured was presented with a token that reads like a
  held one of this incarnation. `SignedRange` says what a path or an operation of such a token can be:
  one of the held token's, or a name that is both.
* `PaidWasHonoured`, `ChangedWasPaid`, `OutcomesFollowActions`, `OkWhenFinished`, of the call in
  progress: everything paid was honoured, every changed file was paid for, each outcome belongs
  to the action at its place, and a verdict is ok only when all actions were performed and the
  comparison was clean.

**`EventLedgerProofs`** (`LedgerInv`): `TheRecordIsCausal`, `TornWritesAreSurvived`,
`RestartsReadAPrefix`, `NoSilentLoss`.

* `Copied(m)` for some `m`: the first `m` lines of the journal are the first `m` events, and the next
  line, if there is one, cannot be read as the next event, because it does not parse or its digest
  names another predecessor. If there is none, nobody was told of the events after `m`. Loading
  therefore finds a prefix or refuses, and finds less only when it reports it.
* `Recoverable`: while all that was cut short are objects, every told event is among the copied ones
  and only a fragment may follow them, in a journal that a start closes again.
* `Causal(events)`: `loadFrom` verifies the chain and not the causes. A prefix of a causal record is
  causal (`PrefixCausal`), which is why checking the chain suffices. `Begun` is stated with the
  beginning at or before each event, so that it carries over to prefixes.

**`WorkspaceActionsProofs`** (`ActionsInv`): `ApprovalSeesTheCurrentAttempt`, `NothingLandsUnapproved`,
`WaitingRunsAreKept`, `DecidedStaysDecided`, `RestoresAreExact`.

* `CallsKnown`: a run for which a repair or an answer waits is known, one being answered has questions
  and so no shadow. It is what a call may still rely on after its await.
* `BackupsLanded`: what a record, in memory or on disk, would restore was approved or was there before.
  Without it a restore could bring back bytes that nobody approved.
* `BackupsAreReplaced`: the backups of a promoted run are what its promotion replaced, for the files it
  names once, unless the last save of the run failed and a restart went back behind it. `Greatest`,
  `WrittenOrKept` and `WrittenOnce` are the lemmas about a list of writes: a file holds what the last
  write to it left, or what it held before.

**`WorkflowRunProofs`** (`RunInv`): `RetriesAreBounded`, `CompletedIsClosed`, `EndedIsUndone`,
`CancelledStartsNothing`, `UndoingGoesBackwards`.

* `Tracked`: the step `advance()` works on is the only running one and the attempt it counts is the
  recorded one; `reconcile` leaves no step running when the loop begins.
* `Callings`: `advance()` compensates exactly while its own compensation is open, and unless calls
  overlapped, either it or an operator's compensation is in progress, never both.
* `Covered`: the queue of a compensation, taken once at its beginning, still holds every step to be
  undone, last first; also when the process dies between the undoing and the end of the run
  (`CrashBeforeFinishStep`). `Ranks` and `Queue` are the lemmas about the sorting: each step has its own
  number of steps above it, so that the sequence is descending and leaves none out.

**`UpdateManagerProofs`** (`UpdateInv`): `OnlyTheApprovedRun`, `SlotsAreTheRecorded`, `Refinement`.

* `Booked`: what memory holds can be written down at any moment as a step of `InstalledRelease`: a
  version there was, or one above every version there was; an update in progress goes above the
  highest. It is about memory because a failed save leaves memory ahead of the file, and any later save
  writes it. `EveryWrite` proves it for each of the saves, the loss of the file maps to `Forget`, and the
  refinement follows.
* `StagingKnown`: a bundle in `staging` is the recorded one, or a stray of a staging cut short; an
  approval recorded in memory or in the file was the owner's.
* `SlotsFollow`: what `current` and `previous` hold after each file operation of a call, as long as no
  call was cut short.

**`ApprovalQueueProofs`** (`AgentInv`, `MemoryInv`): `CalledOnce`, `RunningIsExecuting`,
`RejectedStaysRejected`, `OnlyThePromotedAreVisible`.

* `CallsCounted`: a waiting step has one call to come (`ToCome`), calls made and to come are at most one
  more than the `PATCH`es that put the step back, and executions under way are among the calls.
* `RejectedAtRest`: a rejected step has no execution left that could write over it, but for the cases
  the property names.
* `CandidatesAsWritten`: a record that is a candidate is the one it was written as; no step makes one.
* `DecisionsFresh`: a decision between its `SELECT` and its `UPDATE` follows the table for the candidate
  as written, and unless decisions crossed it is the only one on its record, which is still private.

**`IdentityProofs`** (`IdentityInv`): `CodesAreTakenOnce`, `NoSessionOutgrowsItsProof`,
`RecoveryEndsTheOldEra`, `GuessesStaySlow`.

* `Codes`: the recorded step covers everything accepted from the live authenticator, no code was taken
  from one that is not enrolled yet, and no authenticator is held in two places. This is why a
  replacement may set the recorded step anew.
* `Carried`, `Recovered`: attach codes belong to sessions that passed a second factor, and a remembered
  terminal never rests on a password alone and marks what it opens.
* `Lock`: how the count, the lock and its lapse go together. Before a lapse every comparison counts;
  afterwards the count stays at the limit, so that one wrong password locks again.

TLC finds each of the seven invariants true in every state of its run's instance as well.

## What is only model-checked

The liveness properties `AdvanceReturns` and `CancellationEnds` of `WorkflowRun`: fairness and ENABLED
are out of the prover's reach. The five disagreements between code and text are counterexamples, found
by TLC and not refuted by any theorem: the theorems state the cases they leave out.

## What is not modelled

Listed with reasons in `PROJECT.json`. Within the modelled parts: `simulate`, `replay`, the
reproduction run, the novelty budget and the reasoning layer of workspace actions (their results
are free choices); definitions, idempotency keys and replays of workflows; a store transaction of
a workflow that fails (it ends the call as a crash of that call would); the copying of the
workspace into a shadow; the effects of tools outside the run record, also of timed-out ones; the
migration of an update, which the server does not pass; agents, tools and their consent; further
accounts, invitations, OIDC, the limiter and the elevation of a session.

The larger part of the repository is outside for good: the user interfaces with their catalogues of
texts, the end-to-end tooling, input/output, cryptography, SQL and the text that models return are
data or presentation, with little state of their own for a small instance to say something about.

## Plan

1. Abstract specifications of further components, with the refinement proved from the invariants above:
   the ledger as a sequence that only grows but for reported losses, a run's decision as a register
   written once, a grant as a counter that only falls.
2. Models: adapter grants over `Capability`; the window of nonces of the authority protocol; further
   accounts in `Identity`; definitions and idempotency keys of workflows; the audit ledger.
