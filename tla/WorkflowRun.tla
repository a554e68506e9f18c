---------------------------- MODULE WorkflowRun ----------------------------
(***************************************************************************)
(* workflow-service.mjs: one run of a workflow.  advance() drives the run  *)
(* step by step, with retries, until it finishes, waits at a gate or       *)
(* fails; cancelRun() and decideApproval() may be called at any time.      *)
(* Whichever of them ends the run first undoes the completed steps.        *)
(*                                                                         *)
(* Every transaction is one step here.  What is awaited between two of     *)
(* them - a step, a retry delay, a compensation - leaves room for any      *)
(* other call.  The run is on disk; the calls in progress are not.         *)
(***************************************************************************)
EXTENDS Naturals, Sequences, FiniteSets

CONSTANTS
    N,            \* number of steps
    Gated,        \* steps that require approval
    Compensable,  \* steps that define a compensation
    maxAttempts,  \* retry.maxAttempts of each step
    Operators,    \* concurrent cancelRun and decideApproval requests
    Advance,      \* the caller advance() is when it compensates
    MaxCrashes

Steps == 1..N

Callers == Operators \cup {Advance}

ASSUME WorkflowConstants ==
    /\ N \in Nat /\ Gated \subseteq Steps /\ Compensable \subseteq Steps
    /\ maxAttempts \in [Steps -> Nat \ {0}]
    /\ Advance \notin Operators /\ MaxCrashes \in Nat

RUN_TERMINAL == {"completed", "failed", "cancelled", "rejected", "compensation_failed"}

RunStatus == RUN_TERMINAL \cup {"pending", "running", "awaiting_approval",
                                "cancelling", "rejecting"}

StepStatus == {"pending", "awaiting_approval", "running", "completed", "failed",
               "rejected", "cancelled", "interrupted"}

VARIABLES
    run,      \* status and cancellationRequested
    step,     \* of each step: status, attempts, approval decision, compensation
    adv,      \* the advance() in progress: where it is, its step, its attempt
    comp,     \* the #compensate() of each caller: steps to undo, failure, final status
    crashes,
    overlap   \* history: an operator's compensation and an advance() ran at once

vars == <<run, step, adv, comp, crashes, overlap>>

Terminal == run.status \in RUN_TERMINAL

Idle == [at |-> "idle", step |-> 0, attempt |-> 0]

NotCompensating == [active |-> FALSE, queue |-> <<>>, failed |-> FALSE, terminal |-> "failed"]

\* this.advancing
Advancing == adv.at # "idle"

\* advance() has just begun and does not yield before its first turn is over.
Entered == adv.at = "entered"

FirstOf(statuses) ==
    {s \in Steps : step[s].status \in statuses
                   /\ \A t \in 1..(s - 1) : step[t].status \notin statuses}

NextStep == FirstOf({"pending", "awaiting_approval"})

----------------------------------------------------------------------------
(* #compensate and #finishRun                                              *)

\* The completed steps that are still to be undone.
Due(steps) == {s \in Steps : steps[s].status = "completed" /\ steps[s].compensation = "pending"}

\* Undoing from the first step to the last.
toCompensateForwards(steps) ==
    [i \in 1..Cardinality(Due(steps)) |->
        CHOOSE s \in Due(steps) : Cardinality({t \in Due(steps) : t < s}) = i - 1]

\* Undoing only the step that completed last.
toCompensateLast(steps) ==
    IF Due(steps) = {} THEN <<>>
    ELSE <<CHOOSE s \in Due(steps) : \A t \in Due(steps) : t <= s>>

\* The zero-based index of a step taken for the step.
toCompensateByIndex(steps) ==
    [i \in 1..Cardinality(Due(steps)) |->
        (CHOOSE s \in Due(steps) : Cardinality({t \in Due(steps) : t > s}) = i - 1) - 1]

\* Last first, as they are when the compensation begins.
toCompensate(steps) ==
    [i \in 1..Cardinality(Due(steps)) |->
        CHOOSE s \in Due(steps) : Cardinality({t \in Due(steps) : t > s}) = i - 1]

\* With nothing left to undo the run ends in the same turn.
CompensateOrFinish(c, steps, queue, failed, terminal) ==
    /\ step' = steps
    /\ IF queue = <<>>
       THEN /\ run' = [run EXCEPT !.status =
                         IF failed THEN "compensation_failed" ELSE terminal]
            /\ comp' = [comp EXCEPT ![c] = NotCompensating]
            /\ IF c = Advance THEN adv' = Idle ELSE UNCHANGED adv
       ELSE /\ comp' = [comp EXCEPT ![c] = [active |-> TRUE, queue |-> queue,
                                            failed |-> failed, terminal |-> terminal]]
            /\ IF c = Advance THEN adv' = [adv EXCEPT !.at = "compensating"]
               ELSE UNCHANGED adv
            /\ UNCHANGED run

\* advance() turns to undoing, over the steps as they now are.
AdvanceCompensates(steps, terminal) ==
    CompensateOrFinish(Advance, steps, toCompensate(steps), FALSE, terminal)

Undone(c, ok) ==
    [step EXCEPT ![Head(comp[c].queue)].compensation = IF ok THEN "compensated" ELSE "failed"]

\* One compensation of caller c ends; a failure is recorded and the rest go on.
compensated(c, ok) ==
    /\ comp[c].active /\ ~Entered
    /\ CompensateOrFinish(c, Undone(c, ok), Tail(comp[c].queue), comp[c].failed \/ ~ok,
                          comp[c].terminal)
    /\ UNCHANGED <<crashes, overlap>>

----------------------------------------------------------------------------
(* advance()                                                               *)

\* No reconciliation: steps a dead process was running stay "running".
NotReconciled == step

\* An interrupted step is put back and tried again.
RetryInterrupted ==
    [s \in Steps |-> IF step[s].status = "running"
                     THEN [step[s] EXCEPT !.status = "pending"] ELSE step[s]]

\* #reconcileInterrupted
Reconciled ==
    [s \in Steps |-> IF step[s].status = "running"
                     THEN [step[s] EXCEPT !.status = "interrupted"] ELSE step[s]]

advance ==
    /\ ~Advancing
    /\ step' = Reconciled
    /\ adv' = [Idle EXCEPT !.at = "entered"]
    /\ overlap' = (overlap \/ \E c \in Operators : comp[c].active)
    /\ UNCHANGED <<run, comp, crashes>>

InLoop == adv.at \in {"entered", "loop"} /\ UNCHANGED <<crashes, overlap>>

\* Returning without giving the guard back.
StopKeepingGuard ==
    /\ InLoop /\ Terminal
    /\ UNCHANGED <<run, step, adv, comp>>

stopTerminal ==
    /\ InLoop /\ Terminal
    /\ adv' = Idle
    /\ UNCHANGED <<run, step, comp>>

\* Returning as soon as a cancellation is seen.
ReturnIfCancelled ==
    /\ InLoop /\ ~Terminal /\ run.cancellationRequested
    /\ adv' = Idle
    /\ UNCHANGED <<run, step, comp>>

stopCancelled ==
    /\ InLoop /\ ~Terminal /\ run.cancellationRequested
    /\ AdvanceCompensates(step, "cancelled")

stopInterrupted ==
    /\ InLoop /\ ~Terminal /\ ~run.cancellationRequested
    /\ FirstOf({"interrupted"}) # {}
    /\ AdvanceCompensates(step, "failed")

Proceeds == ~Terminal /\ ~run.cancellationRequested /\ FirstOf({"interrupted"}) = {}

complete ==
    /\ InLoop /\ Proceeds /\ NextStep = {}
    /\ run' = [run EXCEPT !.status = "completed"]
    /\ adv' = Idle
    /\ UNCHANGED <<step, comp>>

Blocked(s) == s \in Gated /\ step[s].decision # "approve"

\* The gate: the run is suspended and the approval queue shows it.
awaitApproval(s) ==
    /\ InLoop /\ Proceeds /\ s \in NextStep /\ Blocked(s)
    /\ adv' = Idle
    /\ IF step[s].status = "awaiting_approval" THEN UNCHANGED <<run, step>>
       ELSE /\ step' = [step EXCEPT ![s].status = "awaiting_approval"]
            /\ run' = [run EXCEPT !.status = "awaiting_approval"]
    /\ UNCHANGED comp

\* The attempt is recorded when it starts.
StartAttempt(s, attempt) ==
    /\ step' = [step EXCEPT ![s].status = "running", ![s].attempts = @ + 1]
    /\ run' = [run EXCEPT !.status = "running"]
    /\ adv' = [at |-> "executing", step |-> s, attempt |-> attempt]
    /\ UNCHANGED comp

startStep(s) ==
    /\ InLoop /\ Proceeds /\ s \in NextStep /\ ~Blocked(s)
    /\ StartAttempt(s, 1)

Executing == adv.at = "executing" /\ UNCHANGED <<crashes, overlap>>

stepCompleted ==
    /\ Executing
    /\ step' = [step EXCEPT ![adv.step].status = "completed",
                            ![adv.step].compensation =
                               IF adv.step \in Compensable THEN "pending" ELSE @]
    /\ adv' = [Idle EXCEPT !.at = "loop"]
    /\ UNCHANGED <<run, comp>>

\* It failed or ran into its timeout, with attempts left: a delay follows.
attemptFailed ==
    /\ Executing
    /\ adv.attempt < maxAttempts[adv.step]
    /\ adv' = [adv EXCEPT !.at = "backoff"]
    /\ UNCHANGED <<run, step, comp>>

Failed == [step EXCEPT ![adv.step].status = "failed"]

stepFailed ==
    /\ Executing
    /\ adv.attempt = maxAttempts[adv.step]
    /\ AdvanceCompensates(Failed, "failed")

\* Retrying whatever was asked for in the meantime.
HonoursNothing == FALSE

RetryCancelled == run.cancellationRequested

retry ==
    /\ adv.at = "backoff" /\ UNCHANGED <<crashes, overlap>>
    /\ IF RetryCancelled THEN AdvanceCompensates(step, "failed")
       ELSE StartAttempt(adv.step, adv.attempt + 1)

----------------------------------------------------------------------------
(* cancelRun(), decideApproval() and crashes                               *)

Cancelled ==
    [s \in Steps |-> IF step[s].status \in {"pending", "awaiting_approval"}
                     THEN [step[s] EXCEPT !.status = "cancelled"] ELSE step[s]]

cancelRun(o) ==
    /\ ~comp[o].active /\ ~Entered
    /\ ~Terminal
    /\ LET queue == toCompensate(Cancelled)
       IN  /\ step' = Cancelled
           /\ run' = [status |-> IF queue = <<>> THEN "cancelled" ELSE "cancelling",
                      cancellationRequested |-> TRUE]
           /\ comp' = IF queue = <<>> THEN comp
                      ELSE [comp EXCEPT ![o] = [active |-> TRUE, queue |-> queue,
                                                failed |-> FALSE, terminal |-> "cancelled"]]
    /\ overlap' = (overlap \/ Advancing)
    /\ UNCHANGED <<adv, crashes>>

\* The decision is kept even when the advance() that follows is refused (409).
approve(s) ==
    /\ step[s].status = "awaiting_approval" /\ ~Entered
    /\ LET decided == [step EXCEPT ![s].status = "pending", ![s].decision = "approve"]
       IN  IF Advancing
           THEN step' = decided /\ UNCHANGED <<adv, overlap>>
           ELSE /\ step' = [t \in Steps |-> IF t = s THEN decided[s] ELSE Reconciled[t]]
                /\ adv' = [Idle EXCEPT !.at = "entered"]
                /\ overlap' = (overlap \/ \E c \in Operators : comp[c].active)
    /\ UNCHANGED <<run, comp, crashes>>

Rejected(s) == [step EXCEPT ![s].status = "rejected", ![s].decision = "reject"]

reject(s, o) ==
    /\ step[s].status = "awaiting_approval"
    /\ ~comp[o].active /\ ~Entered
    /\ LET queue == toCompensate(Rejected(s))
       IN  /\ step' = Rejected(s)
           /\ run' = [run EXCEPT !.status = IF queue = <<>> THEN "rejected" ELSE "rejecting"]
           /\ comp' = IF queue = <<>> THEN comp
                      ELSE [comp EXCEPT ![o] = [active |-> TRUE, queue |-> queue,
                                                failed |-> FALSE, terminal |-> "rejected"]]
    /\ overlap' = (overlap \/ Advancing)
    /\ UNCHANGED <<adv, crashes>>

\* The process dies: the record stays, the calls are gone.
Dies ==
    /\ crashes < MaxCrashes
    /\ crashes' = crashes + 1
    /\ adv' = Idle
    /\ comp' = [c \in Callers |-> NotCompensating]
    /\ UNCHANGED overlap

crash == Dies /\ UNCHANGED <<run, step>>

\* It dies after a call's own transaction and before #finishRun's, which follows in
\* the same turn when nothing is left to undo.
crashBeforeFinish ==
    /\ Dies /\ ~Entered
    /\ \/ /\ adv.at = "executing" /\ adv.attempt = maxAttempts[adv.step]
          /\ step' = Failed /\ UNCHANGED run
       \/ /\ \E c \in Callers, ok \in BOOLEAN : comp[c].active /\ step' = Undone(c, ok)
          /\ UNCHANGED run
       \/ /\ ~Terminal
          /\ step' = Cancelled
          /\ run' = [status |-> "cancelling", cancellationRequested |-> TRUE]
       \/ /\ \E s \in Steps : step[s].status = "awaiting_approval" /\ step' = Rejected(s)
          /\ run' = [run EXCEPT !.status = "rejecting"]

\* #newRun
Init ==
    /\ run = [status |-> "pending", cancellationRequested |-> FALSE]
    /\ step = [s \in Steps |-> [status |-> "pending", attempts |-> 0, decision |-> "none",
                                compensation |-> "not_required"]]
    /\ adv = Idle
    /\ comp = [c \in Callers |-> NotCompensating]
    /\ crashes = 0 /\ overlap = FALSE

AdvanceTurn ==
    \/ stopTerminal \/ stopCancelled \/ stopInterrupted \/ complete
    \/ \E s \in Steps : awaitApproval(s) \/ startStep(s)
    \/ stepCompleted \/ attemptFailed \/ stepFailed
    \/ retry

CompensationTurn(c) == \E ok \in BOOLEAN : compensated(c, ok)

Next ==
    \/ advance
    \/ AdvanceTurn
    \/ \E c \in Callers : CompensationTurn(c)
    \/ \E o \in Operators : cancelRun(o)
    \/ \E s \in Steps : approve(s)
    \/ \E s \in Steps, o \in Operators : reject(s, o)
    \/ crash \/ crashBeforeFinish

\* Steps and compensations are awaited with a timeout and delays are timers, so
\* a call in progress goes on; that anyone calls is not assumed.
Fairness == WF_vars(AdvanceTurn) /\ \A c \in Callers : WF_vars(CompensationTurn(c))

Spec == Init /\ [][Next]_vars /\ Fairness

----------------------------------------------------------------------------
(* Properties.                                                             *)

TypeOK ==
    /\ run \in [status : RunStatus, cancellationRequested : BOOLEAN]
    /\ step \in [Steps -> [status : StepStatus, attempts : Nat,
                           decision : {"none", "approve", "reject"},
                           compensation : {"not_required", "pending", "compensated", "failed"}]]
    /\ adv \in [at : {"idle", "entered", "loop", "executing", "backoff", "compensating"},
                step : 0..N, attempt : Nat]
    /\ comp \in [Callers -> [active : BOOLEAN, queue : Seq(Steps), failed : BOOLEAN,
                             terminal : RUN_TERMINAL]]
    /\ crashes \in 0..MaxCrashes /\ overlap \in BOOLEAN

\* Over all advances, cancellations, decisions and crashes of a run, a step is
\* started at most retry.maxAttempts times, and a gated one only after it was
\* approved: nothing interrupted is tried again (advance, #reconcileInterrupted).
AttemptsBounded ==
    \A s \in Steps :
        /\ step[s].attempts <= maxAttempts[s]
        /\ step[s].attempts > 0 /\ s \in Gated => step[s].decision = "approve"

\* A run that says completed has no step that is still open or was abandoned by
\* a process that died ("a run that reported success while one of its steps
\* never finished", advance).
CompletedLeavesNothingOpen ==
    run.status = "completed" => \A s \in Steps :
        step[s].status \notin {"pending", "awaiting_approval", "running", "interrupted"}

\* Once cancellation is requested no attempt of any step is started, in the
\* loop or between retries ("honoured instead of retrying into work the
\* operator has already asked to stop").
NoWorkAfterCancel ==
    [][run.cancellationRequested =>
         \A s \in Steps : step'[s].attempts = step[s].attempts]_vars

\* A run that ended any way but completed has undone every completed step that
\* can be undone, or recorded that this failed - unless an operator's
\* compensation overlapped an advance() (#compensate).
EndedRunsAreUndone ==
    Terminal /\ run.status # "completed" /\ ~overlap =>
        \A s \in Steps : step[s].compensation # "pending"

\* "Undoes completed work in reverse order": when a step is undone, no later one
\* is still to be - unless calls overlapped.
UndoneInReverse ==
    [][~overlap => \A s, t \in Steps :
         s < t /\ step[s].compensation = "pending" /\ step'[s].compensation # "pending"
         => step[t].compensation # "pending"]_vars

\* advance() always comes to an end: every await of it has a timeout or is a
\* timer, attempts are bounded, and no step is taken up twice.
AdvanceReturns == Advancing ~> ~Advancing

\* A requested cancellation that some call is working on brings the run to an
\* end, unless the process dies first; nothing resumes by itself after that
\* (cancelRun, advance).
CancellationEnds ==
    \A n \in 0..MaxCrashes :
        (/\ run.cancellationRequested /\ crashes = n
         /\ Advancing \/ \E c \in Callers : comp[c].active)
        ~> (Terminal \/ crashes # n)

\* "a run that reported success while one of its steps never finished" must not
\* exist: stated of every step, rejected and failed ones too.
CompletedMeansEveryStepDone ==
    run.status = "completed" => \A s \in Steps : step[s].status = "completed"
============================================================================
