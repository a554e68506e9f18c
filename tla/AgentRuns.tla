----------------------------- MODULE AgentRuns -----------------------------
(***************************************************************************)
(* agent-service.mjs: the steps of one agent run are approved, executed    *)
(* and updated.  Every change goes through the store's transact, which is  *)
(* one atomic write to disk.  executeStep reads, checks and marks the step *)
(* `running` without yielding, then waits for the tool or the model; any   *)
(* other request may come before it writes the outcome over the step.      *)
(***************************************************************************)
EXTENDS Naturals

CONSTANTS
    Steps,           \* the steps of the run
    MutativeSteps,   \* steps that say they change something
    MutativeTools,   \* steps whose tool changes something
    Reasoning,       \* steps with no tool: the model answers them
    MaxPatches, MaxRestarts   \* bounds

ASSUME AgentConstants ==
    /\ MutativeSteps \subseteq Steps /\ MutativeTools \subseteq Steps \ Reasoning
    /\ Reasoning \subseteq Steps
    /\ MaxPatches \in Nat /\ MaxRestarts \in Nat

Mutative == (MutativeSteps \ Reasoning) \cup MutativeTools

\* "other" stands for every status but the service's own five: updateStep stores
\* whatever a PATCH sends.
Statuses == {"awaiting_approval", "pending", "running", "completed", "failed", "other"}

\* A step that has an execution to come.
Waiting == {"awaiting_approval", "pending"}

VARIABLES
    runStatus,       \* run.status, "none" before createRun
    status,          \* step.status
    approvedAt,      \* steps with an approvedAt
    executing,       \* executeStep calls waiting for an outcome, by step
    calls,           \* history: how often the step's tool, or the model, was called
    reopened,        \* history: how many PATCHes put the step back among those waiting
    patched,         \* history: steps whose status was set by the PATCH route
    rejected,        \* history: steps rejected through the queue
    overtaken,       \* history: steps rejected while an execution was under way
    abandoned,       \* history: steps an execution of which left no outcome
    patches, restarts

agentVars == <<runStatus, status, approvedAt, executing, calls, reopened, patched, rejected,
               overtaken, abandoned, patches, restarts>>

AgentInit ==
    /\ runStatus = "none"
    /\ status = [s \in Steps |-> "pending"]
    /\ executing = [s \in Steps |-> 0]
    /\ calls = [s \in Steps |-> 0] /\ reopened = [s \in Steps |-> 0]
    /\ approvedAt = {} /\ patched = {} /\ rejected = {}
    /\ overtaken = {} /\ abandoned = {}
    /\ patches = 0 /\ restarts = 0

\* allSteps: the agent's approvalPolicy is 'all' rather than 'mutations-only'.
createRun(allSteps) ==
    /\ runStatus = "none"
    /\ runStatus' = "planned"
    /\ status' = [s \in Steps |-> IF allSteps \/ s \in MutativeSteps
                                  THEN "awaiting_approval" ELSE "pending"]
    /\ UNCHANGED <<approvedAt, executing, calls, reopened, patched, rejected, overtaken,
                   abandoned, patches, restarts>>

\* A step that was decided already can be approved again.
ApproveAnyStep(s) ==
    /\ status[s] \in {"awaiting_approval", "failed"}
    /\ status' = [status EXCEPT ![s] = "pending"]
    /\ approvedAt' = approvedAt \cup {s}
    /\ UNCHANGED <<runStatus, executing, calls, reopened, patched, rejected, overtaken,
                   abandoned, patches, restarts>>

approveStep(s) ==
    /\ status[s] = "awaiting_approval"
    /\ status' = [status EXCEPT ![s] = "pending"]
    /\ approvedAt' = approvedAt \cup {s}
    /\ UNCHANGED <<runStatus, executing, calls, reopened, patched, rejected, overtaken,
                   abandoned, patches, restarts>>

\* No status is refused here; the run's own is derived again from its steps.
updateStep(s, new) ==
    /\ status' = [status EXCEPT ![s] = new]
    /\ runStatus' = IF \A t \in Steps : status'[t] = "completed" THEN "completed"
                    ELSE IF \E t \in Steps : status'[t] = "failed" THEN "failed"
                    ELSE "running"

\* PATCH /agent-runs/:run/steps/:step passes its body to updateStep.
patchStep(s, new) ==
    /\ runStatus # "none" /\ patches < MaxPatches
    /\ patches' = patches + 1
    /\ patched' = patched \cup {s}
    /\ reopened' = IF new \in Waiting THEN [reopened EXCEPT ![s] = @ + 1] ELSE reopened
    /\ updateStep(s, new)
    /\ UNCHANGED <<approvedAt, executing, calls, rejected, overtaken, abandoned, restarts>>

\* The step is marked only once the tool has answered.
ExecuteUnmarked(s) ==
    /\ runStatus # "none" /\ status[s] = "pending"
    /\ executing[s] < 2
    /\ s \in Mutative => s \in approvedAt
    /\ executing' = [executing EXCEPT ![s] = @ + 1]
    /\ calls' = [calls EXCEPT ![s] = @ + 1]
    /\ UNCHANGED <<runStatus, status, approvedAt, reopened, patched, rejected, overtaken,
                   abandoned, patches, restarts>>

executeStep(s) ==
    /\ runStatus # "none" /\ status[s] = "pending"
    /\ s \in Mutative => s \in approvedAt
    /\ updateStep(s, "running")
    /\ executing' = [executing EXCEPT ![s] = @ + 1]
    /\ calls' = [calls EXCEPT ![s] = @ + 1]
    /\ UNCHANGED <<approvedAt, reopened, patched, rejected, overtaken, abandoned, patches,
                   restarts>>

\* #reason finds no enabled provider.
reasonWithoutProvider(s) ==
    /\ runStatus # "none" /\ s \in Reasoning /\ status[s] = "pending"
    /\ updateStep(s, "failed")
    /\ UNCHANGED <<approvedAt, executing, calls, reopened, patched, rejected, overtaken,
                   abandoned, patches, restarts>>

\* The tool or the model answers, throws or times out.
executionEnds(s, outcome) ==
    /\ executing[s] > 0
    /\ executing' = [executing EXCEPT ![s] = @ - 1]
    /\ updateStep(s, outcome)
    /\ UNCHANGED <<approvedAt, calls, reopened, patched, rejected, overtaken, abandoned,
                   patches, restarts>>

\* Neither the outcome nor the failure to write it could be written: transact threw in
\* both updates, and the step goes on saying what it said.
outcomeLost(s) ==
    /\ executing[s] > 0
    /\ executing' = [executing EXCEPT ![s] = @ - 1]
    /\ abandoned' = abandoned \cup {s}
    /\ UNCHANGED <<runStatus, status, approvedAt, calls, reopened, patched, rejected,
                   overtaken, patches, restarts>>

AgentRestart ==
    /\ restarts < MaxRestarts
    /\ restarts' = restarts + 1
    /\ abandoned' = abandoned \cup {s \in Steps : executing[s] > 0}
    /\ executing' = [s \in Steps |-> 0]
    /\ UNCHANGED <<runStatus, status, approvedAt, calls, reopened, patched, rejected,
                   overtaken, patches>>

AgentNext ==
    \/ \E allSteps \in BOOLEAN : createRun(allSteps)
    \/ \E s \in Steps :
        \/ approveStep(s)
        \/ executeStep(s)
        \/ reasonWithoutProvider(s)
        \/ outcomeLost(s)
        \/ \E new \in Statuses : patchStep(s, new)
        \/ \E outcome \in {"completed", "failed"} : executionEnds(s, outcome)
=============================================================================
