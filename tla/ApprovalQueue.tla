--------------------------- MODULE ApprovalQueue ---------------------------
(***************************************************************************)
(* approval-queue.mjs: decisions on agent steps and memory candidates are  *)
(* routed to the service that owns them.  The queue holds nothing, and a   *)
(* decision names its item by id alone: it may come from a list read long  *)
(* before.  Workflow gates are WorkflowRun's decideApproval.  A staged     *)
(* update cannot be decided here: approve() wants a typed confirmation the *)
(* queue does not pass, and a rejection is refused.                        *)
(***************************************************************************)
EXTENDS AgentRuns, MemoryCandidates

vars == <<agentVars, memoryVars>>

Init == AgentInit /\ MemoryInit

\* The agent service has no reject: the step is updated to failed, whatever it was.
rejectStep(s) ==
    /\ runStatus # "none"
    /\ updateStep(s, "failed")
    /\ rejected' = rejected \cup {s}
    /\ overtaken' = IF executing[s] > 0 THEN overtaken \cup {s} ELSE overtaken
    /\ UNCHANGED <<approvedAt, executing, calls, reopened, patched, abandoned, patches,
                   restarts>>

\* decide(); approving an agent step is AgentRuns' approveStep.
decide ==
    \/ /\ \E s \in Steps : rejectStep(s)
       /\ UNCHANGED memoryVars
    \/ /\ \E o \in Deciders, m \in Records, decision \in {"approve", "reject"} :
            promoteSelect(o, m, decision)
       /\ UNCHANGED agentVars

Restart == AgentRestart /\ MemoryRestart

Next ==
    \/ AgentNext /\ UNCHANGED memoryVars
    \/ MemoryNext /\ UNCHANGED agentVars
    \/ decide
    \/ Restart

Spec == Init /\ [][Next]_vars

----------------------------------------------------------------------------
(* Properties                                                              *)

TypeOK ==
    /\ runStatus \in {"none", "planned", "running", "completed", "failed"}
    /\ status \in [Steps -> Statuses]
    /\ executing \in [Steps -> 0..(MaxPatches + 1)]
    /\ \A n \in {calls, reopened} : n \in [Steps -> Nat]
    /\ \A h \in {approvedAt, patched, rejected, overtaken, abandoned} : h \subseteq Steps
    /\ record \in [Records -> [promotionState : PromotionStates,
                               visibility : Visibilities]]

\* A step's tool is called once for the waiting step the run was created with, and once
\* more for every PATCH that put the step back: two requests to execute it at once, an
\* approval of a step already decided, an execution that failed, was rejected or died
\* with the process never call it again.
CalledOncePerReadiness == \A s \in Steps : calls[s] <= 1 + reopened[s]

\* executeStep's outcome is the step's: a step says `running` exactly while one
\* execution of it is under way, unless a PATCH, a rejection during the execution,
\* the death of the process or the loss of the outcome came between them.
RunningMeansExecuting ==
    \A s \in Steps \ (patched \cup overtaken \cup abandoned) :
        executing[s] = IF status[s] = "running" THEN 1 ELSE 0

\* A step rejected through the queue stays failed, and so does its run; only an
\* execution that was under way when it was rejected, or a PATCH, writes over it.
RejectionsStand ==
    \A s \in rejected \ (patched \cup overtaken) :
        status[s] = "failed" /\ runStatus = "failed"

\* A record is seen beyond its writer only when it was written as a candidate, and then
\* as far as that candidate's approval goes and no further.  It is as it was written, and
\* private, or was decided once, unless two decisions on it were open at once: then the
\* later UPDATE wins over a decision already made, and a revoked record may stay visible.
VisibleMeansPromoted ==
    \A m \in Records :
        LET approved == Transition("approve", written[m])
            now == record[m]
        IN  /\ now.visibility # "private" =>
                written[m] \in Candidate /\ now.visibility = approved.visibility
            /\ m \in crossed \/ now = [promotionState |-> written[m], visibility |-> "private"]
               \/ /\ written[m] \in Candidate
                  /\ now \in {[promotionState |-> approved.next, visibility |-> approved.visibility],
                             [promotionState |-> "revoked", visibility |-> "private"]}
=============================================================================
