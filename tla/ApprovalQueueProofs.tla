------------------------ MODULE ApprovalQueueProofs ------------------------
(***************************************************************************)
(* Safety of agent runs, memory candidates and the approval queue, for     *)
(* every set of steps, records and people, and every number of patches and *)
(* restarts.                                                               *)
(*                                                                         *)
(* The inductive invariant adds that a waiting step has one call to come,  *)
(* which only a PATCH gives back once it is spent, and that every          *)
(* execution under way is one of the calls made (CallsCounted); that a     *)
(* rejected step has no execution left to write over it (RejectedAtRest);  *)
(* and that a decision between its SELECT and its UPDATE is about the      *)
(* candidate its record was written as, and, when it is the only one open  *)
(* on it, about a record still private (DecisionsFresh).                   *)
(***************************************************************************)
EXTENDS ApprovalQueue, TLAPS

Decision == [record : Records,
             to : [next : {"revoked", "project", "global"},
                   visibility : {"project", "workspace", Nobody}]]

ToCome(s) == IF status[s] \in Waiting THEN 1 ELSE 0

AgentTyped ==
    /\ runStatus \in {"none", "planned", "running", "completed", "failed"}
    /\ status \in [Steps -> Statuses]
    /\ executing \in [Steps -> Nat]
    /\ calls \in [Steps -> Nat] /\ reopened \in [Steps -> Nat]
    /\ \A h \in {approvedAt, patched, rejected, overtaken, abandoned} : h \subseteq Steps
    /\ patches \in 0..MaxPatches /\ restarts \in 0..MaxRestarts

CallsCounted ==
    /\ \A s \in Steps : /\ calls[s] + ToCome(s) <= 1 + reopened[s]
                        /\ executing[s] <= calls[s] /\ reopened[s] <= patches
    /\ runStatus = "none" =>
        rejected = {} /\ \A s \in Steps : executing[s] = 0 /\ calls[s] = 0 /\ status[s] = "pending"

RejectedAtRest == \A s \in rejected \ (patched \cup overtaken) : executing[s] = 0

AgentInv ==
    /\ AgentTyped /\ CallsCounted /\ RejectedAtRest
    /\ RunningMeansExecuting /\ RejectionsStand

MemoryTyped ==
    /\ record \in [Records -> [promotionState : PromotionStates, visibility : Visibilities]]
    /\ written \in [Records -> PromotionStates]
    /\ deciding \in [Deciders -> Decision \cup {Nobody}]
    /\ crossed \subseteq Records

\* A record says it is a candidate only as the one it was written as.
CandidatesAsWritten ==
    \A m \in Records :
        /\ record[m].promotionState \in Candidate => record[m].promotionState = written[m]
        /\ record[m].promotionState = "absent" => written[m] = "absent"

DecisionsFresh ==
    \A o \in Deciders : deciding[o] # Nobody =>
        LET m == deciding[o].record
        IN  /\ written[m] \in Candidate
            /\ \E decision \in {"approve", "reject"} :
                 deciding[o].to = Transition(decision, written[m])
            /\ m \notin crossed =>
                 /\ record[m] = [promotionState |-> written[m], visibility |-> "private"]
                 /\ \A p \in Deciders :
                      deciding[p] # Nobody /\ deciding[p].record = m => p = o

MemoryInv == MemoryTyped /\ CandidatesAsWritten /\ DecisionsFresh /\ VisibleMeansPromoted

----------------------------------------------------------------------------
(* Agent runs                                                              *)

\* updateStep: one step's status, and the run's own derived from all of them.
LEMMA UpdateEffect ==
    ASSUME AgentTyped, NEW s \in Steps, NEW new \in Statuses, updateStep(s, new)
    PROVE  /\ status' \in [Steps -> Statuses]
           /\ runStatus' \in {"running", "completed", "failed"}
           /\ \A t \in Steps : status'[t] = IF t = s THEN new ELSE status[t]
           /\ (\E t \in Steps : status'[t] = "failed") => runStatus' = "failed"
<1>1. /\ status' \in [Steps -> Statuses]
      /\ \A t \in Steps : status'[t] = IF t = s THEN new ELSE status[t]
  BY DEF updateStep, AgentTyped
<1> QED
  BY <1>1 DEF updateStep

\* createRun: steps wait for approval or are ready; nothing has run yet.
LEMMA CreateStep ==
    ASSUME AgentInv, NEW allSteps \in BOOLEAN, createRun(allSteps)
    PROVE  AgentInv'
<1>1. status' \in [Steps -> Statuses]
  BY DEF createRun, Statuses
<1>2. \A s \in Steps : status'[s] \in {"awaiting_approval", "pending"}
  BY DEF createRun
<1>3. AgentTyped'
  BY <1>1 DEF AgentInv, AgentTyped, createRun
<1>4. CallsCounted' /\ RejectedAtRest' /\ RejectionsStand'
  BY <1>2 DEF AgentInv, AgentTyped, CallsCounted, RejectedAtRest, RejectionsStand, ToCome, Waiting,
     createRun
<1>5. RunningMeansExecuting'
  BY <1>2 DEF AgentInv, CallsCounted, RunningMeansExecuting, createRun
<1> QED
  BY <1>3, <1>4, <1>5 DEF AgentInv

\* approveStep: a waiting step becomes ready; it is nobody's rejected one.
LEMMA ApproveStep ==
    ASSUME AgentInv, NEW s \in Steps, approveStep(s)
    PROVE  AgentInv'
<1> USE DEF AgentInv
<1>1. /\ status' \in [Steps -> Statuses]
      /\ \A t \in Steps : status'[t] = IF t = s THEN "pending" ELSE status[t]
  BY DEF approveStep, AgentTyped, Statuses
<1>2. AgentTyped'
  BY <1>1 DEF AgentTyped, approveStep
<1>3. CallsCounted'
  BY <1>1 DEF CallsCounted, ToCome, Waiting, approveStep
<1>4. RejectedAtRest' /\ RejectionsStand'
  BY <1>1 DEF RejectedAtRest, RejectionsStand, AgentTyped, approveStep
<1>5. RunningMeansExecuting'
  BY <1>1 DEF RunningMeansExecuting, approveStep
<1> QED
  BY <1>2, <1>3, <1>4, <1>5

\* executeStep: a ready step is marked `running` in the moment its tool is called.
LEMMA ExecuteStep ==
    ASSUME AgentInv, NEW s \in Steps, executeStep(s)
    PROVE  AgentInv'
<1> USE DEF AgentInv
<1>0. updateStep(s, "running") /\ "running" \in Statuses
  BY DEF executeStep, Statuses
<1>1. /\ status' \in [Steps -> Statuses] /\ runStatus' \in {"running", "completed", "failed"}
      /\ \A t \in Steps : status'[t] = IF t = s THEN "running" ELSE status[t]
      /\ (\E t \in Steps : status'[t] = "failed") => runStatus' = "failed"
  BY <1>0, UpdateEffect
<1>2. /\ status[s] = "pending" /\ (s \in Mutative => s \in approvedAt)
      /\ \A t \in Steps : executing'[t] = IF t = s THEN executing[s] + 1 ELSE executing[t]
      /\ executing' \in [Steps -> Nat]
      /\ \A t \in Steps : calls'[t] = IF t = s THEN calls[s] + 1 ELSE calls[t]
      /\ calls' \in [Steps -> Nat]
      /\ UNCHANGED <<approvedAt, reopened, patched, rejected, overtaken, abandoned, patches, restarts>>
  BY DEF executeStep, AgentTyped
<1>3. AgentTyped'
  BY <1>1, <1>2 DEF AgentTyped
<1>4. CallsCounted'
  BY <1>1, <1>2 DEF CallsCounted, AgentTyped, ToCome, Waiting
<1>5. RejectedAtRest' /\ RejectionsStand'
  BY <1>1, <1>2 DEF RejectedAtRest, RejectionsStand, AgentTyped
<1>6. RunningMeansExecuting'
  BY <1>1, <1>2 DEF RunningMeansExecuting, AgentTyped
<1> QED
  BY <1>3, <1>4, <1>5, <1>6

\* A reasoning step with no provider fails at once.
LEMMA ReasonStep ==
    ASSUME AgentInv, NEW s \in Steps, reasonWithoutProvider(s)
    PROVE  AgentInv'
<1> USE DEF AgentInv
<1>0. updateStep(s, "failed") /\ "failed" \in Statuses
  BY DEF reasonWithoutProvider, Statuses
<1>1. /\ status' \in [Steps -> Statuses] /\ runStatus' \in {"running", "completed", "failed"}
      /\ \A t \in Steps : status'[t] = IF t = s THEN "failed" ELSE status[t]
      /\ (\E t \in Steps : status'[t] = "failed") => runStatus' = "failed"
  BY <1>0, UpdateEffect
<1>2. /\ status[s] = "pending"
      /\ UNCHANGED <<approvedAt, executing, calls, reopened, patched, rejected, overtaken, abandoned,
                     patches, restarts>>
  BY DEF reasonWithoutProvider
<1>3. AgentTyped'
  BY <1>1, <1>2 DEF AgentTyped
<1>4. CallsCounted'
  BY <1>1, <1>2 DEF CallsCounted, AgentTyped, ToCome, Waiting
<1>5. RejectedAtRest' /\ RejectionsStand'
  BY <1>1, <1>2 DEF RejectedAtRest, RejectionsStand, AgentTyped
<1>6. RunningMeansExecuting'
  BY <1>1, <1>2 DEF RunningMeansExecuting, AgentTyped
<1> QED
  BY <1>3, <1>4, <1>5, <1>6

\* PATCH sets any status: it may make the step ready once more.
LEMMA PatchStep ==
    ASSUME AgentInv, NEW s \in Steps, NEW new \in Statuses, patchStep(s, new)
    PROVE  AgentInv'
<1> USE DEF AgentInv
<1>1. /\ status' \in [Steps -> Statuses] /\ runStatus' \in {"running", "completed", "failed"}
      /\ \A t \in Steps : status'[t] = IF t = s THEN new ELSE status[t]
      /\ (\E t \in Steps : status'[t] = "failed") => runStatus' = "failed"
  BY UpdateEffect DEF patchStep
<1>2. /\ reopened' \in [Steps -> Nat]
      /\ \A t \in Steps : reopened'[t] = IF t = s /\ new \in Waiting THEN reopened[s] + 1
                                        ELSE reopened[t]
  BY DEF patchStep, AgentTyped
<1>3. /\ patches < MaxPatches /\ patches' = patches + 1 /\ patched' = patched \cup {s}
      /\ UNCHANGED <<approvedAt, executing, calls, rejected, overtaken, abandoned, restarts>>
  BY DEF patchStep
<1>4. AgentTyped'
  BY <1>1, <1>2, <1>3, AgentConstants DEF AgentTyped
<1>5. CallsCounted'
  BY <1>1, <1>2, <1>3, AgentConstants DEF CallsCounted, AgentTyped, ToCome, Waiting
<1>6. RejectedAtRest' /\ RejectionsStand'
  BY <1>1, <1>3 DEF RejectedAtRest, RejectionsStand, AgentTyped
<1>7. RunningMeansExecuting'
  BY <1>1, <1>3 DEF RunningMeansExecuting, AgentTyped
<1> QED
  BY <1>4, <1>5, <1>6, <1>7

\* An execution ends and writes its outcome over whatever the step says.
LEMMA EndStep ==
    ASSUME AgentInv, NEW s \in Steps, NEW outcome \in {"completed", "failed"},
           executionEnds(s, outcome)
    PROVE  AgentInv'
<1> USE DEF AgentInv
<1>1. /\ status' \in [Steps -> Statuses] /\ runStatus' \in {"running", "completed", "failed"}
      /\ \A t \in Steps : status'[t] = IF t = s THEN outcome ELSE status[t]
      /\ (\E t \in Steps : status'[t] = "failed") => runStatus' = "failed"
  BY UpdateEffect DEF executionEnds, Statuses
<1>2. /\ executing[s] > 0 /\ executing' \in [Steps -> Nat]
      /\ \A t \in Steps : executing'[t] = IF t = s THEN executing[s] - 1 ELSE executing[t]
      /\ UNCHANGED <<approvedAt, calls, reopened, patched, rejected, overtaken, abandoned, patches,
                     restarts>>
  BY DEF executionEnds, AgentTyped
<1>3. AgentTyped'
  BY <1>1, <1>2 DEF AgentTyped
<1>4. CallsCounted'
  BY <1>1, <1>2 DEF CallsCounted, AgentTyped, ToCome, Waiting
<1>5. RejectedAtRest' /\ RejectionsStand'
  BY <1>1, <1>2 DEF RejectedAtRest, RejectionsStand, AgentTyped
<1>6. RunningMeansExecuting'
  BY <1>1, <1>2 DEF RunningMeansExecuting, AgentTyped
<1> QED
  BY <1>3, <1>4, <1>5, <1>6

\* An execution ends with no outcome written: the step keeps what it says.
LEMMA LostStep ==
    ASSUME AgentInv, NEW s \in Steps, outcomeLost(s)
    PROVE  AgentInv'
<1> USE DEF AgentInv
<1>1. /\ executing[s] > 0 /\ executing' \in [Steps -> Nat]
      /\ \A t \in Steps : executing'[t] = IF t = s THEN executing[s] - 1 ELSE executing[t]
      /\ abandoned' = abandoned \cup {s}
      /\ UNCHANGED <<runStatus, status, approvedAt, calls, reopened, patched, rejected,
                     overtaken, patches, restarts>>
  BY DEF outcomeLost, AgentTyped
<1>2. AgentTyped'
  BY <1>1 DEF AgentTyped
<1>3. CallsCounted'
  BY <1>1 DEF CallsCounted, AgentTyped, ToCome
<1>4. RejectedAtRest' /\ RejectionsStand'
  BY <1>1 DEF RejectedAtRest, RejectionsStand, AgentTyped
<1>5. RunningMeansExecuting'
  BY <1>1 DEF RunningMeansExecuting
<1> QED
  BY <1>2, <1>3, <1>4, <1>5

\* The queue's rejection: the step fails, and an execution under way is noted.
LEMMA RejectStep ==
    ASSUME AgentInv, NEW s \in Steps, rejectStep(s)
    PROVE  AgentInv'
<1> USE DEF AgentInv
<1>0. updateStep(s, "failed") /\ "failed" \in Statuses
  BY DEF rejectStep, Statuses
<1>1. /\ status' \in [Steps -> Statuses] /\ runStatus' \in {"running", "completed", "failed"}
      /\ \A t \in Steps : status'[t] = IF t = s THEN "failed" ELSE status[t]
      /\ (\E t \in Steps : status'[t] = "failed") => runStatus' = "failed"
  BY <1>0, UpdateEffect
<1>2. /\ rejected' = rejected \cup {s}
      /\ overtaken' = IF executing[s] > 0 THEN overtaken \cup {s} ELSE overtaken
      /\ UNCHANGED <<approvedAt, executing, calls, reopened, patched, abandoned, patches, restarts>>
  BY DEF rejectStep
<1>3. AgentTyped'
  BY <1>1, <1>2 DEF AgentTyped
<1>4. CallsCounted'
  BY <1>1, <1>2 DEF CallsCounted, AgentTyped, ToCome, Waiting
<1>5. RejectedAtRest' /\ RejectionsStand'
  BY <1>1, <1>2 DEF RejectedAtRest, RejectionsStand, AgentTyped
<1>6. RunningMeansExecuting'
  BY <1>1, <1>2 DEF RunningMeansExecuting, AgentTyped
<1> QED
  BY <1>3, <1>4, <1>5, <1>6

\* A restart ends every execution; the steps keep the status they had.
LEMMA AgentRestartStep ==
    ASSUME AgentInv, AgentRestart
    PROVE  AgentInv'
<1> USE DEF AgentInv
<1>1. AgentTyped'
  BY AgentConstants DEF AgentTyped, AgentRestart
<1>2. CallsCounted'
  BY AgentConstants DEF CallsCounted, AgentTyped, ToCome, Waiting, AgentRestart
<1>3. RejectedAtRest' /\ RejectionsStand'
  BY DEF RejectedAtRest, RejectionsStand, AgentTyped, AgentRestart
<1>4. RunningMeansExecuting'
  BY DEF RunningMeansExecuting, AgentTyped, AgentRestart
<1> QED
  BY <1>1, <1>2, <1>3, <1>4

----------------------------------------------------------------------------
(* Memory candidates                                                       *)

\* The table of promote(): what approving and rejecting a candidate lead to.
LEMMA TransitionTable ==
    ASSUME NEW state \in Candidate
    PROVE  /\ Transition("reject", state) = [next |-> "revoked", visibility |-> Nobody]
           /\ \/ Transition("approve", state) = [next |-> "project", visibility |-> "project"]
              \/ Transition("approve", state) = [next |-> "global", visibility |-> "workspace"]
BY DEF Transition, Candidate

\* write: the record is new, whatever state it is given, so no decision is open on it.
LEMMA WriteStep ==
    ASSUME MemoryInv, NEW m \in Records, NEW state \in Stored, write(m, state)
    PROVE  MemoryInv'
<1> USE DEF MemoryInv
<1> DEFINE new == [promotionState |-> state, visibility |-> "private"]
<1>1. record[m].promotionState = "absent" /\ written[m] = "absent"
  BY DEF write, CandidatesAsWritten
<1>2. /\ record' \in [Records -> [promotionState : PromotionStates, visibility : Visibilities]]
      /\ written' \in [Records -> PromotionStates]
      /\ record'[m] = new /\ written'[m] = state
      /\ \A n \in Records : n # m => record'[n] = record[n] /\ written'[n] = written[n]
      /\ UNCHANGED <<deciding, crossed>>
  BY DEF write, MemoryTyped, PromotionStates, Visibilities
<1>3. MemoryTyped'
  BY <1>2 DEF MemoryTyped
<1>4. CandidatesAsWritten'
  BY <1>2 DEF CandidatesAsWritten, Stored, Candidate
<1>5. DecisionsFresh'
  <2>1. \A o \in Deciders : deciding[o] # Nobody =>
          deciding[o].record \in Records /\ deciding[o].record # m
    BY <1>1 DEF MemoryTyped, Decision, DecisionsFresh, Candidate
  <2> QED
    BY <1>2, <2>1 DEF DecisionsFresh
<1>6. VisibleMeansPromoted'
  <2>1. record'[m].visibility = "private"
    BY <1>2
  <2>2. \A n \in Records : n # m => record'[n] = record[n] /\ written'[n] = written[n]
    BY <1>2
  <2>3. crossed' = crossed /\ record'[m] = [promotionState |-> written'[m], visibility |-> "private"]
    BY <1>2
  <2> QED
    BY <2>1, <2>2, <2>3 DEF VisibleMeansPromoted
<1> QED
  BY <1>3, <1>4, <1>5, <1>6

\* promote's SELECT: the record is a candidate, and a second decision on it is noted.
LEMMA SelectStep ==
    ASSUME MemoryInv, NEW o \in Deciders, NEW m \in Records,
           NEW decision \in {"approve", "reject"}, promoteSelect(o, m, decision)
    PROVE  MemoryInv'
<1> USE DEF MemoryInv
<1> DEFINE d == [record |-> m, to |-> Transition(decision, record[m].promotionState)]
<1>1. /\ record[m].promotionState \in Candidate
      /\ deciding' = [deciding EXCEPT ![o] = d] /\ record' = record /\ written' = written
      /\ crossed' = IF \E p \in Deciders : deciding[p] # Nobody /\ deciding[p].record = m
                    THEN crossed \cup {m} ELSE crossed
      /\ deciding[o] = Nobody
  BY DEF promoteSelect
<1>2. record[m].promotionState = written[m]
  BY <1>1 DEF CandidatesAsWritten
<1>3. d \in Decision /\ d.record = m /\ d.to = Transition(decision, written[m])
  <2>1. d.to = Transition(decision, written[m]) /\ written[m] \in Candidate
    BY <1>1, <1>2
  <2>2. d.to \in [next : {"revoked", "project", "global"},
                  visibility : {"project", "workspace", Nobody}]
    BY <2>1, TransitionTable
  <2> QED
    BY <2>1, <2>2 DEF Decision
<1>4. \A p \in Deciders : deciding'[p] = IF p = o THEN d ELSE deciding[p]
  BY <1>1 DEF MemoryTyped
<1>5. crossed \subseteq crossed'
  BY <1>1
<1>6. m \notin crossed => record[m] = [promotionState |-> written[m], visibility |-> "private"]
  <2>1. record[m].promotionState \notin {"project", "global", "revoked"}
    BY <1>1 DEF Candidate
  <2>2. written[m] \in Candidate => Transition("approve", written[m]).next \in {"project", "global"}
    BY TransitionTable
  <2> QED
    BY <2>1, <2>2 DEF VisibleMeansPromoted
<1> HIDE DEF d
<1>7. MemoryTyped'
  BY <1>1, <1>3 DEF MemoryTyped
<1>8. CandidatesAsWritten' /\ VisibleMeansPromoted'
  BY <1>1, <1>5 DEF CandidatesAsWritten, VisibleMeansPromoted
<1>9. DecisionsFresh'
  <2> SUFFICES ASSUME NEW q \in Deciders, deciding'[q] # Nobody
               PROVE  /\ written[deciding'[q].record] \in Candidate
                      /\ \E dec \in {"approve", "reject"} :
                           deciding'[q].to = Transition(dec, written[deciding'[q].record])
                      /\ deciding'[q].record \notin crossed' =>
                           /\ record[deciding'[q].record] =
                                [promotionState |-> written[deciding'[q].record],
                                 visibility |-> "private"]
                           /\ \A p \in Deciders :
                                deciding'[p] # Nobody /\ deciding'[p].record = deciding'[q].record
                                => p = q
    BY <1>1 DEF DecisionsFresh
  <2>1. CASE q = o
    BY <1>1, <1>2, <1>3, <1>4, <1>5, <1>6, <2>1
  <2>2. CASE q # o
    <3>1. deciding'[q] = deciding[q] /\ deciding[q] # Nobody
      BY <1>4, <2>2
    <3>2. deciding[q].record = m => m \in crossed'
      BY <1>1, <3>1
    <3> QED
      BY <1>3, <1>4, <1>5, <3>1, <3>2 DEF DecisionsFresh
  <2> QED
    BY <2>1, <2>2
<1> QED
  BY <1>7, <1>8, <1>9

\* promote's UPDATE: a decision about the candidate the record was written as, and, when
\* no other was open, about a record still private.
LEMMA UpdateStep ==
    ASSUME MemoryInv, NEW o \in Deciders, promoteUpdate(o)
    PROVE  MemoryInv'
<1> USE DEF MemoryInv
<1> DEFINE m == deciding[o].record
           to == deciding[o].to
           approved == Transition("approve", written[m])
<1>1. deciding[o] # Nobody /\ deciding[o] \in Decision
  BY DEF promoteUpdate, MemoryTyped
<1>2. /\ m \in Records /\ to.next \in {"revoked", "project", "global"}
      /\ to.visibility \in {"project", "workspace", Nobody}
  BY <1>1 DEF Decision
<1>3. /\ written[m] \in Candidate
      /\ to = approved \/ to = Transition("reject", written[m])
      /\ m \notin crossed =>
           record[m] = [promotionState |-> written[m], visibility |-> "private"]
  BY <1>1 DEF DecisionsFresh
<1>4. /\ Transition("reject", written[m]) = [next |-> "revoked", visibility |-> Nobody]
      /\ approved.next \in {"project", "global"} /\ approved.visibility \in {"project", "workspace"}
  BY <1>3, TransitionTable
<1>5. /\ \A n \in Records : n # m => record'[n] = record[n]
      /\ record'[m] = [promotionState |-> to.next,
                       visibility |-> IF to.visibility = Nobody THEN record[m].visibility
                                      ELSE to.visibility]
      /\ record' \in [Records -> [promotionState : PromotionStates, visibility : Visibilities]]
      /\ written' = written
  BY <1>2 DEF promoteUpdate, MemoryTyped, PromotionStates, Stored, Visibilities
<1>6. /\ deciding'[o] = Nobody /\ crossed' = crossed
      /\ deciding' \in [Deciders -> Decision \cup {Nobody}]
      /\ \A p \in Deciders : p # o => deciding'[p] = deciding[p]
  BY DEF promoteUpdate, MemoryTyped
<1>7. MemoryTyped'
  BY <1>5, <1>6 DEF MemoryTyped
<1>8. CandidatesAsWritten'
  <2>1. record'[m].promotionState \notin Candidate \cup {"absent"}
    BY <1>2, <1>5 DEF Candidate
  <2> QED
    BY <1>5, <2>1 DEF CandidatesAsWritten
<1>9. DecisionsFresh'
  <2> SUFFICES ASSUME NEW q \in Deciders, deciding'[q] # Nobody
               PROVE  /\ written[deciding'[q].record] \in Candidate
                      /\ \E dec \in {"approve", "reject"} :
                           deciding'[q].to = Transition(dec, written[deciding'[q].record])
                      /\ deciding'[q].record \notin crossed =>
                           /\ record'[deciding'[q].record] =
                                [promotionState |-> written[deciding'[q].record],
                                 visibility |-> "private"]
                           /\ \A p \in Deciders :
                                deciding'[p] # Nobody /\ deciding'[p].record = deciding'[q].record
                                => p = q
    BY <1>5, <1>6 DEF DecisionsFresh
  <2>1. q # o /\ deciding'[q] = deciding[q] /\ deciding[q] # Nobody
    BY <1>6
  <2>2. deciding[q].record \in Records
    BY <2>1 DEF MemoryTyped, Decision
  <2>3. deciding[q].record \notin crossed => deciding[q].record # m
    BY <1>1, <2>1 DEF DecisionsFresh
  <2>4. deciding[q].record \notin crossed => record'[deciding[q].record] = record[deciding[q].record]
    BY <1>5, <2>2, <2>3
  <2> HIDE DEF m, to, approved
  <2> QED
    BY <1>6, <2>1, <2>4 DEF DecisionsFresh
<1>10. VisibleMeansPromoted'
  <2>1. record[m].visibility # "private" => record[m].visibility = approved.visibility
    BY <1>2 DEF VisibleMeansPromoted
  <2>2. record'[m].visibility # "private" => record'[m].visibility = approved.visibility
    BY <1>3, <1>4, <1>5, <2>1
  <2>3. m \notin crossed =>
          record'[m] \in {[promotionState |-> approved.next, visibility |-> approved.visibility],
                          [promotionState |-> "revoked", visibility |-> "private"]}
    BY <1>3, <1>4, <1>5, MemoryConstants DEF Visibilities
  <2> HIDE DEF m, to, approved
  <2>4. approved = Transition("approve", written[m])
    BY DEF approved
  <2> QED
    BY <1>2, <1>3, <1>5, <1>6, <2>2, <2>3, <2>4 DEF VisibleMeansPromoted
<1> QED
  BY <1>7, <1>8, <1>9, <1>10

\* A restart drops the decisions under way.
LEMMA MemoryRestartStep ==
    ASSUME MemoryInv, MemoryRestart
    PROVE  MemoryInv'
BY DEF MemoryInv, MemoryTyped, CandidatesAsWritten, DecisionsFresh, VisibleMeansPromoted, MemoryRestart

----------------------------------------------------------------------------
(* Theorems                                                                *)

\* The inductive invariant of agent runs and memory candidates under the queue.
THEOREM Invariance == Spec => [](AgentInv /\ MemoryInv)
<1>1. Init => AgentInv /\ MemoryInv
  <2> SUFFICES ASSUME Init
               PROVE  AgentInv /\ MemoryInv
    OBVIOUS
  <2>1. AgentTyped
    BY AgentConstants DEF Init, AgentInit, AgentTyped, Statuses
  <2>2. /\ CallsCounted /\ RejectedAtRest
        /\ RunningMeansExecuting /\ RejectionsStand
    BY DEF Init, AgentInit, CallsCounted, ToCome, Waiting, RejectedAtRest,
       RunningMeansExecuting, RejectionsStand
  <2>3. MemoryInv
    BY DEF Init, MemoryInit, MemoryInv, MemoryTyped, PromotionStates, Stored, Candidate,
       Visibilities, CandidatesAsWritten, DecisionsFresh, VisibleMeansPromoted
  <2> QED
    BY <2>1, <2>2, <2>3 DEF AgentInv
<1>2. AgentInv /\ UNCHANGED agentVars => AgentInv'
  BY DEF agentVars, AgentInv, AgentTyped, CallsCounted, ToCome, Waiting, RejectedAtRest,
     RunningMeansExecuting, RejectionsStand
<1>3. MemoryInv /\ UNCHANGED memoryVars => MemoryInv'
  BY DEF memoryVars, MemoryInv, MemoryTyped, CandidatesAsWritten, DecisionsFresh,
     VisibleMeansPromoted
<1>4. AgentInv /\ MemoryInv /\ [Next]_vars => (AgentInv /\ MemoryInv)'
  <2> SUFFICES ASSUME AgentInv, MemoryInv, [Next]_vars
               PROVE  AgentInv' /\ MemoryInv'
    OBVIOUS
  <2>1. CASE AgentNext /\ UNCHANGED memoryVars
    BY <2>1, <1>3, CreateStep, ApproveStep, ExecuteStep, ReasonStep, PatchStep, EndStep, LostStep
       DEF AgentNext
  <2>2. CASE MemoryNext /\ UNCHANGED agentVars
    BY <2>2, <1>2, WriteStep, UpdateStep DEF MemoryNext
  <2>3. CASE decide
    BY <2>3, <1>2, <1>3, RejectStep, SelectStep DEF decide
  <2>4. CASE Restart
    BY <2>4, AgentRestartStep, MemoryRestartStep DEF Restart
  <2>5. CASE UNCHANGED vars
    BY <2>5, <1>2, <1>3 DEF vars
  <2> QED
    BY <2>1, <2>2, <2>3, <2>4, <2>5 DEF Next
<1> QED
  BY <1>1, <1>4, PTL DEF Spec

\* Every variable keeps its type; of one step no more executions are under way at once
\* than a run starts with and PATCHes give back.
THEOREM TypeCorrect == Spec => []TypeOK
<1>1. AgentInv /\ MemoryInv => TypeOK
  <2> SUFFICES ASSUME AgentInv, MemoryInv
               PROVE  TypeOK
    OBVIOUS
  <2>1. executing \in [Steps -> 0..(MaxPatches + 1)]
    BY AgentConstants DEF AgentInv, AgentTyped, CallsCounted, ToCome
  <2> QED
    BY <2>1 DEF AgentInv, AgentTyped, MemoryInv, MemoryTyped, TypeOK
<1> QED
  BY <1>1, Invariance, PTL

\* At most one call for each time the step was made ready, whatever approvals, executions,
\* rejections, PATCHes and restarts come in whichever order.
THEOREM CalledOnce == Spec => []CalledOncePerReadiness
<1>1. AgentInv => CalledOncePerReadiness
  <2> SUFFICES ASSUME AgentInv, NEW s \in Steps
               PROVE  calls[s] <= 1 + reopened[s]
    BY DEF CalledOncePerReadiness
  <2>1. calls[s] \in Nat /\ reopened[s] \in Nat /\ calls[s] + ToCome(s) <= 1 + reopened[s]
    BY DEF AgentInv, AgentTyped, CallsCounted
  <2> QED
    BY <2>1 DEF ToCome
<1> QED
  BY <1>1, Invariance, PTL

\* A step says `running` exactly while one execution is under way, but for a PATCH, a
\* rejection during it or the death of the process.
THEOREM RunningIsExecuting == Spec => []RunningMeansExecuting
<1>1. AgentInv => RunningMeansExecuting
  BY DEF AgentInv
<1> QED
  BY <1>1, Invariance, PTL

\* A rejection through the queue is final, but for a PATCH and for an execution that was
\* under way.
THEOREM RejectedStaysRejected == Spec => []RejectionsStand
<1>1. AgentInv => RejectionsStand
  BY DEF AgentInv
<1> QED
  BY <1>1, Invariance, PTL

\* promote(): a record is seen no further than the approval of the candidate it was
\* written as, and one decided on by one person at a time was decided once.
THEOREM OnlyThePromotedAreVisible == Spec => []VisibleMeansPromoted
<1>1. MemoryInv => VisibleMeansPromoted
  BY DEF MemoryInv
<1> QED
  BY <1>1, Invariance, PTL
=============================================================================
