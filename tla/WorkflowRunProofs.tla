------------------------- MODULE WorkflowRunProofs -------------------------
(***************************************************************************)
(* Safety of a workflow run, for every number of steps, every choice of    *)
(* gates, compensations and retries, and any number of operators and       *)
(* crashes.                                                                *)
(*                                                                         *)
(* The inductive invariant says what is open while advance() is where it   *)
(* is (Tracked), how the calls that undo are related to it (Callings), and *)
(* that what such a call still has to undo is every completed step that    *)
(* was not undone, last first (Covered).                                   *)
(***************************************************************************)
EXTENDS WorkflowRun, FiniteSetTheorems, TLAPS

Working == {"executing", "backoff"}

\* The step advance() works on is the only running one, and attempts are counted;
\* steps that were not begun have had none.
Tracked ==
    /\ adv.at \in Working =>
        /\ adv.step \in Steps /\ step[adv.step].status = "running"
        /\ adv.attempt = step[adv.step].attempts /\ adv.attempt >= 1
        /\ \A s \in Steps \ {adv.step} : step[s].status # "running"
    /\ adv.at = "backoff" => adv.attempt < maxAttempts[adv.step]
    /\ adv.at \in {"entered", "loop"} => \A s \in Steps : step[s].status # "running"
    /\ \A s \in Steps :
        /\ step[s].status \in {"pending", "awaiting_approval"} => step[s].attempts = 0
        /\ step[s].compensation = "pending" => step[s].status = "completed"

\* advance() undoes exactly while it is compensating, no undoing completes a run, and
\* until calls overlap only one of advance() and an operator's call is in progress.
Callings ==
    /\ comp[Advance].active <=> adv.at = "compensating"
    /\ \A c \in Callers : comp[c].terminal # "completed"
    /\ ~overlap =>
        /\ Advancing => \A o \in Operators : ~comp[o].active
        /\ adv.at \in Working \cup {"loop", "compensating"} => ~Terminal
        /\ run.status = "completed" => \A c \in Callers : ~comp[c].active

\* Last first, each once.
Descending(queue) == \A i, j \in DOMAIN queue : i < j => queue[i] > queue[j]

\* Every step still to be undone is in the queue.
Covers(queue) == \A s \in Due(step) : \E i \in DOMAIN queue : queue[i] = s

Covered ==
    \A c \in Callers : comp[c].active =>
        /\ comp[c].queue # <<>> /\ Descending(comp[c].queue)
        /\ ~overlap => Covers(comp[c].queue)

RunInv ==
    /\ TypeOK /\ Tracked /\ Callings /\ Covered
    /\ AttemptsBounded /\ CompletedLeavesNothingOpen /\ EndedRunsAreUndone

----------------------------------------------------------------------------
(* The order of undoing                                                    *)

\* Of a set of steps, each has its own number of steps above it, and every number
\* below the size of the set is the one of some step.
LEMMA Ranks ==
    ASSUME NEW D \in SUBSET Steps
    PROVE  /\ Cardinality(D) \in Nat /\ (Cardinality(D) = 0 <=> D = {})
           /\ \A s \in D : Cardinality({t \in D : t > s}) \in 0..(Cardinality(D) - 1)
           /\ \A s, u \in D : s > u =>
                Cardinality({t \in D : t > s}) < Cardinality({t \in D : t > u})
           /\ \A i \in 1..Cardinality(D) : \E s \in D : Cardinality({t \in D : t > s}) = i - 1
<1>1. IsFiniteSet(D) /\ D \subseteq Int
  <2>1. IsFiniteSet(Steps) /\ Steps \subseteq Int
    BY WorkflowConstants, FS_Interval DEF Steps
  <2> QED
    BY <2>1, FS_Subset
<1>2. Cardinality(D) \in Nat /\ (Cardinality(D) = 0 <=> D = {})
  BY <1>1, FS_CardinalityType, FS_EmptySet
<1> DEFINE Above(s) == {t \in D : t > s}
<1>3. \A s \in D : IsFiniteSet(Above(s)) /\ Cardinality(Above(s)) \in Nat
  BY <1>1, FS_Subset, FS_CardinalityType
<1>4. \A s, u \in D : s > u => Cardinality(Above(s)) < Cardinality(Above(u))
  <2> SUFFICES ASSUME NEW s \in D, NEW u \in D, s > u
               PROVE  Cardinality(Above(s)) < Cardinality(Above(u))
    OBVIOUS
  <2>1. Above(s) \in SUBSET Above(u) /\ s \in Above(u) /\ s \notin Above(s)
    <3>1. s \in Int /\ u \in Int /\ ~(s > s)
      BY <1>1
    <3>2. \A t \in D : t > s => t > u
      BY <1>1, <3>1
    <3> QED
      BY <3>1, <3>2
  <2>2. /\ Cardinality(Above(s)) <= Cardinality(Above(u))
        /\ Cardinality(Above(u)) = Cardinality(Above(s)) => Above(u) = Above(s)
    BY <1>3, <2>1, FS_Subset
  <2>3. Cardinality(Above(u)) # Cardinality(Above(s))
    BY <2>1, <2>2
  <2> HIDE DEF Above
  <2> QED
    BY <1>3, <2>2, <2>3
<1>5. \A s \in D : Cardinality(Above(s)) \in 0..(Cardinality(D) - 1)
  <2> SUFFICES ASSUME NEW s \in D
               PROVE  Cardinality(Above(s)) \in 0..(Cardinality(D) - 1)
    OBVIOUS
  <2>1. Above(s) \in SUBSET D /\ s \notin Above(s)
    BY <1>1
  <2>2. /\ Cardinality(Above(s)) <= Cardinality(D)
        /\ Cardinality(D) = Cardinality(Above(s)) => D = Above(s)
    BY <1>1, <2>1, FS_Subset
  <2>3. Cardinality(D) # Cardinality(Above(s))
    BY <2>1, <2>2
  <2> HIDE DEF Above
  <2> QED
    BY <1>2, <1>3, <2>2, <2>3
<1>6. \A i \in 1..Cardinality(D) : \E s \in D : Cardinality(Above(s)) = i - 1
  <2> DEFINE n == Cardinality(D)
             f == [s \in D |-> Cardinality(Above(s))]
  <2>1. n \in Nat /\ n = Cardinality(D)
    BY <1>2
  <2>2. f \in Injection(D, 0..(n - 1))
    <3>1. f \in [D -> 0..(n - 1)]
      BY <1>5
    <3>2. ASSUME NEW s \in D, NEW u \in D, f[s] = f[u] PROVE s = u
      <4>1. s > u \/ u > s \/ s = u
        BY <1>1
      <4>2. Cardinality(Above(s)) = Cardinality(Above(u))
        BY <3>2
      <4> HIDE DEF Above
      <4> QED
        BY <1>3, <1>4, <4>1, <4>2
    <3> QED
      BY <3>1, <3>2 DEF Injection, IsInjective
  <2>3. IsFiniteSet(0..(n - 1)) /\ Cardinality(0..(n - 1)) = n
    <3> HIDE DEF n
    <3>1. 0 \in Int /\ n - 1 \in Int /\ (IF 0 > n - 1 THEN 0 ELSE n - 1 - 0 + 1) = n
      BY <2>1
    <3> QED
      BY <3>1, FS_Interval
  <2> HIDE DEF n
  <2>4. f \in Surjection(D, 0..(n - 1))
    BY <2>1, <2>2, <2>3, FS_Injection
  <2>5. \A k \in 0..(n - 1) : \E s \in D : f[s] = k
    BY <2>4 DEF Surjection
  <2> HIDE DEF Above
  <2> QED
    BY <2>1, <2>5
<1> QED
  BY <1>2, <1>4, <1>5, <1>6

\* toCompensate(): the steps still to be undone, all of them, last first, each once.
LEMMA Queue ==
    ASSUME NEW steps
    PROVE  LET queue == toCompensate(steps)
           IN  /\ queue \in Seq(Steps) /\ Descending(queue)
               /\ \A s \in Due(steps) : \E i \in DOMAIN queue : queue[i] = s
               /\ queue = <<>> <=> Due(steps) = {}
<1> DEFINE D == Due(steps)
           n == Cardinality(D)
           Above(s) == Cardinality({t \in D : t > s})
           queue == toCompensate(steps)
<1>1. D \in SUBSET Steps /\ D \subseteq Int
  BY WorkflowConstants DEF Due, Steps
<1> HIDE DEF D
<1>2. /\ n \in Nat /\ (n = 0 <=> D = {})
      /\ \A s \in D : Above(s) \in 0..(n - 1)
      /\ \A s, u \in D : s > u => Above(s) < Above(u)
      /\ \A i \in 1..n : \E s \in D : Above(s) = i - 1
  BY <1>1, Ranks
<1>3. queue = [i \in 1..n |-> CHOOSE s \in D : Above(s) = i - 1]
  BY DEF toCompensate, D
<1> HIDE DEF n, Above, queue
<1>4. \A i \in 1..n : queue[i] \in D /\ Above(queue[i]) = i - 1
  BY <1>2, <1>3
<1>5. queue \in Seq(Steps) /\ DOMAIN queue = 1..n
  <2>1. DOMAIN queue = 1..n
    BY <1>3
  <2>2. queue \in [1..n -> Steps]
    BY <1>1, <1>3, <1>4
  <2> QED
    BY <1>2, <2>1, <2>2
<1>6. Descending(queue)
  <2> SUFFICES ASSUME NEW i \in 1..n, NEW j \in 1..n, i < j PROVE queue[i] > queue[j]
    BY <1>5 DEF Descending
  <2>1. /\ queue[i] \in D /\ queue[j] \in D /\ queue[i] \in Int /\ queue[j] \in Int
    BY <1>1, <1>4
  <2>2. queue[i] # queue[j] /\ ~(queue[j] > queue[i])
    <3>1. i - 1 # j - 1 /\ ~(j - 1 < i - 1)
      OBVIOUS
    <3> QED
      BY <1>2, <1>4, <2>1, <3>1
  <2> QED
    BY <2>1, <2>2
<1>7. ASSUME NEW s \in D PROVE \E i \in DOMAIN queue : queue[i] = s
  <2>1. Above(s) + 1 \in 1..n
    BY <1>2
  <2>2. queue[Above(s) + 1] \in D /\ Above(queue[Above(s) + 1]) = Above(s)
    BY <1>2, <1>4, <2>1
  <2>3. queue[Above(s) + 1] = s
    <3> DEFINE u == queue[Above(s) + 1]
    <3>1. u \in D /\ u \in Int /\ s \in Int /\ Above(u) = Above(s)
      BY <1>1, <2>2
    <3>2. Above(s) \in 0..(n - 1)
      BY <1>2
    <3>3. ~(Above(s) < Above(s))
      BY <1>2, <3>2
    <3> HIDE DEF u
    <3>4. ~(u > s) /\ ~(s > u)
      BY <1>2, <3>1, <3>3
    <3> QED
      BY <3>1, <3>4 DEF u
  <2> QED
    BY <1>5, <2>1, <2>3
<1>8. queue = <<>> <=> D = {}
  BY <1>2, <1>5
<1> QED
  BY <1>5, <1>6, <1>7, <1>8 DEF D, queue

----------------------------------------------------------------------------
(* What the actions assign                                                 *)

StepRecord == [status : StepStatus, attempts : Nat, decision : {"none", "approve", "reject"},
               compensation : {"not_required", "pending", "compensated", "failed"}]

AdvRecord == [at : {"idle", "entered", "loop", "executing", "backoff", "compensating"},
              step : 0..N, attempt : Nat]

CompRecord == [active : BOOLEAN, queue : Seq(Steps), failed : BOOLEAN, terminal : RUN_TERMINAL]

\* steps is step but for the fields of s.
ChangedAt(steps, s, status, attempts, decision, compensation) ==
    /\ steps \in [Steps -> StepRecord]
    /\ steps[s].status = status /\ steps[s].attempts = attempts
    /\ steps[s].decision = decision /\ steps[s].compensation = compensation
    /\ \A t \in Steps \ {s} : steps[t] = step[t]

\* A step with a new status.
LEMMA NewStatus ==
    ASSUME step \in [Steps -> StepRecord], NEW s \in Steps, NEW status \in StepStatus
    PROVE  ChangedAt([step EXCEPT ![s].status = status], s,
                     status, step[s].attempts, step[s].decision, step[s].compensation)
BY Zenon DEF ChangedAt, StepRecord

\* A step whose compensation ended.
LEMMA NewCompensation ==
    ASSUME step \in [Steps -> StepRecord], NEW s \in Steps,
           NEW compensation \in {"not_required", "pending", "compensated", "failed"}
    PROVE  ChangedAt([step EXCEPT ![s].compensation = compensation], s,
                     step[s].status, step[s].attempts, step[s].decision, compensation)
BY Zenon DEF ChangedAt, StepRecord

\* A step that an attempt begins of.
LEMMA NewAttempt ==
    ASSUME step \in [Steps -> StepRecord], NEW s \in Steps
    PROVE  ChangedAt([step EXCEPT ![s].status = "running", ![s].attempts = @ + 1], s,
                     "running", step[s].attempts + 1, step[s].decision, step[s].compensation)
<1>1. step[s].attempts + 1 \in Nat
  BY DEF StepRecord
<1>2. "running" \in StepStatus
  BY DEF StepStatus
<1> QED
  BY <1>1, <1>2, Zenon DEF ChangedAt, StepRecord

\* A step that completed.
LEMMA NewCompleted ==
    ASSUME step \in [Steps -> StepRecord], NEW s \in Steps
    PROVE  ChangedAt([step EXCEPT ![s].status = "completed",
                                  ![s].compensation = IF s \in Compensable THEN "pending" ELSE @],
                     s, "completed", step[s].attempts, step[s].decision,
                     IF s \in Compensable THEN "pending" ELSE step[s].compensation)
<1>1. (IF s \in Compensable THEN "pending" ELSE step[s].compensation)
        \in {"not_required", "pending", "compensated", "failed"}
  BY DEF StepRecord
<1>2. "completed" \in StepStatus
  BY DEF StepStatus
<1> QED
  BY <1>1, <1>2, Zenon DEF ChangedAt, StepRecord

\* A step that was decided.
LEMMA NewDecision ==
    ASSUME step \in [Steps -> StepRecord], NEW s \in Steps, NEW status \in StepStatus,
           NEW decision \in {"none", "approve", "reject"}
    PROVE  ChangedAt([step EXCEPT ![s].status = status, ![s].decision = decision], s,
                     status, step[s].attempts, decision, step[s].compensation)
BY Zenon DEF ChangedAt, StepRecord

\* The run ends, or caller c has a queue to undo.
EndsOrUndoes(c, steps, queue, terminal) ==
    /\ step' = steps
    /\ run' \in [status : RunStatus, cancellationRequested : BOOLEAN]
    /\ run'.cancellationRequested = run.cancellationRequested
    /\ adv' \in AdvRecord /\ comp' \in [Callers -> CompRecord]
    /\ c # Advance => adv' = adv
    /\ \A d \in Callers \ {c} : comp'[d] = comp[d]
    /\ queue = <<>> =>
         /\ run'.status \in {terminal, "compensation_failed"}
         /\ ~comp'[c].active /\ comp'[c].terminal = "failed"
         /\ c = Advance => adv'.at = "idle"
    /\ queue # <<>> =>
         /\ run' = run
         /\ comp'[c].active /\ comp'[c].queue = queue /\ comp'[c].terminal = terminal
         /\ c = Advance => adv'.at = "compensating"

\* #compensate ends the run when nothing is left to undo, and only then.
LEMMA FinishEffect ==
    ASSUME TypeOK, NEW c \in Callers, NEW steps, NEW queue \in Seq(Steps), NEW failed \in BOOLEAN,
           NEW terminal \in RUN_TERMINAL,
           CompensateOrFinish(c, steps, queue, failed, terminal)
    PROVE  EndsOrUndoes(c, steps, queue, terminal)
<1> USE DEF EndsOrUndoes
<1>1. /\ run \in [status : RunStatus, cancellationRequested : BOOLEAN]
      /\ comp \in [Callers -> CompRecord] /\ adv \in AdvRecord
  BY DEF TypeOK, CompRecord, AdvRecord
<1>2. /\ NotCompensating \in CompRecord /\ ~NotCompensating.active
      /\ NotCompensating.terminal = "failed"
  BY DEF NotCompensating, CompRecord, RUN_TERMINAL
<1>3. Idle \in AdvRecord /\ Idle.at = "idle"
  BY WorkflowConstants DEF Idle, AdvRecord
<1>4. LET going == [adv EXCEPT !.at = "compensating"] IN
      going \in AdvRecord /\ going.at = "compensating"
  BY <1>1, Zenon DEF AdvRecord
<1>5. CASE queue = <<>>
  <2> DEFINE status == IF failed THEN "compensation_failed" ELSE terminal
  <2>1. /\ step' = steps /\ run' = [run EXCEPT !.status = status]
        /\ comp' = [comp EXCEPT ![c] = NotCompensating]
        /\ IF c = Advance THEN adv' = Idle ELSE adv' = adv
    BY <1>5, Zenon DEF CompensateOrFinish
  <2>2. status \in RunStatus /\ status \in {terminal, "compensation_failed"}
    BY DEF RunStatus, RUN_TERMINAL
  <2> HIDE DEF status
  <2>3. /\ run' \in [status : RunStatus, cancellationRequested : BOOLEAN]
        /\ run'.cancellationRequested = run.cancellationRequested /\ run'.status = status
    BY <1>1, <2>1, <2>2, Zenon
  <2>4. /\ comp' \in [Callers -> CompRecord] /\ comp'[c] = NotCompensating
        /\ \A d \in Callers \ {c} : comp'[d] = comp[d]
    BY <1>1, <1>2, <2>1, Zenon
  <2> QED
    BY <1>1, <1>2, <1>3, <1>5, <2>1, <2>2, <2>3, <2>4, Zenon
<1>6. CASE queue # <<>>
  <2> DEFINE record == [active |-> TRUE, queue |-> queue, failed |-> failed, terminal |-> terminal]
  <2>1. /\ step' = steps /\ run' = run /\ comp' = [comp EXCEPT ![c] = record]
        /\ IF c = Advance THEN adv' = [adv EXCEPT !.at = "compensating"] ELSE adv' = adv
    BY <1>6, Zenon DEF CompensateOrFinish
  <2>2. /\ record \in CompRecord /\ record.active /\ record.queue = queue
        /\ record.terminal = terminal
    BY DEF CompRecord
  <2> HIDE DEF record
  <2>3. /\ comp' \in [Callers -> CompRecord] /\ comp'[c] = record
        /\ \A d \in Callers \ {c} : comp'[d] = comp[d]
    BY <1>1, <2>1, <2>2, Zenon
  <2> QED
    BY <1>1, <1>4, <1>6, <2>1, <2>2, <2>3, Zenon
<1> QED
  BY <1>5, <1>6

----------------------------------------------------------------------------
(* Undoing                                                                 *)

\* advance() turns to undoing, or ends the run when nothing is to be undone.
LEMMA AdvanceTurnsBack ==
    ASSUME RunInv, NEW steps \in [Steps -> StepRecord], NEW terminal \in {"failed", "cancelled"},
           AdvanceCompensates(steps, terminal), UNCHANGED <<crashes, overlap>>,
           adv.at \in Working \/ (adv.at \in {"entered", "loop"} /\ ~Terminal),
           \A s \in Steps :
             /\ steps[s].attempts = step[s].attempts /\ steps[s].decision = step[s].decision
             /\ steps[s].compensation = step[s].compensation
             /\ \/ steps[s].status = step[s].status
                \/ step[s].status = "running" /\ steps[s].status = "failed"
    PROVE  RunInv'
<1> DEFINE queue == toCompensate(steps)
<1>1. /\ queue \in Seq(Steps) /\ Descending(queue)
      /\ \A s \in Due(steps) : \E i \in DOMAIN queue : queue[i] = s
      /\ queue = <<>> <=> Due(steps) = {}
  BY Queue
<1>2. CompensateOrFinish(Advance, steps, queue, FALSE, terminal)
  BY Zenon DEF AdvanceCompensates
<1> HIDE DEF queue
<1>3. /\ Advance \in Callers /\ FALSE \in BOOLEAN
      /\ terminal \in RUN_TERMINAL /\ terminal # "completed"
  BY DEF Callers, RUN_TERMINAL
<1>4. EndsOrUndoes(Advance, steps, queue, terminal)
  <2>1. TypeOK
    BY DEF RunInv
  <2> QED
    BY <1>1, <1>2, <1>3, <2>1, FinishEffect
<1> USE DEF EndsOrUndoes
<1>5. Operators = Callers \ {Advance}
  BY WorkflowConstants DEF Callers
<1>6. adv.at # "idle" /\ adv.at # "compensating"
  BY DEF Working
<1>7. (~overlap \/ run.status = "completed") => ~Terminal
  BY DEF RunInv, Callings, CompletedLeavesNothingOpen, Tracked, Working
<1>8. TypeOK'
  BY <1>4, Zenon DEF RunInv, TypeOK, StepRecord, AdvRecord, CompRecord
<1>9. Tracked'
  BY <1>4 DEF RunInv, Tracked, Working
<1>10. Callings'
  <2>1. (comp[Advance].active)' <=> adv'.at = "compensating"
    BY <1>4
  <2>2. \A c \in Callers : comp'[c].terminal # "completed"
    BY <1>3, <1>4 DEF RunInv, Callings
  <2>3. ~overlap => \A o \in Operators : ~comp'[o].active
    BY <1>4, <1>5, <1>6 DEF RunInv, Callings, Advancing
  <2>4. ~overlap /\ adv'.at = "compensating" => run' = run /\ ~Terminal
    BY <1>4, <1>7
  <2>5. ~overlap => run'.status # "completed"
    BY <1>3, <1>4, <1>7 DEF Terminal, RUN_TERMINAL
  <2> QED
    BY <1>4, <2>1, <2>2, <2>3, <2>4, <2>5 DEF Callings, Advancing, Terminal, Working
<1>11. Covered'
  <2>1. comp'[Advance].active =>
          /\ comp'[Advance].queue # <<>> /\ Descending(comp'[Advance].queue)
          /\ Covers(comp[Advance].queue)'
    BY <1>1, <1>4 DEF Covers, Descending
  <2>2. ASSUME NEW o \in Operators, comp'[o].active
        PROVE  /\ comp'[o].queue # <<>> /\ Descending(comp'[o].queue) /\ overlap'
    BY <1>4, <1>5, <1>6, <2>2 DEF RunInv, Callings, Covered, Advancing, Descending
  <2> QED
    BY <1>5, <2>1, <2>2 DEF Covered, Callers, Covers, Descending
<1>12. AttemptsBounded'
  BY <1>4 DEF RunInv, AttemptsBounded
<1>13. CompletedLeavesNothingOpen'
  BY <1>3, <1>4, <1>7 DEF CompletedLeavesNothingOpen, Terminal, RUN_TERMINAL
<1>14. EndedRunsAreUndone'
  BY <1>1, <1>4, <1>7, <1>9 DEF EndedRunsAreUndone, Terminal, Due, Tracked
<1> QED
  BY <1>8, <1>9, <1>10, <1>11, <1>12, <1>13, <1>14 DEF RunInv

\* One compensation ends: what is left to undo is what was, but for this step.
LEMMA CompensatedStep ==
    ASSUME RunInv, NEW c \in Callers, NEW ok \in BOOLEAN, compensated(c, ok)
    PROVE  /\ RunInv'
           /\ \A s \in Steps : step'[s].attempts = step[s].attempts
           /\ ~overlap => \A s, t \in Steps :
                s < t /\ step[s].compensation = "pending" /\ step'[s].compensation # "pending"
                => step[t].compensation # "pending"
<1> DEFINE queue == comp[c].queue
           s == Head(queue)
           how == IF ok THEN "compensated" ELSE "failed"
           steps == [step EXCEPT ![s].compensation = how]
           failed == comp[c].failed \/ ~ok
           terminal == comp[c].terminal
<1>0. TypeOK /\ step \in [Steps -> StepRecord] /\ comp \in [Callers -> CompRecord]
  BY DEF RunInv, TypeOK, StepRecord, CompRecord
<1>1. /\ comp[c].active /\ CompensateOrFinish(c, steps, Tail(queue), failed, terminal)
      /\ UNCHANGED <<crashes, overlap>>
  BY Zenon DEF compensated, Undone
<1>2. /\ queue \in Seq(Steps) /\ queue # <<>> /\ Descending(queue)
      /\ ~overlap => Covers(queue)
      /\ terminal \in RUN_TERMINAL /\ terminal # "completed"
  BY <1>0, <1>1 DEF RunInv, Covered, Callings, CompRecord
<1>3. failed \in BOOLEAN
  OBVIOUS
<1>4. how \in {"compensated", "failed"}
  OBVIOUS
<1> HIDE DEF failed, how, queue, terminal
<1>5. /\ s \in Steps /\ Tail(queue) \in Seq(Steps) /\ Descending(Tail(queue))
      /\ \A t \in Steps \ {s} : (\E i \in DOMAIN queue : queue[i] = t) =>
            \E i \in DOMAIN Tail(queue) : Tail(queue)[i] = t
      /\ \A i \in DOMAIN queue : queue[i] <= s
  <2>1. /\ queue # <<>> /\ Len(queue) \in Nat /\ DOMAIN queue = 1..Len(queue) /\ Len(queue) >= 1
        /\ s = queue[1] /\ s \in Steps
    BY <1>2
  <2>2. /\ Tail(queue) \in Seq(Steps) /\ DOMAIN Tail(queue) = 1..(Len(queue) - 1)
        /\ \A i \in 1..(Len(queue) - 1) : Tail(queue)[i] = queue[i + 1]
    BY <1>2, <2>1
  <2> HIDE DEF s
  <2>3. Descending(Tail(queue))
    BY <1>2, <2>1, <2>2 DEF Descending
  <2>4. ASSUME NEW t \in Steps \ {s}, NEW i \in DOMAIN queue, queue[i] = t
        PROVE  \E j \in DOMAIN Tail(queue) : Tail(queue)[j] = t
    <3>1. i # 1
      BY <2>1, <2>4
    <3>2. i - 1 \in 1..(Len(queue) - 1) /\ (i - 1) + 1 = i
      BY <2>1, <3>1
    <3> QED
      BY <2>2, <2>4, <3>2
  <2>5. ASSUME NEW i \in DOMAIN queue PROVE queue[i] <= s
    <3>1. queue[i] \in Nat /\ s \in Nat
      BY <1>2, <2>1, WorkflowConstants DEF Steps
    <3> QED
      BY <1>2, <2>1, <3>1 DEF Descending
  <2> QED
    BY <2>1, <2>2, <2>3, <2>4, <2>5
<1> HIDE DEF s
<1>6. ChangedAt(steps, s, step[s].status, step[s].attempts, step[s].decision, how)
  BY <1>0, <1>4, <1>5, NewCompensation
<1> HIDE DEF steps
<1>7. EndsOrUndoes(c, steps, Tail(queue), terminal)
  BY <1>0, <1>1, <1>2, <1>3, <1>5, FinishEffect
<1> USE DEF EndsOrUndoes
<1>8. /\ \A t \in Steps :
           /\ step'[t].status = step[t].status /\ step'[t].attempts = step[t].attempts
           /\ step'[t].decision = step[t].decision
           /\ step'[t].compensation = "pending" => step[t].compensation = "pending" /\ t # s
           /\ t # s => step'[t].compensation = step[t].compensation
      /\ Due(step') \subseteq Due(step) \ {s}
  BY <1>4, <1>6, <1>7 DEF ChangedAt, Due
<1>9. Operators = Callers \ {Advance} /\ Advance \in Callers
  BY WorkflowConstants DEF Callers
<1>10. c = Advance => adv.at = "compensating"
  BY <1>1 DEF RunInv, Callings
<1>11. TypeOK'
  BY <1>1, <1>6, <1>7, Zenon DEF RunInv, TypeOK, StepRecord, AdvRecord, CompRecord, ChangedAt
<1>12. Tracked'
  BY <1>7, <1>8, <1>10 DEF RunInv, Tracked, Working
<1>13. Callings'
  BY <1>1, <1>2, <1>7, <1>9, <1>10 DEF RunInv, Callings, Advancing, Terminal, Working
<1>14. Covered'
  <2> SUFFICES ASSUME NEW d \in Callers, comp'[d].active
               PROVE  /\ comp'[d].queue # <<>> /\ Descending(comp'[d].queue)
                      /\ ~overlap' => Covers(comp[d].queue)'
    BY DEF Covered, Covers, Descending
  <2>1. CASE d = c
    <3>1. comp'[c].queue = Tail(queue) /\ Tail(queue) # <<>>
      BY <1>7, <2>1
    <3>2. ASSUME ~overlap, NEW t \in Due(step')
          PROVE  \E i \in DOMAIN Tail(queue) : Tail(queue)[i] = t
      <4>1. t \in Due(step) /\ t \in Steps \ {s}
        BY <1>8, <3>2 DEF Due
      <4> QED
        BY <1>2, <1>5, <3>2, <4>1 DEF Covers
    <3> QED
      BY <1>1, <1>5, <2>1, <3>1, <3>2 DEF Covers
  <2>2. CASE d # c
    BY <1>1, <1>7, <1>8, <2>2 DEF RunInv, Covered, Covers
  <2> QED
    BY <2>1, <2>2
<1>15. AttemptsBounded'
  BY <1>8 DEF RunInv, AttemptsBounded
<1>16. CompletedLeavesNothingOpen'
  BY <1>2, <1>7, <1>8 DEF RunInv, CompletedLeavesNothingOpen
<1>17. EndedRunsAreUndone'
  <2>1. CASE Tail(queue) # <<>>
    BY <1>1, <1>7, <1>8, <2>1 DEF RunInv, EndedRunsAreUndone, Terminal
  <2>2. CASE Tail(queue) = <<>>
    <3>1. ~overlap => Due(step') = {}
      BY <1>2, <1>5, <1>8, <2>2 DEF Covers, Due
    <3> QED
      BY <1>1, <1>12, <3>1 DEF EndedRunsAreUndone, Tracked, Due
  <2> QED
    BY <2>1, <2>2
<1>18. ~overlap => \A u, t \in Steps :
         u < t /\ step[u].compensation = "pending" /\ step'[u].compensation # "pending"
         => step[t].compensation # "pending"
  <2> SUFFICES ASSUME ~overlap, NEW u \in Steps, NEW t \in Steps, u < t,
                      step[u].compensation = "pending", step'[u].compensation # "pending",
                      step[t].compensation = "pending"
               PROVE  FALSE
    OBVIOUS
  <2>1. u = s
    BY <1>8
  <2>2. t \in Due(step)
    BY DEF RunInv, Tracked, Due
  <2>3. t <= s
    BY <1>2, <1>5, <2>2 DEF Covers
  <2> QED
    BY <2>1, <2>3, WorkflowConstants DEF Steps
<1> QED
  BY <1>8, <1>11, <1>12, <1>13, <1>14, <1>15, <1>16, <1>17, <1>18 DEF RunInv

----------------------------------------------------------------------------
(* The turns of advance()                                                  *)

\* Facts about advance()'s own record.
LEMMA AdvRecords ==
    /\ Idle \in AdvRecord /\ Idle.at = "idle"
    /\ LET e == [Idle EXCEPT !.at = "entered"] IN e \in AdvRecord /\ e.at = "entered"
    /\ LET l == [Idle EXCEPT !.at = "loop"] IN l \in AdvRecord /\ l.at = "loop"
<1>1. Idle = [at |-> "idle", step |-> 0, attempt |-> 0]
  BY DEF Idle
<1>2. Idle \in AdvRecord /\ Idle.at = "idle"
  BY <1>1, WorkflowConstants DEF AdvRecord
<1> QED
  BY <1>2, Zenon DEF AdvRecord

\* advance() begins, at a caller's request or after an approval: what a dead process
\* left running is interrupted, and no step is running.
LEMMA Begins ==
    ASSUME RunInv, ~Advancing, step' \in [Steps -> StepRecord],
           adv' = [Idle EXCEPT !.at = "entered"],
           overlap' = (overlap \/ \E c \in Operators : comp[c].active),
           UNCHANGED <<run, comp, crashes>>,
           \A s \in Steps :
             /\ step'[s].attempts = step[s].attempts /\ step'[s].compensation = step[s].compensation
             /\ step'[s].status # "running"
             /\ \/ step'[s].status = step[s].status /\ step'[s].decision = step[s].decision
                \/ /\ step[s].status = "running" /\ step'[s].status = "interrupted"
                   /\ step'[s].decision = step[s].decision
                \/ step[s].status = "awaiting_approval" /\ step'[s].status = "pending"
    PROVE  RunInv'
<1>1. adv' \in AdvRecord /\ adv'.at = "entered" /\ adv.at = "idle"
  BY AdvRecords DEF Advancing
<1>2. /\ overlap' \in BOOLEAN /\ (~overlap' => ~overlap /\ \A c \in Operators : ~comp[c].active)
  BY Zenon DEF RunInv, TypeOK
<1>3. TypeOK'
  BY <1>1, <1>2, Zenon DEF RunInv, TypeOK, StepRecord, AdvRecord
<1>4. Tracked'
  BY <1>1 DEF RunInv, Tracked, Working
<1>5. Callings'
  BY <1>1, <1>2 DEF RunInv, Callings, Working, Terminal, Advancing
<1>6. Covered'
  BY <1>2 DEF RunInv, Covered, Covers, Due, Descending
<1>7. AttemptsBounded'
  <2> SUFFICES ASSUME NEW s \in Steps
               PROVE  /\ step'[s].attempts <= maxAttempts[s]
                      /\ step'[s].attempts > 0 /\ s \in Gated => step'[s].decision = "approve"
    BY DEF AttemptsBounded
  <2>1. CASE step[s].status = "awaiting_approval"
    BY <2>1, WorkflowConstants DEF RunInv, Tracked
  <2>2. CASE step[s].status # "awaiting_approval"
    BY <2>2 DEF RunInv, AttemptsBounded
  <2> QED
    BY <2>1, <2>2
<1>8. CompletedLeavesNothingOpen'
  BY DEF RunInv, CompletedLeavesNothingOpen
<1>9. EndedRunsAreUndone'
  BY <1>2 DEF RunInv, EndedRunsAreUndone, Terminal
<1> QED
  BY <1>3, <1>4, <1>5, <1>6, <1>7, <1>8, <1>9 DEF RunInv

\* #reconcileInterrupted changes nothing but the status of what was running.
LEMMA ReconciledFields ==
    ASSUME RunInv
    PROVE  /\ Reconciled \in [Steps -> StepRecord]
           /\ \A s \in Steps :
                /\ Reconciled[s].attempts = step[s].attempts
                /\ Reconciled[s].compensation = step[s].compensation
                /\ Reconciled[s].decision = step[s].decision
                /\ Reconciled[s].status =
                     IF step[s].status = "running" THEN "interrupted" ELSE step[s].status
<1>1. step \in [Steps -> StepRecord]
  BY DEF RunInv, TypeOK, StepRecord
<1>2. "interrupted" \in StepStatus
  BY DEF StepStatus
<1>3. \A s \in Steps : LET i == [step[s] EXCEPT !.status = "interrupted"] IN
        /\ i \in StepRecord /\ i.attempts = step[s].attempts
        /\ i.compensation = step[s].compensation /\ i.decision = step[s].decision
        /\ i.status = "interrupted"
  BY <1>1, <1>2, Zenon DEF StepRecord
<1> QED
  BY <1>1, <1>3 DEF Reconciled

\* A call of advance().
LEMMA AdvanceStep ==
    ASSUME RunInv, advance
    PROVE  RunInv'
<1>1. /\ ~Advancing /\ step' = Reconciled /\ adv' = [Idle EXCEPT !.at = "entered"]
      /\ overlap' = (overlap \/ \E c \in Operators : comp[c].active)
      /\ UNCHANGED <<run, comp, crashes>>
  BY Zenon DEF advance
<1> QED
  BY <1>1, ReconciledFields, Begins

\* decideApproval() with an approval: the step is pending again, and the run goes on
\* unless an advance() already drives it.
LEMMA ApproveStep ==
    ASSUME RunInv, NEW s \in Steps, approve(s)
    PROVE  RunInv'
<1> DEFINE decided == [step EXCEPT ![s].status = "pending", ![s].decision = "approve"]
<1>1. /\ step[s].status = "awaiting_approval" /\ UNCHANGED <<run, comp, crashes>>
      /\ \/ Advancing /\ step' = decided /\ UNCHANGED <<adv, overlap>>
         \/ /\ ~Advancing
            /\ step' = [t \in Steps |-> IF t = s THEN decided[s] ELSE Reconciled[t]]
            /\ adv' = [Idle EXCEPT !.at = "entered"]
            /\ overlap' = (overlap \/ \E c \in Operators : comp[c].active)
  BY Zenon DEF approve
<1>2. ChangedAt(decided, s, "pending", step[s].attempts, "approve", step[s].compensation)
  <2>1. step \in [Steps -> StepRecord] /\ "pending" \in StepStatus
    BY DEF RunInv, TypeOK, StepRecord, StepStatus
  <2> QED
    BY <2>1, NewDecision
<1> HIDE DEF decided
<1>3. CASE Advancing /\ step' = decided /\ UNCHANGED <<adv, overlap>>
  <2>1. /\ step' \in [Steps -> StepRecord]
        /\ step'[s].status = "pending" /\ step'[s].attempts = step[s].attempts
        /\ step'[s].compensation = step[s].compensation
        /\ \A t \in Steps \ {s} : step'[t] = step[t]
    BY <1>2, <1>3 DEF ChangedAt
  <2>2. TypeOK'
    BY <1>1, <1>3, <2>1, Zenon DEF RunInv, TypeOK, StepRecord
  <2>3. Tracked'
    BY <1>1, <1>3, <2>1 DEF RunInv, Tracked, Working
  <2>4. Callings'
    BY <1>1, <1>3 DEF RunInv, Callings, Terminal, Advancing
  <2>5. Due(step') = Due(step)
    BY <1>1, <2>1 DEF Due
  <2>6. Covered'
    BY <1>1, <1>3, <2>5 DEF RunInv, Covered, Covers, Descending
  <2>7. AttemptsBounded'
    <3>1. step[s].attempts = 0 /\ maxAttempts[s] \in Nat
      BY <1>1, WorkflowConstants DEF RunInv, Tracked
    <3> QED
      BY <2>1, <3>1 DEF RunInv, AttemptsBounded
  <2>8. CompletedLeavesNothingOpen'
    BY <1>1 DEF RunInv, CompletedLeavesNothingOpen
  <2>9. EndedRunsAreUndone'
    BY <1>1, <1>3, <2>1 DEF RunInv, EndedRunsAreUndone, Terminal
  <2> QED
    BY <2>2, <2>3, <2>4, <2>6, <2>7, <2>8, <2>9 DEF RunInv
<1>4. CASE ~(Advancing /\ step' = decided /\ UNCHANGED <<adv, overlap>>)
  <2>1. /\ step' \in [Steps -> StepRecord]
        /\ step'[s] = decided[s] /\ \A t \in Steps \ {s} : step'[t] = Reconciled[t]
    BY <1>1, <1>2, <1>4, ReconciledFields DEF ChangedAt
  <2> QED
    BY <1>1, <1>2, <1>4, <2>1, ReconciledFields, Begins DEF ChangedAt
<1> QED
  BY <1>3, <1>4

\* With no first step of some statuses there is no step of them.
LEMMA NoneOfThem ==
    ASSUME NEW statuses, FirstOf(statuses) = {}
    PROVE  \A s \in Steps : step[s].status \notin statuses
<1> SUFFICES ASSUME NEW s \in Steps, step[s].status \in statuses
             PROVE  FALSE
  OBVIOUS
<1> DEFINE T == {t \in Steps : step[t].status \in statuses}
<1>1. T \subseteq Nat /\ T # {} /\ T \in SUBSET Steps
  BY WorkflowConstants DEF Steps
<1>2. PICK t \in T : \A u \in T : t <= u
  <2> DEFINE n == Cardinality(T)
             Above(v) == Cardinality({u \in T : u > v})
  <2> HIDE DEF T
  <2>1. /\ n \in Nat \ {0} /\ \A v \in T : Above(v) \in 0..(n - 1)
        /\ \A v, u \in T : v > u => Above(v) < Above(u)
        /\ \A i \in 1..n : \E v \in T : Above(v) = i - 1
    BY <1>1, Ranks
  <2> HIDE DEF n, Above
  <2>2. PICK t \in T : Above(t) = n - 1
    BY <2>1
  <2>3. ASSUME NEW u \in T PROVE ~(t > u)
    BY <2>1, <2>2
  <2> QED
    BY <1>1, <2>3
<1>3. \A u \in 1..(t - 1) : u \in Steps /\ u \notin T
  BY <1>1, <1>2, WorkflowConstants DEF Steps
<1>4. t \in FirstOf(statuses)
  BY <1>2, <1>3 DEF FirstOf
<1> QED
  BY <1>4

\* advance() ends without having changed a step: the run was over, or is completed now.
LEMMA StopStep ==
    ASSUME RunInv, stopTerminal \/ complete
    PROVE  RunInv'
<1>1. /\ adv.at \in {"entered", "loop"} /\ adv' = Idle
      /\ UNCHANGED <<step, comp, crashes, overlap>>
  BY Zenon DEF stopTerminal, complete, InLoop
<1>2. \/ run' = run
      \/ /\ run' = [run EXCEPT !.status = "completed"]
         /\ ~Terminal /\ NextStep = {} /\ FirstOf({"interrupted"}) = {}
  BY Zenon DEF stopTerminal, complete, Proceeds
<1>3. /\ run' \in [status : RunStatus, cancellationRequested : BOOLEAN]
      /\ run' = run \/ run'.status = "completed"
  <2>1. "completed" \in RunStatus
    BY DEF RunStatus, RUN_TERMINAL
  <2> QED
    BY <1>2, <2>1 DEF RunInv, TypeOK
<1>4. adv' \in AdvRecord /\ adv'.at = "idle"
  BY <1>1, AdvRecords
<1>5. TypeOK'
  BY <1>1, <1>3, <1>4, Zenon DEF RunInv, TypeOK, AdvRecord
<1>6. Tracked'
  BY <1>1, <1>4 DEF RunInv, Tracked, Working
<1>7. Callings'
  BY <1>1, <1>3, <1>4 DEF RunInv, Callings, Working, Terminal, Advancing, Callers
<1>8. Covered'
  BY <1>1 DEF RunInv, Covered, Covers, Descending
<1>9. AttemptsBounded'
  BY <1>1 DEF RunInv, AttemptsBounded
<1>10. CompletedLeavesNothingOpen'
  <2>1. CASE run' = run
    BY <1>1, <2>1 DEF RunInv, CompletedLeavesNothingOpen
  <2>2. CASE NextStep = {} /\ FirstOf({"interrupted"}) = {}
    <3>1. \A s \in Steps : step[s].status \notin {"pending", "awaiting_approval"}
      BY <2>2, NoneOfThem DEF NextStep
    <3>2. \A s \in Steps : step[s].status \notin {"interrupted"}
      BY <2>2, NoneOfThem
    <3>3. \A s \in Steps : step[s].status # "running"
      BY <1>1 DEF RunInv, Tracked
    <3> QED
      BY <1>1, <3>1, <3>2, <3>3 DEF CompletedLeavesNothingOpen
  <2> QED
    BY <1>2, <2>1, <2>2
<1>11. EndedRunsAreUndone'
  BY <1>1, <1>3 DEF RunInv, EndedRunsAreUndone, Terminal
<1> QED
  BY <1>5, <1>6, <1>7, <1>8, <1>9, <1>10, <1>11 DEF RunInv

\* advance() suspends the run at a gate.
LEMMA AwaitStep ==
    ASSUME RunInv, NEW s \in Steps, awaitApproval(s)
    PROVE  RunInv'
<1> DEFINE waiting == [step EXCEPT ![s].status = "awaiting_approval"]
<1>1. /\ adv.at \in {"entered", "loop"} /\ adv' = Idle /\ ~Terminal
      /\ s \in FirstOf({"pending", "awaiting_approval"})
      /\ UNCHANGED <<comp, crashes, overlap>>
      /\ \/ UNCHANGED <<run, step>>
         \/ step' = waiting /\ run' = [run EXCEPT !.status = "awaiting_approval"]
  BY Zenon DEF awaitApproval, InLoop, Proceeds, NextStep
<1>2. ChangedAt(waiting, s, "awaiting_approval", step[s].attempts, step[s].decision,
                step[s].compensation)
  <2>1. step \in [Steps -> StepRecord] /\ "awaiting_approval" \in StepStatus
    BY DEF RunInv, TypeOK, StepRecord, StepStatus
  <2> QED
    BY <2>1, NewStatus
<1> HIDE DEF waiting
<1>3. step[s].status \in {"pending", "awaiting_approval"} /\ step[s].compensation # "pending"
  BY <1>1 DEF RunInv, Tracked, FirstOf
<1>4. /\ run' \in [status : RunStatus, cancellationRequested : BOOLEAN]
      /\ run'.status \notin RUN_TERMINAL
  <2>1. "awaiting_approval" \in RunStatus \ RUN_TERMINAL
    BY DEF RunStatus, RUN_TERMINAL
  <2> QED
    BY <1>1, <2>1 DEF RunInv, TypeOK, Terminal
<1>5. /\ step' \in [Steps -> StepRecord]
      /\ \A t \in Steps :
           /\ step'[t].attempts = step[t].attempts /\ step'[t].decision = step[t].decision
           /\ step'[t].compensation = step[t].compensation
           /\ step'[t].status = step[t].status \/ (t = s /\ step'[t].status = "awaiting_approval")
  <2>1. CASE step' = waiting
    BY <1>2, <2>1 DEF ChangedAt
  <2>2. CASE step' = step
    BY <2>2 DEF RunInv, TypeOK, StepRecord
  <2> QED
    BY <1>1, <2>1, <2>2
<1>6. adv' \in AdvRecord /\ adv'.at = "idle"
  BY <1>1, AdvRecords
<1>7. TypeOK'
  BY <1>1, <1>4, <1>5, <1>6, Zenon DEF RunInv, TypeOK, StepRecord, AdvRecord
<1>8. Tracked'
  BY <1>3, <1>5, <1>6 DEF RunInv, Tracked, Working
<1>9. Callings'
  BY <1>1, <1>4, <1>6 DEF RunInv, Callings, Working, Terminal, Advancing, RUN_TERMINAL
<1>10. Covered'
  <2>1. Due(step') = Due(step)
    BY <1>3, <1>5 DEF Due
  <2> QED
    BY <1>1, <2>1 DEF RunInv, Covered, Covers, Descending
<1>11. AttemptsBounded'
  BY <1>5 DEF RunInv, AttemptsBounded
<1>12. CompletedLeavesNothingOpen' /\ EndedRunsAreUndone'
  BY <1>4 DEF CompletedLeavesNothingOpen, EndedRunsAreUndone, Terminal, RUN_TERMINAL
<1> QED
  BY <1>7, <1>8, <1>9, <1>10, <1>11, <1>12 DEF RunInv

\* An attempt begins: the first of a step, or the next one after a failure.
LEMMA AttemptStarts ==
    ASSUME RunInv, NEW s \in Steps, NEW attempt \in Nat, StartAttempt(s, attempt),
           UNCHANGED <<crashes, overlap>>, adv.at \in {"entered", "loop", "backoff"},
           attempt = step[s].attempts + 1, attempt <= maxAttempts[s],
           s \in Gated => step[s].decision = "approve", step[s].status # "completed",
           \A t \in Steps \ {s} : step[t].status # "running"
    PROVE  RunInv'
<1>1. /\ step' = [step EXCEPT ![s].status = "running", ![s].attempts = @ + 1]
      /\ run' = [run EXCEPT !.status = "running"]
      /\ adv' = [at |-> "executing", step |-> s, attempt |-> attempt]
      /\ UNCHANGED comp
  BY Zenon DEF StartAttempt
<1>2. ChangedAt(step', s, "running", attempt, step[s].decision, step[s].compensation)
  <2>1. step \in [Steps -> StepRecord]
    BY DEF RunInv, TypeOK, StepRecord
  <2> QED
    BY <1>1, <2>1, NewAttempt
<1>3. /\ run' \in [status : RunStatus, cancellationRequested : BOOLEAN]
      /\ run'.status \notin RUN_TERMINAL
  <2>1. "running" \in RunStatus \ RUN_TERMINAL
    BY DEF RunStatus, RUN_TERMINAL
  <2> QED
    BY <1>1, <2>1 DEF RunInv, TypeOK
<1>4. adv' \in AdvRecord /\ adv'.at = "executing" /\ adv'.step = s /\ adv'.attempt = attempt
  BY <1>1, WorkflowConstants DEF AdvRecord, Steps
<1>5. step[s].compensation # "pending"
  BY DEF RunInv, Tracked
<1>6. TypeOK'
  BY <1>1, <1>2, <1>3, <1>4, Zenon DEF RunInv, TypeOK, StepRecord, AdvRecord, ChangedAt
<1>7. attempt >= 1
  BY DEF RunInv, TypeOK
<1>8. Tracked'
  BY <1>2, <1>4, <1>5, <1>7 DEF RunInv, Tracked, Working, ChangedAt
<1>9. Callings'
  BY <1>1, <1>3, <1>4 DEF RunInv, Callings, Working, Terminal, Advancing, RUN_TERMINAL
<1>10. Covered'
  <2>1. Due(step') = Due(step)
    BY <1>2, <1>5 DEF Due, ChangedAt
  <2> QED
    BY <1>1, <2>1 DEF RunInv, Covered, Covers, Descending
<1>11. AttemptsBounded'
  BY <1>2 DEF RunInv, AttemptsBounded, ChangedAt
<1>12. CompletedLeavesNothingOpen' /\ EndedRunsAreUndone'
  BY <1>3 DEF CompletedLeavesNothingOpen, EndedRunsAreUndone, Terminal, RUN_TERMINAL
<1> QED
  BY <1>6, <1>8, <1>9, <1>10, <1>11, <1>12 DEF RunInv

\* The first attempt of a step.
LEMMA StartStep ==
    ASSUME RunInv, NEW s \in Steps, startStep(s)
    PROVE  RunInv'
<1>1. /\ StartAttempt(s, 1) /\ adv.at \in {"entered", "loop"} /\ UNCHANGED <<crashes, overlap>>
      /\ s \in FirstOf({"pending", "awaiting_approval"}) /\ ~Blocked(s)
  BY Zenon DEF startStep, InLoop, NextStep
<1>2. step[s].status \in {"pending", "awaiting_approval"} /\ step[s].attempts = 0
  BY <1>1 DEF FirstOf, RunInv, Tracked
<1>3. 1 = step[s].attempts + 1 /\ 1 <= maxAttempts[s]
  BY <1>2, WorkflowConstants
<1>4. s \in Gated => step[s].decision = "approve"
  BY <1>1 DEF Blocked
<1>5. \A t \in Steps : step[t].status # "running"
  BY <1>1 DEF RunInv, Tracked
<1> QED
  BY <1>1, <1>2, <1>3, <1>4, <1>5, AttemptStarts

\* After the delay, the next attempt, or the way back when the run was cancelled.
LEMMA RetryStep ==
    ASSUME RunInv, retry
    PROVE  RunInv'
<1>1. /\ adv.at = "backoff" /\ UNCHANGED <<crashes, overlap>>
      /\ AdvanceCompensates(step, "failed") \/ StartAttempt(adv.step, adv.attempt + 1)
  BY Zenon DEF retry
<1>2. CASE AdvanceCompensates(step, "failed")
  <2>1. step \in [Steps -> StepRecord]
    BY DEF RunInv, TypeOK, StepRecord
  <2> QED
    BY <1>1, <1>2, <2>1, AdvanceTurnsBack DEF Working
<1>3. CASE StartAttempt(adv.step, adv.attempt + 1)
  <2>1. /\ adv.step \in Steps /\ step[adv.step].status = "running"
        /\ adv.attempt = step[adv.step].attempts /\ adv.attempt >= 1
        /\ \A s \in Steps \ {adv.step} : step[s].status # "running"
        /\ adv.attempt < maxAttempts[adv.step]
    BY <1>1 DEF RunInv, Tracked, Working
  <2>2. adv.attempt \in Nat /\ maxAttempts[adv.step] \in Nat
    BY <2>1, WorkflowConstants DEF RunInv, TypeOK
  <2>3. adv.attempt + 1 \in Nat /\ adv.attempt + 1 <= maxAttempts[adv.step]
    BY <2>1, <2>2
  <2>4. adv.step \in Gated => step[adv.step].decision = "approve"
    BY <2>1, <2>2 DEF RunInv, AttemptsBounded
  <2> QED
    BY <1>1, <1>3, <2>1, <2>3, <2>4, AttemptStarts
<1> QED
  BY <1>1, <1>2, <1>3

\* The attempt succeeded.
LEMMA CompletedStep ==
    ASSUME RunInv, stepCompleted
    PROVE  RunInv'
<1> DEFINE s == adv.step
<1>1. /\ adv.at = "executing" /\ UNCHANGED <<run, comp, crashes, overlap>>
      /\ step' = [step EXCEPT ![s].status = "completed",
                              ![s].compensation = IF s \in Compensable THEN "pending" ELSE @]
      /\ adv' = [Idle EXCEPT !.at = "loop"]
  BY Zenon DEF stepCompleted, Executing
<1>2. /\ s \in Steps /\ step[s].status = "running"
      /\ \A t \in Steps \ {s} : step[t].status # "running"
  BY <1>1 DEF RunInv, Tracked, Working
<1> HIDE DEF s
<1>3. ChangedAt(step', s, "completed", step[s].attempts, step[s].decision,
                IF s \in Compensable THEN "pending" ELSE step[s].compensation)
  <2>1. step \in [Steps -> StepRecord]
    BY DEF RunInv, TypeOK, StepRecord
  <2> QED
    BY <1>1, <1>2, <2>1, NewCompleted
<1>4. adv' \in AdvRecord /\ adv'.at = "loop"
  BY <1>1, AdvRecords
<1>5. /\ ~overlap => ~Terminal /\ \A c \in Callers : ~comp[c].active
      /\ run.status # "completed" /\ ~comp[Advance].active
  BY <1>1, <1>2 DEF RunInv, Callings, CompletedLeavesNothingOpen, Working, Advancing, Callers
<1>6. TypeOK'
  BY <1>1, <1>3, <1>4, Zenon DEF RunInv, TypeOK, StepRecord, AdvRecord, ChangedAt
<1>7. Tracked'
  BY <1>2, <1>3, <1>4 DEF RunInv, Tracked, Working, ChangedAt
<1>8. Callings'
  BY <1>1, <1>4, <1>5 DEF RunInv, Callings, Working, Terminal, Advancing, Callers
<1>9. Covered'
  BY <1>1, <1>5 DEF RunInv, Covered, Descending
<1>10. AttemptsBounded'
  BY <1>3 DEF RunInv, AttemptsBounded, ChangedAt
<1>11. CompletedLeavesNothingOpen' /\ EndedRunsAreUndone'
  BY <1>1, <1>5 DEF CompletedLeavesNothingOpen, EndedRunsAreUndone, Terminal
<1> QED
  BY <1>6, <1>7, <1>8, <1>9, <1>10, <1>11 DEF RunInv

\* The attempt failed, with more to come or as the last one.
LEMMA FailedStep ==
    ASSUME RunInv, attemptFailed \/ stepFailed
    PROVE  RunInv'
<1>0. /\ adv.at = "executing" /\ UNCHANGED <<crashes, overlap>>
  BY Zenon DEF attemptFailed, stepFailed, Executing
<1>1. CASE attemptFailed
  <2>1. /\ adv' = [adv EXCEPT !.at = "backoff"] /\ UNCHANGED <<run, step, comp>>
        /\ adv.attempt < maxAttempts[adv.step]
    BY <1>1, Zenon DEF attemptFailed
  <2>2. /\ adv' \in AdvRecord /\ adv'.at = "backoff" /\ adv'.step = adv.step
        /\ adv'.attempt = adv.attempt
    BY <2>1, Zenon DEF RunInv, TypeOK, AdvRecord
  <2>3. TypeOK'
    BY <1>0, <2>1, <2>2, Zenon DEF RunInv, TypeOK, AdvRecord
  <2>4. Tracked'
    BY <1>0, <2>1, <2>2 DEF RunInv, Tracked, Working
  <2>5. Callings'
    BY <1>0, <2>1, <2>2 DEF RunInv, Callings, Working, Terminal, Advancing
  <2>6. Covered' /\ AttemptsBounded' /\ CompletedLeavesNothingOpen' /\ EndedRunsAreUndone'
    BY <1>0, <2>1 DEF RunInv, Covered, Covers, Descending, AttemptsBounded,
       CompletedLeavesNothingOpen, EndedRunsAreUndone, Terminal
  <2> QED
    BY <2>3, <2>4, <2>5, <2>6 DEF RunInv
<1>2. CASE stepFailed
  <2> DEFINE s == adv.step
             steps == [step EXCEPT ![s].status = "failed"]
  <2>1. AdvanceCompensates(steps, "failed")
    BY <1>2, Zenon DEF stepFailed, Failed
  <2>2. s \in Steps /\ step[s].status = "running"
    BY <1>0 DEF RunInv, Tracked, Working
  <2> HIDE DEF s
  <2>3. ChangedAt(steps, s, "failed", step[s].attempts, step[s].decision, step[s].compensation)
    <3>1. step \in [Steps -> StepRecord] /\ "failed" \in StepStatus
      BY DEF RunInv, TypeOK, StepRecord, StepStatus
    <3> QED
      BY <2>2, <3>1, NewStatus
  <2> HIDE DEF steps
  <2> QED
    BY <1>0, <2>1, <2>2, <2>3, AdvanceTurnsBack DEF ChangedAt, Working
<1> QED
  BY <1>1, <1>2

\* advance() sees a cancellation or an interrupted step.
LEMMA StopUndoing ==
    ASSUME RunInv, stopCancelled \/ stopInterrupted
    PROVE  RunInv'
<1>1. /\ adv.at \in {"entered", "loop"} /\ ~Terminal /\ UNCHANGED <<crashes, overlap>>
      /\ AdvanceCompensates(step, "cancelled") \/ AdvanceCompensates(step, "failed")
  BY Zenon DEF stopCancelled, stopInterrupted, InLoop
<1>2. step \in [Steps -> StepRecord]
  BY DEF RunInv, TypeOK, StepRecord
<1> QED
  BY <1>1, <1>2, AdvanceTurnsBack

----------------------------------------------------------------------------
(* The operators' calls, and crashes                                       *)

\* An operator's call ends the run, or undoes what was completed.
LEMMA OperatorTurnsBack ==
    ASSUME RunInv, NEW o \in Operators, NEW terminal \in {"cancelled", "rejected"},
           step' \in [Steps -> StepRecord],
           run' \in [status : RunStatus, cancellationRequested : BOOLEAN],
           toCompensate(step') = <<>> => run'.status = terminal /\ comp' = comp,
           toCompensate(step') # <<>> =>
             /\ run'.status \in {"cancelling", "rejecting"}
             /\ comp' = [comp EXCEPT ![o] = [active |-> TRUE, queue |-> toCompensate(step'),
                                             failed |-> FALSE, terminal |-> terminal]],
           overlap' = (overlap \/ Advancing), UNCHANGED <<adv, crashes>>,
           \A s \in Steps :
             /\ step'[s].attempts = step[s].attempts /\ step'[s].compensation = step[s].compensation
             /\ \/ step'[s].status = step[s].status /\ step'[s].decision = step[s].decision
                \/ /\ step[s].status \in {"pending", "awaiting_approval"}
                   /\ step'[s].status \in {"cancelled", "rejected"}
    PROVE  RunInv'
<1> DEFINE queue == toCompensate(step')
<1>1. /\ queue \in Seq(Steps) /\ Descending(queue)
      /\ \A s \in Due(step') : \E i \in DOMAIN queue : queue[i] = s
      /\ queue = <<>> <=> Due(step') = {}
  BY Queue
<1>2. /\ queue = <<>> => run'.status = terminal /\ comp' = comp
      /\ queue # <<>> =>
           /\ run'.status \in {"cancelling", "rejecting"}
           /\ comp' = [comp EXCEPT ![o] = [active |-> TRUE, queue |-> queue,
                                           failed |-> FALSE, terminal |-> terminal]]
  OBVIOUS
<1> HIDE DEF queue
<1>3. /\ o \in Callers /\ Advance \in Callers /\ o # Advance /\ Operators \subseteq Callers
      /\ comp \in [Callers -> CompRecord]
  BY WorkflowConstants DEF Callers, RunInv, TypeOK, CompRecord
<1>4. /\ comp' \in [Callers -> CompRecord]
      /\ \A c \in Callers \ {o} : comp'[c] = comp[c]
      /\ queue = <<>> => comp'[o] = comp[o]
      /\ queue # <<>> => comp'[o].active /\ comp'[o].queue = queue /\ comp'[o].terminal = terminal
  <2>1. CASE queue = <<>>
    BY <1>2, <1>3, <2>1
  <2>2. CASE queue # <<>>
    <3> DEFINE record == [active |-> TRUE, queue |-> queue, failed |-> FALSE, terminal |-> terminal]
    <3>1. /\ record \in CompRecord /\ record.active /\ record.queue = queue
          /\ record.terminal = terminal
      BY <1>1 DEF CompRecord, RUN_TERMINAL
    <3>2. comp' = [comp EXCEPT ![o] = record]
      BY <1>2, <2>2
    <3> HIDE DEF record
    <3> QED
      BY <1>3, <2>2, <3>1, <3>2
  <2> QED
    BY <2>1, <2>2
<1>5. /\ overlap' \in BOOLEAN /\ (~overlap' => ~overlap /\ adv.at = "idle")
  BY Zenon DEF RunInv, TypeOK, Advancing
<1>6. run'.status # "completed" /\ (queue # <<>> => run'.status \notin RUN_TERMINAL)
  BY <1>2 DEF RUN_TERMINAL
<1>7. Due(step') = Due(step)
  BY DEF Due
<1>8. TypeOK'
  BY <1>4, <1>5, Zenon DEF RunInv, TypeOK, StepRecord, CompRecord
<1>9. Tracked'
  BY DEF RunInv, Tracked, Working
<1>10. Callings'
  BY <1>3, <1>4, <1>5, <1>6 DEF RunInv, Callings, Working, Advancing
<1>11. Covered'
  BY <1>1, <1>3, <1>4, <1>5, <1>7 DEF RunInv, Covered, Covers, Descending
<1>12. AttemptsBounded'
  <2> SUFFICES ASSUME NEW s \in Steps
               PROVE  /\ step'[s].attempts <= maxAttempts[s]
                      /\ step'[s].attempts > 0 /\ s \in Gated => step'[s].decision = "approve"
    BY DEF AttemptsBounded
  <2>1. CASE step[s].status \in {"pending", "awaiting_approval"}
    BY <2>1, WorkflowConstants DEF RunInv, Tracked
  <2>2. CASE step[s].status \notin {"pending", "awaiting_approval"}
    BY <2>2 DEF RunInv, AttemptsBounded
  <2> QED
    BY <2>1, <2>2
<1>13. CompletedLeavesNothingOpen'
  BY <1>6 DEF CompletedLeavesNothingOpen
<1>14. EndedRunsAreUndone'
  BY <1>1, <1>6, <1>9 DEF EndedRunsAreUndone, Terminal, Tracked, Due
<1> QED
  BY <1>8, <1>9, <1>10, <1>11, <1>12, <1>13, <1>14 DEF RunInv

\* The steps cancelRun() leaves: what was not begun is cancelled.
LEMMA CancelledFields ==
    ASSUME RunInv, step' = Cancelled
    PROVE  /\ step' \in [Steps -> StepRecord]
           /\ \A s \in Steps :
                /\ step'[s].attempts = step[s].attempts
                /\ step'[s].compensation = step[s].compensation
                /\ step'[s].decision = step[s].decision
                /\ step'[s].status = IF step[s].status \in {"pending", "awaiting_approval"}
                                     THEN "cancelled" ELSE step[s].status
<1>1. step' = [s \in Steps |-> IF step[s].status \in {"pending", "awaiting_approval"}
                               THEN [step[s] EXCEPT !.status = "cancelled"] ELSE step[s]]
  BY DEF Cancelled
<1>2. step \in [Steps -> StepRecord] /\ "cancelled" \in StepStatus
  BY DEF RunInv, TypeOK, StepRecord, StepStatus
<1>3. \A s \in Steps : LET i == [step[s] EXCEPT !.status = "cancelled"] IN
        /\ i \in StepRecord /\ i.attempts = step[s].attempts
        /\ i.compensation = step[s].compensation /\ i.decision = step[s].decision
        /\ i.status = "cancelled"
  BY <1>2, Zenon DEF StepRecord
<1> QED
  BY <1>1, <1>2, <1>3

\* cancelRun()
LEMMA CancelStep ==
    ASSUME RunInv, NEW o \in Operators, cancelRun(o)
    PROVE  RunInv'
<1> DEFINE queue == toCompensate(step')
<1>1. /\ run' = [status |-> IF queue = <<>> THEN "cancelled" ELSE "cancelling",
                 cancellationRequested |-> TRUE]
      /\ comp' = IF queue = <<>> THEN comp
                 ELSE [comp EXCEPT ![o] = [active |-> TRUE, queue |-> queue,
                                           failed |-> FALSE, terminal |-> "cancelled"]]
      /\ overlap' = (overlap \/ Advancing) /\ UNCHANGED <<adv, crashes>>
      /\ step' = Cancelled
  BY Zenon DEF cancelRun
<1>2. /\ run' \in [status : RunStatus, cancellationRequested : BOOLEAN]
      /\ queue = <<>> => run'.status = "cancelled"
      /\ queue # <<>> => run'.status = "cancelling"
  BY <1>1 DEF RunStatus, RUN_TERMINAL
<1> QED
  BY <1>1, <1>2, CancelledFields, OperatorTurnsBack

\* decideApproval() with a rejection.
LEMMA RejectStep ==
    ASSUME RunInv, NEW s \in Steps, NEW o \in Operators, reject(s, o)
    PROVE  RunInv'
<1> DEFINE queue == toCompensate(step')
<1>1. /\ step' = [step EXCEPT ![s].status = "rejected", ![s].decision = "reject"]
      /\ run' = [run EXCEPT !.status = IF queue = <<>> THEN "rejected" ELSE "rejecting"]
      /\ comp' = IF queue = <<>> THEN comp
                 ELSE [comp EXCEPT ![o] = [active |-> TRUE, queue |-> queue,
                                           failed |-> FALSE, terminal |-> "rejected"]]
      /\ overlap' = (overlap \/ Advancing) /\ UNCHANGED <<adv, crashes>>
      /\ step[s].status = "awaiting_approval"
  BY Zenon DEF reject, Rejected
<1>2. ChangedAt(step', s, "rejected", step[s].attempts, "reject", step[s].compensation)
  <2>1. step \in [Steps -> StepRecord] /\ "rejected" \in StepStatus
    BY DEF RunInv, TypeOK, StepRecord, StepStatus
  <2> QED
    BY <1>1, <2>1, NewDecision
<1>3. /\ run' \in [status : RunStatus, cancellationRequested : BOOLEAN]
      /\ queue = <<>> => run'.status = "rejected"
      /\ queue # <<>> => run'.status = "rejecting"
  <2>1. {"rejected", "rejecting"} \subseteq RunStatus
    BY DEF RunStatus, RUN_TERMINAL
  <2> HIDE DEF queue
  <2> QED
    BY <1>1, <2>1 DEF RunInv, TypeOK
<1> QED
  BY <1>1, <1>2, <1>3, OperatorTurnsBack DEF ChangedAt

\* What the record may say when the process dies: what it said, or one call's own
\* transaction on top of it.
CutShort ==
    /\ step' \in [Steps -> StepRecord]
    /\ run' \in [status : RunStatus, cancellationRequested : BOOLEAN]
    /\ run' = run \/ run'.status \in {"cancelling", "rejecting"}
    /\ \A s \in Steps :
        /\ step'[s].attempts = step[s].attempts
        /\ step'[s].compensation = "pending" => step[s].compensation = "pending"
        /\ \/ step'[s].status = step[s].status
           \/ /\ step'[s].status \in {"failed", "cancelled", "rejected"}
              /\ step[s].compensation # "pending"
        /\ step'[s].decision = step[s].decision \/ step[s].attempts = 0

\* The process dies: the calls are gone, the record is not.
LEMMA DiesStep ==
    ASSUME RunInv, Dies, CutShort
    PROVE  RunInv'
<1>1. /\ adv' = Idle /\ comp' = [c \in Callers |-> NotCompensating]
      /\ UNCHANGED overlap /\ crashes < MaxCrashes /\ crashes' = crashes + 1
  BY Zenon DEF Dies
<1>2. adv' \in AdvRecord /\ adv'.at = "idle"
  BY <1>1, AdvRecords
<1>3. /\ comp' \in [Callers -> CompRecord] /\ Advance \in Callers /\ Operators \subseteq Callers
      /\ \A c \in Callers : ~comp'[c].active /\ comp'[c].terminal = "failed"
  <2>1. /\ NotCompensating \in CompRecord /\ ~NotCompensating.active
        /\ NotCompensating.terminal = "failed"
    BY DEF NotCompensating, CompRecord, RUN_TERMINAL
  <2> QED
    BY <1>1, <2>1 DEF Callers
<1>4. crashes' \in 0..MaxCrashes
  BY <1>1, WorkflowConstants DEF RunInv, TypeOK
<1>5. TypeOK'
  BY <1>1, <1>2, <1>3, <1>4, Zenon DEF RunInv, TypeOK, CutShort, StepRecord, AdvRecord, CompRecord
<1>6. Tracked'
  BY <1>2 DEF RunInv, Tracked, Working, CutShort
<1>7. Callings' /\ Covered'
  BY <1>1, <1>2, <1>3 DEF Callings, Covered, Working, Advancing
<1>8. AttemptsBounded'
  BY DEF RunInv, AttemptsBounded, CutShort
<1>9. CompletedLeavesNothingOpen'
  BY DEF RunInv, CompletedLeavesNothingOpen, CutShort
<1>10. EndedRunsAreUndone'
  BY <1>1 DEF RunInv, EndedRunsAreUndone, Terminal, CutShort, RUN_TERMINAL
<1> QED
  BY <1>5, <1>6, <1>7, <1>8, <1>9, <1>10 DEF RunInv

\* Between two calls.
LEMMA CrashStep ==
    ASSUME RunInv, crash
    PROVE  RunInv'
<1>1. Dies /\ run' = run /\ step' = step
  BY DEF crash
<1>2. CutShort
  BY <1>1 DEF RunInv, TypeOK, CutShort, StepRecord
<1> QED
  BY <1>1, <1>2, DiesStep

\* What a caller undoes next is the last of what is still to be undone.
LEMMA HeadIsLast ==
    ASSUME RunInv, NEW c \in Callers, comp[c].active
    PROVE  /\ Head(comp[c].queue) \in Steps
           /\ ~overlap => \A t \in Due(step) : t <= Head(comp[c].queue)
<1> DEFINE queue == comp[c].queue
<1>1. queue \in Seq(Steps) /\ queue # <<>> /\ Descending(queue) /\ (~overlap => Covers(queue))
  BY DEF RunInv, Covered, TypeOK
<1> HIDE DEF queue
<1>2. /\ Len(queue) \in Nat /\ DOMAIN queue = 1..Len(queue) /\ 1 \in DOMAIN queue
      /\ Head(queue) = queue[1] /\ queue[1] \in Steps
  BY <1>1
<1>3. ASSUME NEW i \in DOMAIN queue PROVE queue[i] <= queue[1]
  <2>1. queue[i] \in Nat /\ queue[1] \in Nat
    BY <1>1, <1>2, WorkflowConstants DEF Steps
  <2> QED
    BY <1>1, <1>2, <2>1 DEF Descending
<1> QED
  BY <1>1, <1>2, <1>3 DEF Covers, queue

\* Between a call's own transaction and the one that would end the run.
LEMMA CrashBeforeFinishStep ==
    ASSUME RunInv, crashBeforeFinish
    PROVE  /\ RunInv'
           /\ \A s \in Steps : step'[s].attempts = step[s].attempts
           /\ ~overlap => \A s, t \in Steps :
                s < t /\ step[s].compensation = "pending" /\ step'[s].compensation # "pending"
                => step[t].compensation # "pending"
<1> DEFINE Backwards ==
             ~overlap => \A s, t \in Steps :
                s < t /\ step[s].compensation = "pending" /\ step'[s].compensation # "pending"
                => step[t].compensation # "pending"
<1>0. /\ step \in [Steps -> StepRecord] /\ {"failed", "cancelled", "rejected"} \subseteq StepStatus
      /\ run \in [status : RunStatus, cancellationRequested : BOOLEAN]
      /\ {"cancelling", "rejecting"} \subseteq RunStatus
      /\ \A s \in Steps : step[s].compensation = "pending" => step[s].status = "completed"
  BY DEF RunInv, TypeOK, StepRecord, StepStatus, RunStatus, Tracked
<1>1. ASSUME adv.at = "executing", step' = Failed, UNCHANGED run
      PROVE  CutShort /\ Backwards
  <2>1. adv.step \in Steps /\ step[adv.step].status = "running"
    BY <1>1 DEF RunInv, Tracked, Working
  <2>2. ChangedAt(step', adv.step, "failed", step[adv.step].attempts, step[adv.step].decision,
                  step[adv.step].compensation)
    BY <1>0, <1>1, <2>1, NewStatus DEF Failed
  <2> QED
    BY <1>0, <1>1, <2>1, <2>2 DEF CutShort, ChangedAt
<1>2. ASSUME NEW c \in Callers, NEW ok \in BOOLEAN, comp[c].active, step' = Undone(c, ok),
             UNCHANGED run
      PROVE  CutShort /\ Backwards
  <2> DEFINE s == Head(comp[c].queue)
             how == IF ok THEN "compensated" ELSE "failed"
  <2>1. s \in Steps /\ (~overlap => \A t \in Due(step) : t <= s)
    BY <1>2, HeadIsLast
  <2>2. step' = [step EXCEPT ![s].compensation = how]
    BY <1>2, Zenon DEF Undone
  <2>3. how \in {"compensated", "failed"}
    OBVIOUS
  <2> HIDE DEF s, how
  <2>4. ChangedAt(step', s, step[s].status, step[s].attempts, step[s].decision, how)
    BY <1>0, <2>1, <2>2, <2>3, NewCompensation
  <2>5. CutShort
    BY <1>0, <1>2, <2>3, <2>4 DEF CutShort, ChangedAt
  <2>6. Backwards
    <3> SUFFICES ASSUME ~overlap, NEW u \in Steps, NEW t \in Steps, u < t,
                        step[u].compensation = "pending", step'[u].compensation # "pending",
                        step[t].compensation = "pending"
                 PROVE  FALSE
      OBVIOUS
    <3>1. u = s
      BY <2>4 DEF ChangedAt
    <3>2. t <= s
      BY <1>0, <2>1 DEF Due
    <3> QED
      BY <3>1, <3>2, WorkflowConstants DEF Steps
  <2> QED
    BY <2>5, <2>6
<1>3. ASSUME step' = Cancelled, run' = [status |-> "cancelling", cancellationRequested |-> TRUE]
      PROVE  CutShort /\ Backwards
  BY <1>0, <1>3, CancelledFields DEF CutShort
<1>4. ASSUME NEW s \in Steps, step[s].status = "awaiting_approval", step' = Rejected(s),
             run' = [run EXCEPT !.status = "rejecting"]
      PROVE  CutShort /\ Backwards
  <2>1. ChangedAt(step', s, "rejected", step[s].attempts, "reject", step[s].compensation)
    BY <1>0, <1>4, NewDecision DEF Rejected
  <2>2. step[s].attempts = 0
    BY <1>4 DEF RunInv, Tracked
  <2> QED
    BY <1>0, <1>4, <2>1, <2>2 DEF CutShort, ChangedAt
<1>5. Dies /\ CutShort /\ Backwards
  BY <1>1, <1>2, <1>3, <1>4, Zenon DEF crashBeforeFinish
<1> QED
  BY <1>5, DiesStep DEF CutShort

----------------------------------------------------------------------------
(* The theorems                                                            *)

\* A new run satisfies the invariant.
LEMMA InitInv == Init => RunInv
<1> SUFFICES ASSUME Init PROVE RunInv
  OBVIOUS
<1>1. /\ run = [status |-> "pending", cancellationRequested |-> FALSE]
      /\ step = [s \in Steps |-> [status |-> "pending", attempts |-> 0, decision |-> "none",
                                  compensation |-> "not_required"]]
      /\ adv = Idle /\ comp = [c \in Callers |-> NotCompensating]
      /\ crashes = 0 /\ overlap = FALSE
  BY DEF Init
<1>2. /\ run \in [status : RunStatus, cancellationRequested : BOOLEAN]
      /\ run.status = "pending" /\ "pending" \notin RUN_TERMINAL
  BY <1>1 DEF RunStatus, RUN_TERMINAL
<1>3. /\ step \in [Steps -> StepRecord]
      /\ \A s \in Steps : /\ step[s].status = "pending" /\ step[s].attempts = 0
                          /\ step[s].compensation = "not_required"
  BY <1>1 DEF StepRecord, StepStatus
<1>4. adv \in AdvRecord /\ adv.at = "idle"
  BY <1>1, AdvRecords
<1>5. /\ comp \in [Callers -> CompRecord] /\ Advance \in Callers /\ Operators \subseteq Callers
      /\ \A c \in Callers : ~comp[c].active /\ comp[c].terminal = "failed"
  <2>1. /\ NotCompensating \in CompRecord /\ ~NotCompensating.active
        /\ NotCompensating.terminal = "failed"
    BY DEF NotCompensating, CompRecord, RUN_TERMINAL
  <2> QED
    BY <1>1, <2>1 DEF Callers
<1>6. TypeOK
  <2>1. crashes \in 0..MaxCrashes
    BY <1>1, WorkflowConstants
  <2>2. overlap \in BOOLEAN
    BY <1>1
  <2> QED
    BY <1>2, <1>3, <1>4, <1>5, <2>1, <2>2, Zenon DEF TypeOK, StepRecord, AdvRecord, CompRecord
<1>7. Tracked /\ Callings /\ Covered
  BY <1>2, <1>3, <1>4, <1>5 DEF Tracked, Callings, Covered, Working, Advancing
<1>8. AttemptsBounded
  BY <1>3, WorkflowConstants DEF AttemptsBounded
<1>9. CompletedLeavesNothingOpen /\ EndedRunsAreUndone
  BY <1>2 DEF CompletedLeavesNothingOpen, EndedRunsAreUndone, Terminal
<1> QED
  BY <1>6, <1>7, <1>8, <1>9 DEF RunInv

\* Every step keeps the invariant.
LEMMA NextInv ==
    ASSUME RunInv, Next
    PROVE  RunInv'
BY AdvanceStep, StopStep, StopUndoing, AwaitStep, StartStep, CompletedStep, FailedStep, RetryStep,
   CompensatedStep, CancelStep, ApproveStep, RejectStep, CrashStep, CrashBeforeFinishStep, Zenon
   DEF Next, AdvanceTurn, CompensationTurn

\* The inductive invariant holds in every reachable state of a run.
THEOREM Invariance == Spec => []RunInv
<1>1. RunInv /\ [Next]_vars => RunInv'
  <2> SUFFICES ASSUME RunInv, [Next]_vars PROVE RunInv'
    OBVIOUS
  <2>1. CASE UNCHANGED vars
    <3>1. TypeOK'
      BY <2>1, Zenon DEF vars, RunInv, TypeOK
    <3>2. Tracked' /\ Callings' /\ Covered'
      BY <2>1 DEF vars, RunInv, Tracked, Callings, Covered, Covers, Due, Descending, Working,
         Advancing, Terminal
    <3>3. AttemptsBounded' /\ CompletedLeavesNothingOpen' /\ EndedRunsAreUndone'
      BY <2>1 DEF vars, RunInv, AttemptsBounded, CompletedLeavesNothingOpen, EndedRunsAreUndone,
         Terminal
    <3> QED
      BY <3>1, <3>2, <3>3 DEF RunInv
  <2> QED
    BY <2>1, NextInv
<1> QED
  BY <1>1, InitInv, PTL DEF Spec

\* The record of a run and the calls in progress keep their types; in particular what
\* toCompensate() makes is a sequence of steps.
THEOREM TypeCorrect == Spec => []TypeOK
<1>1. RunInv => TypeOK
  BY DEF RunInv
<1> QED
  BY <1>1, Invariance, PTL

\* advance(): over all calls and crashes of a run no step is started more often than its
\* retry policy says, and no gated one without its approval.
THEOREM RetriesAreBounded == Spec => []AttemptsBounded
<1>1. RunInv => AttemptsBounded
  BY DEF RunInv
<1> QED
  BY <1>1, Invariance, PTL

\* advance(): a run that says completed left no step open or abandoned.
THEOREM CompletedIsClosed == Spec => []CompletedLeavesNothingOpen
<1>1. RunInv => CompletedLeavesNothingOpen
  BY DEF RunInv
<1> QED
  BY <1>1, Invariance, PTL

\* #compensate: a run that ended otherwise has undone, or failed to undo, every step that
\* can be undone, unless an operator's call and advance() overlapped.
THEOREM EndedIsUndone == Spec => []EndedRunsAreUndone
<1>1. RunInv => EndedRunsAreUndone
  BY DEF RunInv
<1> QED
  BY <1>1, Invariance, PTL

\* Only an attempt that begins counts, which a cancelled run begins none of, and only a
\* compensation that ends changes what is still to be undone.
LEMMA StepEffects ==
    ASSUME RunInv, Next, ~\E c \in Callers : CompensationTurn(c), ~crashBeforeFinish
    PROVE  \A s \in Steps :
             /\ run.cancellationRequested => step'[s].attempts = step[s].attempts
             /\ step[s].compensation = "pending" => step'[s].compensation = "pending"
<1> DEFINE Kept == \A s \in Steps :
                     /\ run.cancellationRequested => step'[s].attempts = step[s].attempts
                     /\ step[s].compensation = "pending" => step'[s].compensation = "pending"
<1>0. /\ step \in [Steps -> StepRecord]
      /\ {"awaiting_approval", "failed", "pending", "rejected"} \subseteq StepStatus
  BY DEF RunInv, TypeOK, StepRecord, StepStatus
<1>1. CASE UNCHANGED step
  BY <1>1
<1>2. CASE \/ crash \/ stopTerminal \/ complete \/ stopCancelled \/ stopInterrupted \/ attemptFailed
  BY <1>1, <1>2, Zenon DEF crash, stopTerminal, complete, stopCancelled, stopInterrupted,
     attemptFailed, AdvanceCompensates, CompensateOrFinish
<1>3. CASE advance
  BY <1>3, ReconciledFields DEF advance
<1>4. ASSUME NEW s \in Steps, awaitApproval(s)
      PROVE  Kept
  <2>1. step' = step \/ step' = [step EXCEPT ![s].status = "awaiting_approval"]
    BY <1>4, Zenon DEF awaitApproval
  <2>2. step' = step
        \/ ChangedAt(step', s, "awaiting_approval", step[s].attempts, step[s].decision,
                     step[s].compensation)
    BY <1>0, <2>1, NewStatus
  <2> QED
    BY <2>2 DEF ChangedAt
<1>5. ASSUME NEW s \in Steps, startStep(s)
      PROVE  Kept
  <2>1. /\ ~run.cancellationRequested
        /\ step' = [step EXCEPT ![s].status = "running", ![s].attempts = @ + 1]
    BY <1>5, Zenon DEF startStep, Proceeds, StartAttempt
  <2>2. ChangedAt(step', s, "running", step[s].attempts + 1, step[s].decision,
                  step[s].compensation)
    BY <1>0, <2>1, NewAttempt
  <2> QED
    BY <2>1, <2>2 DEF ChangedAt
<1>6. CASE stepCompleted
  <2>1. /\ adv.step \in Steps
        /\ step' = [step EXCEPT ![adv.step].status = "completed",
                                ![adv.step].compensation =
                                   IF adv.step \in Compensable THEN "pending" ELSE @]
    BY <1>6 DEF stepCompleted, Executing, RunInv, Tracked, Working
  <2>2. ChangedAt(step', adv.step, "completed", step[adv.step].attempts, step[adv.step].decision,
                  IF adv.step \in Compensable THEN "pending" ELSE step[adv.step].compensation)
    BY <1>0, <2>1, NewCompleted
  <2> QED
    BY <2>2 DEF ChangedAt
<1>7. CASE stepFailed
  <2>1. /\ adv.at = "executing" /\ step' = [step EXCEPT ![adv.step].status = "failed"]
    BY <1>7, Zenon DEF stepFailed, Failed, Executing, AdvanceCompensates, CompensateOrFinish
  <2>2. adv.step \in Steps
    BY <2>1 DEF RunInv, Tracked, Working
  <2>3. ChangedAt(step', adv.step, "failed", step[adv.step].attempts, step[adv.step].decision,
                  step[adv.step].compensation)
    BY <1>0, <2>1, <2>2, NewStatus
  <2> QED
    BY <2>3 DEF ChangedAt
<1>8. CASE retry
  <2>1. /\ adv.at = "backoff"
        /\ \/ step' = step
           \/ /\ ~run.cancellationRequested
              /\ step' = [step EXCEPT ![adv.step].status = "running", ![adv.step].attempts = @ + 1]
    BY <1>8, Zenon DEF retry, RetryCancelled, StartAttempt, AdvanceCompensates, CompensateOrFinish
  <2>2. adv.step \in Steps
    BY <2>1 DEF RunInv, Tracked, Working
  <2>3. step' = step \/ (/\ ~run.cancellationRequested
                         /\ ChangedAt(step', adv.step, "running", step[adv.step].attempts + 1,
                                      step[adv.step].decision, step[adv.step].compensation))
    BY <1>0, <2>1, <2>2, NewAttempt
  <2> QED
    BY <2>3 DEF ChangedAt
<1>9. ASSUME NEW o \in Operators, cancelRun(o)
      PROVE  Kept
  <2>1. step' = Cancelled
    BY <1>9, Zenon DEF cancelRun
  <2> QED
    BY <2>1, CancelledFields
<1>10. ASSUME NEW s \in Steps, approve(s)
       PROVE  Kept
  <2> DEFINE decided == [step EXCEPT ![s].status = "pending", ![s].decision = "approve"]
  <2>1. \/ step' = decided
        \/ step' = [t \in Steps |-> IF t = s THEN decided[s] ELSE Reconciled[t]]
    BY <1>10, Zenon DEF approve
  <2>2. ChangedAt(decided, s, "pending", step[s].attempts, "approve", step[s].compensation)
    BY <1>0, NewDecision
  <2> HIDE DEF decided
  <2> QED
    BY <2>1, <2>2, ReconciledFields DEF ChangedAt
<1>11. ASSUME NEW s \in Steps, NEW o \in Operators, reject(s, o)
       PROVE  Kept
  <2>1. step' = [step EXCEPT ![s].status = "rejected", ![s].decision = "reject"]
    BY <1>11, Zenon DEF reject, Rejected
  <2>2. ChangedAt(step', s, "rejected", step[s].attempts, "reject", step[s].compensation)
    BY <1>0, <2>1, NewDecision
  <2> QED
    BY <2>2 DEF ChangedAt
<1> QED
  BY <1>2, <1>3, <1>4, <1>5, <1>6, <1>7, <1>8, <1>9, <1>10, <1>11, Zenon DEF Next, AdvanceTurn

\* advance(): once cancellation is requested, no attempt of any step is started.
THEOREM CancelledStartsNothing == Spec => NoWorkAfterCancel
<1>1. RunInv /\ [Next]_vars =>
        [run.cancellationRequested => \A s \in Steps : step'[s].attempts = step[s].attempts]_vars
  <2> SUFFICES ASSUME RunInv, Next, run.cancellationRequested
               PROVE  \A s \in Steps : step'[s].attempts = step[s].attempts
    OBVIOUS
  <2>1. CASE \E c \in Callers : CompensationTurn(c)
    BY <2>1, CompensatedStep DEF CompensationTurn
  <2>2. CASE crashBeforeFinish
    BY <2>2, CrashBeforeFinishStep
  <2>3. CASE ~crashBeforeFinish /\ ~\E c \in Callers : CompensationTurn(c)
    BY <2>3, StepEffects
  <2> QED
    BY <2>1, <2>2, <2>3
<1> QED
  BY <1>1, Invariance, PTL DEF Spec, NoWorkAfterCancel

\* #compensate: as long as calls do not overlap, steps are undone last first.
THEOREM UndoingGoesBackwards == Spec => UndoneInReverse
<1>1. RunInv /\ [Next]_vars =>
        [~overlap => \A s, t \in Steps :
           s < t /\ step[s].compensation = "pending" /\ step'[s].compensation # "pending"
           => step[t].compensation # "pending"]_vars
  <2> SUFFICES ASSUME RunInv, Next, ~overlap
               PROVE  \A s, t \in Steps :
                        s < t /\ step[s].compensation = "pending"
                        /\ step'[s].compensation # "pending"
                        => step[t].compensation # "pending"
    OBVIOUS
  <2>1. CASE \E c \in Callers : CompensationTurn(c)
    BY <2>1, CompensatedStep DEF CompensationTurn
  <2>2. CASE crashBeforeFinish
    BY <2>2, CrashBeforeFinishStep
  <2>3. CASE ~crashBeforeFinish /\ ~\E c \in Callers : CompensationTurn(c)
    BY <2>3, StepEffects
  <2> QED
    BY <2>1, <2>2, <2>3
<1> QED
  BY <1>1, Invariance, PTL DEF Spec, UndoneInReverse
=============================================================================
