----------------------------- MODULE Executor -----------------------------
(***************************************************************************)
(* executor.mjs: a list of actions is carried out in a shadow of the       *)
(* workspace, each action paid for with a capability token BEFORE its      *)
(* effect, and the shadow is then compared with what the plan declared     *)
(* (shadow.mjs, observe and compare).                                      *)
(*                                                                         *)
(* execute() never yields, so no other call interleaves with it; but the   *)
(* commands it starts take time, the clock runs on while every token is    *)
(* judged at the `nowUnix` the call was given, and the process may die     *)
(* between two actions.                                                    *)
(***************************************************************************)
EXTENDS Capability

CONSTANTS
    Jobs,    \* the calls of execute(): see Job
    Dot,     \* the working directory of a command: a path, never a file
    NoJob

Action == [kind : STRING, path : Paths, name : STRING]

Job == [plan : Plans, actions : Seq(Action), wholeWorkspace : BOOLEAN,
        sandboxEnabled : BOOLEAN, diffMustTouch : SUBSET Paths,
        expectedToPass : SUBSET STRING, expectedToFail : SUBSET STRING]

Files == Paths \ ({Dot} \cup Escaping)

Outcome == [performed : BOOLEAN, operation : STRING, name : STRING, exitZero : BOOLEAN]

\* A call in progress: its arguments, and what it has done so far.
JobState == [call : Jobs, tokens : Seq(Token), nowUnix : Nat, outcomes : Seq(Outcome),
             changed : SUBSET Files, paid : SUBSET (Paths \X OPERATIONS),
             finished : BOOLEAN, ok : BOOLEAN]

ASSUME JobsTyped == Jobs \subseteq Job /\ Dot \in Paths /\ NoJob \notin JobState

VARIABLE job   \* the call in progress, or NoJob

vars == <<capVars, job>>

Running == job # NoJob

CurrentAction == job.call.actions[Len(job.outcomes) + 1]

HasAction == Running /\ ~job.finished /\ Len(job.outcomes) < Len(job.call.actions)

\* The caller hands over a list of tokens; execute() refuses a narrow shadow.
execute(call, tokens) ==
    /\ ~Running
    /\ call.wholeWorkspace
    /\ job' = [call |-> call, tokens |-> tokens, nowUnix |-> now, outcomes |-> <<>>,
               changed |-> {}, paid |-> {}, finished |-> FALSE, ok |-> FALSE]
    /\ UNCHANGED capVars

\* The FIRST token of the plan that names the path and the operation.
tokenFor(action) ==
    LET fits(i) == /\ job.tokens[i].planDigest = Digest[job.call.plan]
                   /\ action.path \in Range(job.tokens[i].paths)
                   /\ action.kind \in Range(job.tokens[i].operations)
    IN  {i \in DOMAIN job.tokens : fits(i) /\ \A j \in 1..(i - 1) : ~fits(j)}

\* Actions that execute() takes up at all on this installation.
Offered(action) ==
    /\ action.kind \in OPERATIONS
    /\ action.kind = "EXECUTE" => job.call.sandboxEnabled

Payable(action) ==
    /\ Offered(action)
    /\ \E i \in tokenFor(action) :
         Spendable(job.tokens[i], action.path, action.kind, job.nowUnix)

Recorded(performed, exitZero) ==
    Append(job.outcomes, [performed |-> performed, operation |-> CurrentAction.kind,
                          name |-> CurrentAction.name, exitZero |-> exitZero])

\* What an action may leave different in the shadow.  A write or deletion may
\* restore the original state or fail half-way, and a command does to the
\* shadow whatever it does.
Touched(action) ==
    CASE action.kind \in {"WRITE", "DELETE"} ->
           {job.changed, job.changed \ {action.path},
            job.changed \cup ({action.path} \cap Files)}
      [] action.kind = "EXECUTE" -> SUBSET Files
      [] OTHER -> {job.changed}

\* The effect before the payment, and the payment refused.
RefuseAfterEffect ==
    /\ HasAction
    /\ ~Payable(CurrentAction)
    /\ \E changed \in Touched(CurrentAction) :
         job' = [job EXCEPT !.outcomes = Recorded(FALSE, FALSE), !.changed = changed]
    /\ UNCHANGED capVars

\* Not offered here, no token of this plan, or the token is refused: the
\* outcome is recorded and nothing else happens.
refuseAction ==
    /\ HasAction
    /\ ~Payable(CurrentAction)
    /\ job' = [job EXCEPT !.outcomes = Recorded(FALSE, FALSE)]
    /\ UNCHANGED capVars

\* Containment, and an envelope for a command, are asked for after the spend.
CanRun(token, action) ==
    /\ action.path \notin Escaping
    /\ action.kind = "EXECUTE" => token.limits # NoLimits

\* The token is spent; then the effect happens, or fails, or is not started.
performAction ==
    /\ HasAction
    /\ Offered(CurrentAction)
    /\ \E i \in tokenFor(CurrentAction), performed, exitZero \in BOOLEAN :
         /\ spend(job.tokens[i], CurrentAction.path, CurrentAction.kind, job.nowUnix)
         /\ performed => CanRun(job.tokens[i], CurrentAction)
         /\ exitZero => performed /\ CurrentAction.kind = "EXECUTE"
         /\ \E changed \in IF CanRun(job.tokens[i], CurrentAction)
                           THEN Touched(CurrentAction) ELSE {job.changed} :
              job' = [job EXCEPT !.outcomes = Recorded(performed, exitZero),
                                 !.changed = changed,
                                 !.paid = @ \cup {<<CurrentAction.path, CurrentAction.kind>>}]

----------------------------------------------------------------------------
(* The comparison: shadow.mjs compare() over what observe() saw.           *)

\* A command that ran contributes a test outcome under its declared name, if
\* it has one ("" stands for none).
Ran == {i \in DOMAIN job.outcomes :
          /\ job.outcomes[i].operation = "EXECUTE" /\ job.outcomes[i].performed
          /\ job.outcomes[i].name # ""}

FirstRunOf(name) ==
    {i \in Ran : job.outcomes[i].name = name
                 /\ \A j \in Ran : job.outcomes[j].name = name => i <= j}

observationIsEmpty == job.changed = {} /\ Ran = {}

\* compare() before declared commands that fail were counted.
CleanIfClaimed ==
    /\ job.changed = job.call.diffMustTouch \cap Files
    /\ \A name \in job.call.expectedToPass :
         \E i \in FirstRunOf(name) : job.outcomes[i].exitZero
    /\ \A name \in job.call.expectedToFail :
         \E i \in FirstRunOf(name) : ~job.outcomes[i].exitZero

compareClean ==
    /\ job.changed = job.call.diffMustTouch \cap Files
    /\ \A name \in job.call.expectedToPass :
         \E i \in FirstRunOf(name) : job.outcomes[i].exitZero
    /\ \A name \in job.call.expectedToFail :
         \E i \in FirstRunOf(name) : ~job.outcomes[i].exitZero
    /\ \A i \in Ran : ~job.outcomes[i].exitZero =>
         job.outcomes[i].name \in job.call.expectedToFail

finish ==
    /\ Running /\ ~job.finished
    /\ ~HasAction
    /\ job' = [job EXCEPT
         !.finished = TRUE,
         !.ok = /\ \A i \in DOMAIN job.outcomes : job.outcomes[i].performed
                /\ ~observationIsEmpty
                /\ compareClean]
    /\ UNCHANGED capVars

\* The result reaches the caller, who discards the shadow.
return ==
    /\ Running /\ job.finished
    /\ job' = NoJob
    /\ UNCHANGED capVars

\* The process dies: the call and its shadow are gone, and with them the registry.
crash == restart /\ job' = NoJob

Init == CapInit /\ job = NoJob

TokenLists == {<<t, u>> : t \in held, u \in held}

\* A call that is not the executor's runs only when execute() is not running.
Next ==
    \/ ~Running /\ CapNext /\ UNCHANGED job
    \/ tick /\ UNCHANGED job
    \/ crash
    \/ \E call \in Jobs, tokens \in TokenLists : execute(call, tokens)
    \/ refuseAction
    \/ performAction
    \/ finish
    \/ return

Spec == Init /\ [][Next]_vars

----------------------------------------------------------------------------

TypeOK == CapTypeOK /\ job \in JobState \cup {NoJob}

\* "A refusal here must mean nothing happened": every file that differs in the
\* shadow was paid for by a write or deletion of that file, or by a command,
\* and the minter let that through (execute() of executor.mjs).
NoEffectWithoutSpend ==
    job # NoJob => \A file \in job.changed : \E p \in job.paid :
        /\ \/ p[1] = file /\ p[2] \in {"WRITE", "DELETE"}
           \/ p[2] = "EXECUTE"
        /\ \E h \in honoured : <<h.path, h.operation>> = p

\* A run reported ok did everything it was asked for and nothing else: each
\* action was paid for and performed, no undeclared file differs, and no
\* command failed that was not declared to (execute() with compare()).
OkMeansAsDeclared ==
    job # NoJob /\ job.ok =>
        /\ \A i \in DOMAIN job.call.actions :
             <<job.call.actions[i].path, job.call.actions[i].kind>> \in job.paid
        /\ job.changed \subseteq job.call.diffMustTouch
        /\ \A i \in DOMAIN job.outcomes :
             /\ job.outcomes[i].performed
             /\ job.outcomes[i].operation = "EXECUTE"
                  /\ job.outcomes[i].name \notin job.call.expectedToFail \cup {""}
                  => job.outcomes[i].exitZero
============================================================================
