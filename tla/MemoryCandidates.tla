-------------------------- MODULE MemoryCandidates -------------------------
(***************************************************************************)
(* memory-service.mjs, promotion of memory records.  promote() reads the   *)
(* record's state, waits for the database, and then updates the record     *)
(* without asking again whether it is still a candidate.  Two people who   *)
(* decide at once both pass the check.                                     *)
(***************************************************************************)
CONSTANTS
    Records,         \* memory records, by signature and cube
    Deciders,        \* people with a decision open at the same time
    Nobody           \* no decision open, or no visibility set by one

Candidate == {"project-candidate", "global-candidate"}

\* The states the column's CHECK admits; "absent" is no row.
Stored == Candidate \cup {"session", "project", "global", "revoked"}

PromotionStates == Stored \cup {"absent"}

Visibilities == {"private", "project", "workspace"}

VARIABLES
    record,          \* [promotionState, visibility] of each record
    written,         \* history: the state each record was inserted with
    deciding,        \* promote() calls between their SELECT and their UPDATE
    crossed          \* history: records with two decisions open at once

memoryVars == <<record, written, deciding, crossed>>

ASSUME MemoryConstants == Nobody \notin Visibilities

MemoryInit ==
    /\ record = [m \in Records |-> [promotionState |-> "absent", visibility |-> "private"]]
    /\ written = [m \in Records |-> "absent"]
    /\ deciding = [o \in Deciders |-> Nobody]
    /\ crossed = {}

\* Every record is written private to its actor, in whatever state the caller names,
\* one that a decision would otherwise lead to included.
write(m, promotionState) ==
    /\ record[m].promotionState = "absent"
    /\ record' = [record EXCEPT ![m] = [promotionState |-> promotionState,
                                        visibility |-> "private"]]
    /\ written' = [written EXCEPT ![m] = promotionState]
    /\ UNCHANGED <<deciding, crossed>>

\* promote()'s table: the state a decision leads to, and the visibility it sets;
\* a rejection leaves the visibility alone.
Transition(decision, state) ==
    IF decision = "reject" THEN [next |-> "revoked", visibility |-> Nobody]
    ELSE IF state = "project-candidate" THEN [next |-> "project", visibility |-> "project"]
    ELSE [next |-> "global", visibility |-> "workspace"]

\* Any record is decided, a candidate or not.
SelectAny(o, m, decision) ==
    /\ deciding[o] = Nobody
    /\ record[m].promotionState # "absent"
    /\ deciding' = [deciding EXCEPT ![o] =
                        [record |-> m, to |-> Transition(decision, record[m].promotionState)]]
    /\ crossed' = IF \E p \in Deciders : deciding[p] # Nobody /\ deciding[p].record = m
                  THEN crossed \cup {m} ELSE crossed
    /\ UNCHANGED <<record, written>>

promoteSelect(o, m, decision) ==
    /\ deciding[o] = Nobody
    /\ record[m].promotionState \in Candidate
    /\ deciding' = [deciding EXCEPT ![o] =
                        [record |-> m, to |-> Transition(decision, record[m].promotionState)]]
    /\ crossed' = IF \E p \in Deciders : deciding[p] # Nobody /\ deciding[p].record = m
                  THEN crossed \cup {m} ELSE crossed
    /\ UNCHANGED <<record, written>>

\* A statement that sets the visibility whatever the decision.
UpdateBoth(o) ==
    /\ deciding[o] # Nobody
    /\ record' = [record EXCEPT ![deciding[o].record] =
                    [promotionState |-> deciding[o].to.next,
                     visibility |-> deciding[o].to.visibility]]
    /\ deciding' = [deciding EXCEPT ![o] = Nobody]
    /\ UNCHANGED <<written, crossed>>

promoteUpdate(o) ==
    /\ deciding[o] # Nobody
    /\ record' = [record EXCEPT ![deciding[o].record] =
                    [promotionState |-> deciding[o].to.next,
                     visibility |-> IF deciding[o].to.visibility = Nobody THEN @.visibility
                                    ELSE deciding[o].to.visibility]]
    /\ deciding' = [deciding EXCEPT ![o] = Nobody]
    /\ UNCHANGED <<written, crossed>>

\* The process, or the connection, ends between the two statements.
MemoryRestart ==
    /\ deciding' = [o \in Deciders |-> Nobody]
    /\ UNCHANGED <<record, written, crossed>>

MemoryNext ==
    \/ \E m \in Records, state \in Stored : write(m, state)
    \/ \E o \in Deciders : promoteUpdate(o)
=============================================================================
