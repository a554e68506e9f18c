--------------------------- MODULE EventLedger ---------------------------
(***************************************************************************)
(* events.mjs: the causal record of the engine.  Events are accepted into  *)
(* memory and appended to a journal, one JSON object and a newline each;   *)
(* at startup the journal is read back and the digest chain recomputed.    *)
(*                                                                         *)
(* The journal is text.  Its lines are sequences of pieces - whole objects *)
(* and fragments of one - because what is appended after a line that was   *)
(* left without its newline continues that line.  A line parses when it is *)
(* exactly one whole object.                                               *)
(*                                                                         *)
(* A digest covers the event and the digest before it, and identifiers are *)
(* fresh UUIDs, so `prev` (the identifier of the event before) stands for  *)
(* previousDigest and a chain holds when each prev names its predecessor.  *)
(***************************************************************************)
EXTENDS Naturals, Sequences, FiniteSets, Functions

CONSTANTS
    Correlations,   \* the runs events belong to
    Times,          \* values of recordedAtUnix
    Fragment,       \* an incomplete piece of JSON
    MaxEvents, MaxCrashes

GENESIS == 0

NoCause == 0

Ids == 1..MaxEvents

Event == [id : Ids, correlationId : Correlations, causationId : Ids \cup {NoCause},
          recordedAtUnix : Times, prev : Ids \cup {GENESIS}]

ASSUME LedgerConstants ==
    /\ MaxEvents \in Nat /\ MaxCrashes \in Nat /\ Times \subseteq Nat
    /\ Fragment \notin Event

VARIABLES
    status,     \* "up", "down", or "refused": loadFrom threw and the server did not start
    events,     \* #events; while down, what the last process had in memory
    journal,    \* [lines, closed]: the lines, and whether the last one has its newline
    recovered,  \* #recovered: loading dropped a final line
    drafted,    \* identifiers given out so far
    told,       \* history: events whose append() returned to the caller
    faults,     \* history: the kinds of incomplete write that have happened
    crashes     \* how often the process has died

vars == <<status, events, journal, recovered, drafted, told, faults, crashes>>

Pieces == Event \cup {Fragment}

IdsOf(s) == {e.id : e \in Range(s)}

EmptyJournal == [lines |-> <<>>, closed |-> TRUE]

----------------------------------------------------------------------------
(* append()                                                                *)

Caused(draft) ==
    \E cause \in Range(events) :
        /\ cause.id = draft.causationId
        /\ cause.correlationId = draft.correlationId
        /\ cause.recordedAtUnix <= draft.recordedAtUnix

\* append() without the test that a run has one beginning.
AcceptedWithAnyRoot(draft) ==
    \/ draft.causationId = NoCause
    \/ Caused(draft)

\* The refusals of append(): an unknown, foreign or later cause; a second root.
Accepted(draft) ==
    IF draft.causationId # NoCause
    THEN Caused(draft)
    ELSE ~\E e \in Range(events) :
            e.correlationId = draft.correlationId /\ e.causationId = NoCause

LastDigest == IF events = <<>> THEN GENESIS ELSE events[Len(events)].id

\* What reaches the disk of `${JSON}\n`: all of it, all but the newline, some
\* of the object, or nothing.
Writes == {"full", "unterminated", "fragment", "none"}

PieceWritten(event, write) == IF write = "fragment" THEN Fragment ELSE event

\* appendFileSync continues the last line if that has no newline.
journalAfter(event, write) ==
    IF write = "none" THEN journal
    ELSE LET piece == PieceWritten(event, write)
             n == Len(journal.lines)
         IN  [lines |-> IF n = 0 \/ journal.closed
                        THEN Append(journal.lines, <<piece>>)
                        ELSE [journal.lines EXCEPT ![n] = Append(@, piece)],
              closed |-> write = "full"]

\* An event kept without the digest of the one before it.
RecordUnchained(draft, write) ==
    LET event == [f \in DOMAIN draft \ {"prev"} |-> draft[f]]
    IN  /\ status = "up"
        /\ Accepted(draft)
        /\ drafted' = draft.id
        /\ events' = Append(events, event)
        /\ journal' = journalAfter(event, write)

\* In memory first, then on disk; a refused draft changes nothing.
Record(draft, write) ==
    LET event == [draft EXCEPT !.prev = LastDigest]
    IN  /\ status = "up"
        /\ Accepted(draft)
        /\ drafted' = draft.id
        /\ events' = Append(events, event)
        /\ journal' = journalAfter(event, write)

append(draft) ==
    /\ Record(draft, "full")
    /\ told' = told \cup {draft.id}
    /\ UNCHANGED <<status, recovered, faults, crashes>>

\* appendFileSync throws (disk full, I/O error): memory keeps the event.
appendThrows(draft, write) ==
    /\ write # "full"
    /\ Record(draft, write)
    /\ faults' = faults \cup {"threw"}
    /\ UNCHANGED <<status, recovered, told, crashes>>

\* The process is killed while it appends, or after it and before it answers.
crashInAppend(draft, write) ==
    /\ crashes < MaxCrashes
    /\ Record(draft, write)
    /\ status' = "down"
    /\ crashes' = crashes + 1
    /\ faults' = faults \cup {write}
    /\ UNCHANGED <<recovered, told>>

crash ==
    /\ status = "up"
    /\ crashes < MaxCrashes
    /\ status' = "down"
    /\ crashes' = crashes + 1
    /\ UNCHANGED <<events, journal, recovered, drafted, told, faults>>

----------------------------------------------------------------------------
(* loadFrom(), restore() and verify()                                      *)

Parses(line) == Len(line) = 1 /\ line[1] # Fragment

\* verify(): each record names the one before it; restore(): no duplicates.
ChainHolds(records) ==
    /\ \A i \in DOMAIN records :
         records[i].prev = IF i = 1 THEN GENESIS ELSE records[i - 1].id
    /\ \A i, j \in DOMAIN records : records[i].id = records[j].id => i = j

\* Restoring without recomputing the chain.
ChainTrusted(records) == TRUE

restoreAccepts(records) == ChainHolds(records)

Unparsed == {i \in DOMAIN journal.lines : ~Parses(journal.lines[i])}

\* The lines that are kept: all but an unparseable last one.
Kept == IF Unparsed = {} THEN journal.lines
        ELSE SubSeq(journal.lines, 1, Len(journal.lines) - 1)

Records == [i \in DOMAIN Kept |-> Kept[i][1]]

\* Loading that closes a torn line off instead of dropping it, as the comment
\* in loadFrom says its first version did.
CloseTornLine == [lines |-> journal.lines, closed |-> TRUE]

RewrittenJournal == [lines |-> Kept, closed |-> TRUE]

\* JOURNAL_CORRUPT unless only the tail is torn, CHAIN_BROKEN unless it verifies.
Loadable == Unparsed \subseteq {Len(journal.lines)} /\ restoreAccepts(Records)

\* Dropping a torn tail without saying so.
RecoveredSilently == FALSE

RecoveredFlag == Unparsed # {}

loadFrom ==
    /\ status = "down"
    /\ Loadable
    /\ status' = "up"
    /\ events' = Records
    /\ recovered' = RecoveredFlag
    /\ journal' = IF Unparsed = {} THEN journal ELSE RewrittenJournal
    /\ UNCHANGED <<drafted, told, faults, crashes>>

loadRefused ==
    /\ status = "down"
    /\ ~Loadable
    /\ status' = "refused"
    /\ UNCHANGED <<events, journal, recovered, drafted, told, faults, crashes>>

Init ==
    /\ status = "down" /\ events = <<>> /\ journal = EmptyJournal
    /\ recovered = FALSE /\ drafted = 0 /\ told = {} /\ faults = {} /\ crashes = 0

\* A draft carries a fresh identifier; its prev is filled in when accepted.
Drafts ==
    IF drafted = MaxEvents THEN {}
    ELSE {e \in [id : {drafted + 1}, correlationId : Correlations,
                 causationId : Ids \cup {NoCause}, recordedAtUnix : Times,
                 prev : {GENESIS}] : e.causationId <= drafted}

Next ==
    \/ \E draft \in Drafts : append(draft)
    \/ \E draft \in Drafts, write \in Writes : appendThrows(draft, write)
    \/ \E draft \in Drafts, write \in Writes : crashInAppend(draft, write)
    \/ crash
    \/ loadFrom
    \/ loadRefused

Spec == Init /\ [][Next]_vars

----------------------------------------------------------------------------
(* Properties.                                                             *)

TypeOK ==
    /\ status \in {"up", "down", "refused"}
    /\ events \in Seq(Event)
    /\ journal.lines \in Seq(Seq(Pieces)) /\ journal.closed \in BOOLEAN
    /\ recovered \in BOOLEAN
    /\ drafted \in 0..MaxEvents /\ told \subseteq 1..drafted
    /\ faults \subseteq Writes \cup {"threw"}
    /\ crashes \in 0..MaxCrashes

\* What a running ledger answers "why did this happen" from, however often it
\* crashed and was reloaded: the chain holds, every cause is an earlier event
\* of the same run and not a later time, and each run has exactly one
\* beginning (append() checks this, loadFrom() does not check it again).
CausalRecord ==
    status = "up" =>
        /\ ChainHolds(events)
        /\ \A i \in DOMAIN events : events[i].causationId # NoCause =>
             \E j \in 1..(i - 1) :
                 /\ events[j].id = events[i].causationId
                 /\ events[j].correlationId = events[i].correlationId
                 /\ events[j].recordedAtUnix <= events[i].recordedAtUnix
        /\ \A c \in {e.correlationId : e \in Range(events)} :
             Cardinality({i \in DOMAIN events :
                 events[i].correlationId = c /\ events[i].causationId = NoCause}) = 1

\* A restart recovers an initial part of what the last process had recorded
\* and invents, reorders or skips nothing (loadFrom and restore).
RestartRecoversAPrefix ==
    [][status = "down" /\ status' = "up" =>
         /\ Len(events') <= Len(events)
         /\ events' = SubSeq(events, 1, Len(events'))]_vars

\* If a restart loses an event that a caller had been told of, the ledger says
\* that it dropped something ("a ledger that quietly discarded a line would be
\* a chain claiming completeness it does not have", #recovered).
LossIsReported ==
    [][status = "down" /\ status' = "up" /\ ~(IdsOf(events) \cap told \subseteq IdsOf(events'))
         => recovered']_vars

\* As long as every write that was cut short by a crash ended inside the JSON
\* object and no append failed, nothing a caller was told of is lost and the
\* ledger always loads again, also after recovering more than once.
SurvivesTornWrites ==
    faults \subseteq {"full", "fragment", "none"} =>
        /\ status = "up" => told \subseteq IdsOf(events)
        /\ status # "refused"

\* "a caller that has been told an event exists cannot be contradicted by a
\* restart a moment later" (append), whatever part of a write a crash cut off.
ToldEventsSurviveCrashes ==
    "threw" \notin faults /\ status = "up" => told \subseteq IdsOf(events)
============================================================================
