------------------------ MODULE EventLedgerProofs ------------------------
(***************************************************************************)
(* Safety of the engine's event ledger, for any number of events, runs,    *)
(* times and crashes and every way a write can be cut short.               *)
(*                                                                         *)
(* The inductive invariant says how the journal stands to what the process *)
(* has in memory: its first lines are the first events, one each, and the  *)
(* line after them, if there is one, cannot be read back as the next       *)
(* event: it does not parse, or its digest names another predecessor       *)
(* (Copied).  Loading therefore finds a prefix or refuses.                 *)
(***************************************************************************)
EXTENDS EventLedger, FiniteSetTheorems, TLAPS

\* Every run has a beginning at or before each of its events, and one only.
Begun(s) ==
    /\ \A i \in DOMAIN s : \E j \in 1..i : /\ s[j].correlationId = s[i].correlationId
                                           /\ s[j].causationId = NoCause
    /\ \A i, j \in DOMAIN s :
         /\ s[i].causationId = NoCause /\ s[j].causationId = NoCause
         /\ s[i].correlationId = s[j].correlationId
         => i = j

\* Every cause is an earlier event of the same run and not a later time.
Explained(s) ==
    \A i \in DOMAIN s : s[i].causationId # NoCause =>
        \E j \in 1..(i - 1) : /\ s[j].id = s[i].causationId
                              /\ s[j].correlationId = s[i].correlationId
                              /\ s[j].recordedAtUnix <= s[i].recordedAtUnix

Causal(s) == ChainHolds(s) /\ Explained(s) /\ Begun(s)

IdsGivenOut == \A i \in DOMAIN events : events[i].id <= drafted

LinesFilled == \A i \in DOMAIN journal.lines : Len(journal.lines[i]) > 0

\* The first m lines are the first m events.
Exact(m) ==
    /\ m <= Len(journal.lines) /\ m <= Len(events)
    /\ \A i \in 1..m : journal.lines[i] = <<events[i]>>

DigestAfter(m) == IF m = 0 THEN GENESIS ELSE events[m].id

\* The line after the first m cannot be read as the next event.
Breaks(m) ==
    \/ ~Parses(journal.lines[m + 1])
    \/ journal.lines[m + 1][1].prev # DigestAfter(m)

Copied(m) ==
    /\ Exact(m)
    /\ m < Len(journal.lines) => Breaks(m)
    /\ m = Len(journal.lines) => \A i \in (m + 1)..Len(events) : events[i].id \notin told

\* What the journal holds when every write that was cut short ended inside the object.
Whole(m) ==
    /\ Exact(m)
    /\ \A id \in told : \E i \in 1..m : events[i].id = id
    /\ \/ Len(journal.lines) = m /\ journal.closed
       \/ status = "down" /\ Len(journal.lines) = m + 1 /\ journal.lines[m + 1] = <<Fragment>>
    /\ status = "up" => m = Len(events)

OnlyTorn == faults \subseteq {"full", "fragment", "none"}

Recoverable == OnlyTorn => status # "refused" /\ \E m \in Nat : Whole(m)

LedgerInv ==
    /\ TypeOK /\ IdsGivenOut /\ LinesFilled /\ Causal(events)
    /\ \E m \in Nat : Copied(m)
    /\ Recoverable

----------------------------------------------------------------------------
(* Sequences                                                               *)

\* What Append does.
LEMMA AppendFacts ==
    ASSUME NEW S, NEW s \in Seq(S), NEW e \in S
    PROVE  /\ Append(s, e) \in Seq(S) /\ Len(Append(s, e)) = Len(s) + 1 /\ Len(s) \in Nat
           /\ DOMAIN s = 1..Len(s) /\ DOMAIN Append(s, e) = 1..(Len(s) + 1)
           /\ Append(s, e)[Len(s) + 1] = e
           /\ \A i \in 1..Len(s) : s[i] \in S /\ Append(s, e)[i] = s[i]
OBVIOUS

\* t is the first part of s.
FirstOf(t, s) == Len(t) <= Len(s) /\ \A i \in 1..Len(t) : t[i] = s[i]

\* What was causal stays causal when the end is cut off, as loadFrom() may do.
LEMMA PrefixCausal ==
    ASSUME NEW s \in Seq(Event), NEW t \in Seq(Event), FirstOf(t, s), Causal(s)
    PROVE  Causal(t)
<1>1. /\ DOMAIN s = 1..Len(s) /\ DOMAIN t = 1..Len(t) /\ Len(s) \in Nat /\ Len(t) \in Nat
      /\ Len(t) <= Len(s) /\ \A i \in 1..Len(t) : t[i] = s[i]
  BY DEF FirstOf
<1>2. \A i \in DOMAIN t : /\ i \in DOMAIN s /\ t[i] = s[i] /\ i \in Nat
                          /\ \A j \in 1..i : j \in DOMAIN t
                          /\ \A j \in 1..(i - 1) : j \in DOMAIN t
                          /\ i # 1 => i - 1 \in DOMAIN t
  BY <1>1
<1>3. ChainHolds(t)
  BY <1>2 DEF Causal, ChainHolds
<1>4. Explained(t)
  <2> SUFFICES ASSUME NEW i \in DOMAIN t, t[i].causationId # NoCause
               PROVE  \E j \in 1..(i - 1) : /\ t[j].id = t[i].causationId
                                            /\ t[j].correlationId = t[i].correlationId
                                            /\ t[j].recordedAtUnix <= t[i].recordedAtUnix
    BY DEF Explained
  <2>1. PICK j \in 1..(i - 1) : /\ s[j].id = s[i].causationId
                                /\ s[j].correlationId = s[i].correlationId
                                /\ s[j].recordedAtUnix <= s[i].recordedAtUnix
    BY <1>2, Zenon DEF Causal, Explained
  <2>2. t[j] = s[j] /\ t[i] = s[i]
    BY <1>2
  <2> QED
    BY <2>1, <2>2
<1>5. Begun(t)
  <2>1. ASSUME NEW i \in DOMAIN t
        PROVE  \E j \in 1..i : /\ t[j].correlationId = t[i].correlationId
                               /\ t[j].causationId = NoCause
    <3>1. PICK j \in 1..i : /\ s[j].correlationId = s[i].correlationId
                            /\ s[j].causationId = NoCause
      BY <1>2, Zenon DEF Causal, Begun
    <3>2. t[j] = s[j] /\ t[i] = s[i]
      BY <1>2
    <3> QED
      BY <3>1, <3>2
  <2>2. ASSUME NEW i \in DOMAIN t, NEW j \in DOMAIN t,
               t[i].causationId = NoCause, t[j].causationId = NoCause,
               t[i].correlationId = t[j].correlationId
        PROVE  i = j
    BY <1>2, <2>2 DEF Causal, Begun
  <2> QED
    BY <2>1, <2>2 DEF Begun
<1> QED
  BY <1>3, <1>4, <1>5 DEF Causal

\* The tests of append() keep the record causal.
LEMMA AppendCausal ==
    ASSUME TypeOK, IdsGivenOut, Causal(events), NEW draft, NEW event \in Event, Accepted(draft),
           event.id = draft.id, event.causationId = draft.causationId,
           event.correlationId = draft.correlationId, event.recordedAtUnix = draft.recordedAtUnix,
           event.prev = LastDigest, draft.id > drafted
    PROVE  Causal(Append(events, event))
<1> DEFINE n == Len(events)
           longer == Append(events, event)
<1>1. /\ longer \in Seq(Event) /\ Len(longer) = n + 1 /\ n \in Nat
      /\ DOMAIN events = 1..n /\ DOMAIN longer = 1..(n + 1) /\ longer[n + 1] = event
      /\ \A i \in 1..n : events[i] \in Event /\ longer[i] = events[i]
  BY AppendFacts DEF TypeOK
<1>2. \A i \in 1..n : events[i].id \in Nat /\ events[i].id < event.id
  <2>1. drafted \in Nat /\ event.id \in Nat
    BY LedgerConstants DEF TypeOK, Event, Ids
  <2> QED
    BY <1>1, <2>1 DEF IdsGivenOut, Event, Ids
<1>3. event.prev = IF n = 0 THEN GENESIS ELSE events[n].id
  BY <1>1 DEF LastDigest, TypeOK
<1> HIDE DEF longer, n
<1>4. ChainHolds(longer)
  <2>1. ASSUME NEW i \in DOMAIN longer
        PROVE  longer[i].prev = IF i = 1 THEN GENESIS ELSE longer[i - 1].id
    <3>1. CASE i = n + 1
      <4>1. CASE n = 0
        BY <1>1, <1>3, <3>1, <4>1
      <4>2. CASE n # 0
        <5>1. n \in 1..n /\ i - 1 = n /\ i # 1
          BY <1>1, <3>1, <4>2
        <5> QED
          BY <1>1, <1>3, <3>1, <4>2, <5>1
      <4> QED
        BY <4>1, <4>2
    <3>2. CASE i # n + 1
      <4>1. i \in 1..n /\ (i # 1 => i - 1 \in 1..n)
        BY <1>1, <3>2
      <4> QED
        BY <1>1, <4>1 DEF Causal, ChainHolds
    <3> QED
      BY <3>1, <3>2
  <2>2. ASSUME NEW i \in DOMAIN longer, NEW j \in DOMAIN longer, longer[i].id = longer[j].id
        PROVE  i = j
    <3>1. i \in 1..n \/ i = n + 1
      BY <1>1
    <3>2. j \in 1..n \/ j = n + 1
      BY <1>1
    <3>3. event.id \in Nat
      BY LedgerConstants DEF Event, Ids
    <3> QED
      BY <1>1, <1>2, <2>2, <3>1, <3>2, <3>3 DEF Causal, ChainHolds
  <2> QED
    BY <2>1, <2>2 DEF ChainHolds
<1>5. Explained(longer)
  <2> SUFFICES ASSUME NEW i \in DOMAIN longer, longer[i].causationId # NoCause
               PROVE  \E j \in 1..(i - 1) :
                          /\ longer[j].id = longer[i].causationId
                          /\ longer[j].correlationId = longer[i].correlationId
                          /\ longer[j].recordedAtUnix <= longer[i].recordedAtUnix
    BY DEF Explained
  <2>1. CASE i = n + 1
    <3>1. PICK j \in 1..n : /\ events[j].id = draft.causationId
                            /\ events[j].correlationId = draft.correlationId
                            /\ events[j].recordedAtUnix <= draft.recordedAtUnix
      BY <1>1, <2>1 DEF Accepted, Caused, Range
    <3> QED
      BY <1>1, <2>1, <3>1
  <2>2. CASE i # n + 1
    <3>1. i \in 1..n /\ \A j \in 1..(i - 1) : j \in 1..n
      BY <1>1, <2>2
    <3> QED
      BY <1>1, <3>1 DEF Causal, Explained
  <2> QED
    BY <2>1, <2>2
<1>6. Begun(longer)
  <2>1. ASSUME NEW i \in DOMAIN longer
        PROVE  \E j \in 1..i : /\ longer[j].correlationId = longer[i].correlationId
                               /\ longer[j].causationId = NoCause
    <3>1. CASE i = n + 1 /\ event.causationId = NoCause
      BY <1>1, <3>1
    <3>2. CASE i = n + 1 /\ event.causationId # NoCause
      <4>1. PICK k \in 1..n : events[k].correlationId = draft.correlationId
        BY <1>1, <3>2 DEF Accepted, Caused, Range
      <4>2. PICK j \in 1..k : /\ events[j].correlationId = events[k].correlationId
                              /\ events[j].causationId = NoCause
        BY <1>1, <4>1 DEF Causal, Begun
      <4> QED
        BY <1>1, <3>2, <4>1, <4>2
    <3>3. CASE i # n + 1
      <4>1. i \in 1..n /\ \A j \in 1..i : j \in 1..n
        BY <1>1, <3>3
      <4> QED
        BY <1>1, <4>1 DEF Causal, Begun
    <3> QED
      BY <3>1, <3>2, <3>3
  <2>2. ASSUME NEW i \in DOMAIN longer, NEW j \in DOMAIN longer,
               longer[i].causationId = NoCause, longer[j].causationId = NoCause,
               longer[i].correlationId = longer[j].correlationId
        PROVE  i = j
    <3>1. i \in 1..n \/ i = n + 1
      BY <1>1
    <3>2. j \in 1..n \/ j = n + 1
      BY <1>1
    <3>3. event.causationId = NoCause =>
            \A k \in 1..n : ~(/\ events[k].correlationId = event.correlationId
                              /\ events[k].causationId = NoCause)
      BY <1>1 DEF Accepted, Range
    <3> QED
      BY <1>1, <2>2, <3>1, <3>2, <3>3 DEF Causal, Begun
  <2> QED
    BY <2>1, <2>2 DEF Begun
<1> QED
  BY <1>4, <1>5, <1>6 DEF Causal, longer

----------------------------------------------------------------------------
(* append(): memory and journal                                            *)

\* Facts about sequences and records that every step uses.
LEMMA TypeFacts ==
    ASSUME TypeOK
    PROVE  /\ Len(events) \in Nat /\ DOMAIN events = 1..Len(events)
           /\ Len(journal.lines) \in Nat /\ DOMAIN journal.lines = 1..Len(journal.lines)
           /\ \A i \in 1..Len(events) : events[i] \in Event /\ events[i].id \in Nat \ {0}
           /\ \A i \in 1..Len(journal.lines) :
                journal.lines[i] \in Seq(Pieces) /\ Len(journal.lines[i]) \in Nat
           /\ drafted \in Nat /\ MaxEvents \in Nat
<1>1. events \in Seq(Event) /\ journal.lines \in Seq(Seq(Pieces)) /\ drafted \in Nat
  BY LedgerConstants DEF TypeOK
<1>2. \A e \in Event : e.id \in Nat \ {0}
  BY LedgerConstants DEF Event, Ids
<1> QED
  BY <1>1, <1>2, LedgerConstants

\* What append() does to memory.
Recorded(event, write) ==
    /\ status = "up"
    /\ event.id = drafted + 1 /\ event.prev = LastDigest
    /\ drafted' = drafted + 1 /\ drafted + 1 <= MaxEvents
    /\ events' = Append(events, event) /\ Causal(events')
    /\ journal' = journalAfter(event, write)

\* An accepted draft becomes an event that names its predecessor.
LEMMA RecordEffect ==
    ASSUME LedgerInv, NEW draft \in Drafts, NEW write, Record(draft, write)
    PROVE  \E event \in Event : Recorded(event, write)
<1>1. TypeOK /\ IdsGivenOut /\ Causal(events)
  BY DEF LedgerInv
<1>2. drafted # MaxEvents
  BY DEF Drafts
<1>3. draft \in [id : {drafted + 1}, correlationId : Correlations,
                causationId : Ids \cup {NoCause}, recordedAtUnix : Times, prev : {GENESIS}]
  BY <1>2, Zenon DEF Drafts
<1>4. drafted + 1 \in Ids /\ drafted + 1 > drafted /\ drafted + 1 <= MaxEvents
  BY <1>1, <1>2, LedgerConstants DEF TypeOK, Ids
<1>5. LastDigest \in Ids \cup {GENESIS}
  BY <1>1, TypeFacts DEF LastDigest, TypeOK, Event
<1>6. PICK event : event = [draft EXCEPT !.prev = LastDigest]
  OBVIOUS
<1>7. /\ event \in Event /\ event.id = draft.id /\ event.causationId = draft.causationId
      /\ event.correlationId = draft.correlationId
      /\ event.recordedAtUnix = draft.recordedAtUnix /\ event.prev = LastDigest
  <2>1. draft.id \in Ids
    BY <1>3, <1>4
  <2> QED
    BY <1>3, <1>5, <1>6, <2>1, Zenon DEF Event
<1>8. draft.id = drafted + 1
  BY <1>3
<1>9. /\ status = "up" /\ Accepted(draft) /\ drafted' = draft.id
      /\ events' = Append(events, event) /\ journal' = journalAfter(event, write)
  BY <1>6, Zenon DEF Record
<1>10. Causal(events')
  BY <1>1, <1>4, <1>7, <1>8, <1>9, AppendCausal
<1> QED
  BY <1>4, <1>7, <1>8, <1>9, <1>10 DEF Recorded

\* The journal gets a line of its own for the piece, or the piece continues the last one.
NewLine(piece) ==
    /\ Len(journal.lines)' = Len(journal.lines) + 1
    /\ \A i \in 1..Len(journal.lines) : journal'.lines[i] = journal.lines[i]
    /\ journal'.lines[Len(journal.lines) + 1] = <<piece>>

Continued ==
    /\ Len(journal.lines) > 0 /\ Len(journal.lines)' = Len(journal.lines)
    /\ \A i \in 1..(Len(journal.lines) - 1) : journal'.lines[i] = journal.lines[i]
    /\ Len(journal'.lines[Len(journal.lines)]) = Len(journal.lines[Len(journal.lines)]) + 1

\* What appendFileSync does to the journal.
LEMMA JournalEffect ==
    ASSUME TypeOK, NEW event \in Event, NEW write \in Writes, journal' = journalAfter(event, write)
    PROVE  /\ journal'.lines \in Seq(Seq(Pieces)) /\ journal'.closed \in BOOLEAN
           /\ write = "none" => journal' = journal
           /\ write # "none" =>
                /\ journal'.closed = (write = "full")
                /\ IF Len(journal.lines) = 0 \/ journal.closed
                   THEN NewLine(PieceWritten(event, write)) ELSE Continued
<1> DEFINE n == Len(journal.lines)
           piece == PieceWritten(event, write)
<1>1. /\ n \in Nat /\ journal.lines \in Seq(Seq(Pieces)) /\ journal.closed \in BOOLEAN
      /\ piece \in Pieces
  BY DEF TypeOK, Pieces, PieceWritten
<1>2. CASE write = "none"
  BY <1>1, <1>2 DEF journalAfter
<1>3. CASE write # "none" /\ (n = 0 \/ journal.closed)
  <2>1. /\ journal'.lines = Append(journal.lines, <<piece>>)
        /\ journal'.closed = (write = "full")
    BY <1>3 DEF journalAfter
  <2>2. <<piece>> \in Seq(Pieces)
    BY <1>1
  <2> HIDE DEF piece
  <2>3. journal'.lines \in Seq(Seq(Pieces)) /\ NewLine(piece)
    BY <1>1, <2>1, <2>2 DEF NewLine
  <2> QED
    BY <1>3, <2>1, <2>3 DEF piece
<1>4. CASE write # "none" /\ ~(n = 0 \/ journal.closed)
  <2>1. /\ journal'.lines = [journal.lines EXCEPT ![n] = Append(journal.lines[n], piece)]
        /\ journal'.closed = (write = "full")
    BY <1>4 DEF journalAfter
  <2>2. n \in 1..n /\ journal.lines[n] \in Seq(Pieces) /\ n \in DOMAIN journal.lines
    BY <1>1, <1>4
  <2>3. /\ Append(journal.lines[n], piece) \in Seq(Pieces)
        /\ Len(Append(journal.lines[n], piece)) = Len(journal.lines[n]) + 1
    BY <1>1, <2>2
  <2> HIDE DEF piece
  <2>4. journal'.lines \in Seq(Seq(Pieces)) /\ Len(journal'.lines) = n
    BY <1>1, <2>1, <2>2, <2>3
  <2>5. /\ \A i \in 1..(n - 1) : journal'.lines[i] = journal.lines[i]
        /\ journal'.lines[n] = Append(journal.lines[n], piece)
    BY <1>1, <2>1, <2>2
  <2>6. Continued
    BY <1>1, <1>4, <2>3, <2>4, <2>5 DEF Continued
  <2> QED
    BY <1>4, <2>1, <2>4, <2>6
<1> QED
  BY <1>2, <1>3, <1>4

\* After an append the journal still starts with the first events and then breaks:
\* also when it continues a torn line, or follows an event that never reached the disk.
LEMMA AppendCopies ==
    ASSUME LedgerInv, NEW event \in Event, NEW write \in Writes, Recorded(event, write),
           told' = told \/ (write = "full" /\ told' = told \cup {event.id})
    PROVE  \E m \in Nat : Copied(m)'
<1> DEFINE n == Len(journal.lines)
           N == Len(events)
           piece == PieceWritten(event, write)
<1>1. TypeOK /\ LinesFilled /\ Causal(events)
  BY DEF LedgerInv
<1>2. /\ n \in Nat /\ N \in Nat /\ DOMAIN journal.lines = 1..n /\ DOMAIN events = 1..N
      /\ \A i \in 1..N : events[i].id \in Nat \ {0}
      /\ \A i \in 1..n : Len(journal.lines[i]) \in Nat /\ Len(journal.lines[i]) > 0
  BY <1>1, TypeFacts DEF LinesFilled
<1>3. /\ Len(events') = N + 1 /\ events'[N + 1] = event
      /\ \A i \in 1..N : events'[i] = events[i]
  BY <1>1, AppendFacts DEF Recorded, TypeOK
<1>4. PICK m \in Nat : Copied(m)
  BY DEF LedgerInv
<1>5. /\ m <= n /\ m <= N /\ \A i \in 1..m : journal.lines[i] = <<events[i]>>
      /\ m < n => Breaks(m)
      /\ m = n => \A i \in (m + 1)..N : events[i].id \notin told
  BY <1>4 DEF Copied, Exact
<1>6. DigestAfter(m)' = DigestAfter(m)
  BY <1>2, <1>3, <1>5 DEF DigestAfter
<1>7. \A i \in 1..m : <<events[i]>> = <<events'[i]>>
  BY <1>2, <1>3, <1>5
<1>8. event.id \notin told
  BY <1>1 DEF TypeOK, Recorded
<1>9. /\ write = "none" => journal' = journal
      /\ write # "none" => IF n = 0 \/ journal.closed THEN NewLine(piece) ELSE Continued
  BY <1>1, JournalEffect DEF Recorded
<1> HIDE DEF n, N, piece
<1>10. CASE write = "none"
  <2>1. journal' = journal /\ told' = told
    BY <1>9, <1>10
  <2>2. Exact(m)'
    BY <1>2, <1>3, <1>5, <1>7, <2>1 DEF Exact, n
  <2>3. m < n => Breaks(m)'
    BY <1>5, <1>6, <2>1 DEF Breaks, Parses
  <2>4. m = n => \A i \in (m + 1)..Len(events') : events'[i].id \notin told'
    BY <1>2, <1>3, <1>5, <1>8, <2>1
  <2> QED
    BY <2>1, <2>2, <2>3, <2>4 DEF Copied, n
<1>11. CASE write # "none" /\ NewLine(piece)
  <2>1. /\ Len(journal.lines)' = n + 1 /\ journal'.lines[n + 1] = <<piece>>
        /\ \A i \in 1..n : journal'.lines[i] = journal.lines[i]
    BY <1>11 DEF NewLine, n
  <2>2. Exact(m)'
    <3>1. m <= n + 1 /\ m <= N + 1 /\ \A i \in 1..m : i \in 1..n
      BY <1>2, <1>5
    <3>2. \A i \in 1..m : journal'.lines[i] = <<events'[i]>>
      BY <1>5, <1>7, <2>1, <3>1
    <3> QED
      BY <1>3, <2>1, <3>1, <3>2 DEF Exact
  <2>3. CASE m < n
    <3>1. m + 1 \in 1..n /\ m < n + 1
      BY <1>2, <2>3
    <3>2. Breaks(m)'
      BY <1>5, <1>6, <2>1, <2>3, <3>1 DEF Breaks, Parses
    <3> QED
      BY <1>2, <2>1, <2>2, <3>1, <3>2 DEF Copied
  <2>4. CASE m = n /\ write = "fragment"
    <3>1. Breaks(m)'
      BY <2>1, <2>4 DEF Breaks, Parses, PieceWritten, piece
    <3> QED
      BY <1>2, <2>1, <2>2, <2>4, <3>1 DEF Copied
  <2>5. CASE m = n /\ write # "fragment" /\ n = N
    <3>1. piece = event
      BY <2>5 DEF piece, PieceWritten
    <3>2. \A i \in 1..(m + 1) : journal'.lines[i] = <<events'[i]>>
      BY <1>2, <1>3, <1>5, <1>7, <2>1, <2>5, <3>1
    <3>3. Exact(m + 1)'
      BY <1>2, <1>3, <2>1, <2>5, <3>2 DEF Exact
    <3>4. Copied(m + 1)'
      BY <1>2, <1>3, <2>1, <2>5, <3>3 DEF Copied
    <3> QED
      BY <3>4
  <2>6. CASE m = n /\ write # "fragment" /\ n # N
    <3>1. piece = event
      BY <2>6 DEF piece, PieceWritten
    <3>2. N \in 1..N /\ m < N
      BY <1>2, <1>5, <2>6
    <3>3. event.prev = events[N].id
      BY <1>2, <3>2 DEF Recorded, LastDigest, N
    <3>4. event.prev # DigestAfter(m)
      <4>1. CASE m = 0
        BY <1>2, <3>2, <3>3, <4>1 DEF DigestAfter, GENESIS
      <4>2. CASE m # 0
        <5>1. m \in DOMAIN events /\ N \in DOMAIN events /\ m # N
          BY <1>2, <3>2, <4>2
        <5> QED
          BY <1>1, <3>3, <4>2, <5>1 DEF DigestAfter, Causal, ChainHolds
      <4> QED
        BY <4>1, <4>2
    <3>5. Breaks(m)'
      BY <1>6, <2>1, <2>6, <3>1, <3>4 DEF Breaks
    <3> QED
      BY <1>2, <2>1, <2>2, <2>6, <3>5 DEF Copied
  <2> QED
    BY <1>5, <1>2, <2>3, <2>4, <2>5, <2>6
<1>12. CASE write # "none" /\ Continued
  <2>1. /\ n > 0 /\ Len(journal.lines)' = n
        /\ \A i \in 1..(n - 1) : journal'.lines[i] = journal.lines[i]
        /\ Len(journal'.lines[n]) = Len(journal.lines[n]) + 1
    BY <1>12 DEF Continued, n
  <2>2. ~Parses(journal'.lines[n])
    BY <1>2, <2>1 DEF Parses
  <2>3. CASE m < n
    <3>1. Exact(m)'
      BY <1>2, <1>3, <1>5, <1>7, <2>1, <2>3 DEF Exact
    <3>2. Breaks(m)'
      <4>1. CASE m + 1 = n
        BY <2>2, <4>1 DEF Breaks, Parses
      <4>2. CASE m + 1 # n
        <5>1. m + 1 \in 1..(n - 1)
          BY <1>2, <2>3, <4>2
        <5> QED
          BY <1>5, <1>6, <2>1, <2>3, <5>1 DEF Breaks, Parses
      <4> QED
        BY <4>1, <4>2
    <3> QED
      BY <1>2, <2>1, <2>3, <3>1, <3>2 DEF Copied
  <2>4. CASE m = n
    <3>1. PICK k \in Nat : k = n - 1
      BY <1>2, <2>1
    <3>2. Exact(k)'
      BY <1>2, <1>3, <1>5, <1>7, <2>1, <2>4, <3>1 DEF Exact
    <3>3. k + 1 = n /\ k < n
      BY <1>2, <3>1
    <3>4. Breaks(k)'
      BY <2>2, <3>3 DEF Breaks, Parses
    <3> QED
      BY <1>2, <2>1, <3>2, <3>3, <3>4 DEF Copied
  <2> QED
    BY <1>2, <1>5, <2>3, <2>4
<1> QED
  BY <1>9, <1>10, <1>11, <1>12

\* A write that a crash cuts short inside the object leaves at most a torn last line.
LEMMA AppendWhole ==
    ASSUME LedgerInv, OnlyTorn, NEW event \in Event,
           NEW write \in {"full", "fragment", "none"}, Recorded(event, write),
           told' = told \/ (write = "full" /\ told' = told \cup {event.id}),
           status' = "down" \/ (status' = "up" /\ write = "full")
    PROVE  \E m \in Nat : Whole(m)'
<1>1. TypeOK /\ write \in Writes
  BY DEF LedgerInv, Writes
<1>2. PICK m \in Nat : Whole(m)
  BY DEF LedgerInv, Recoverable
<1>3. /\ m = Len(events) /\ m = Len(journal.lines) /\ journal.closed
      /\ \A i \in 1..m : journal.lines[i] = <<events[i]>>
      /\ \A id \in told : \E i \in 1..m : events[i].id = id
  BY <1>2 DEF Whole, Exact, Recorded
<1>4. /\ Len(events') = m + 1 /\ events'[m + 1] = event
      /\ \A i \in 1..m : events'[i] = events[i] /\ <<events'[i]>> = <<events[i]>>
  <2>1. events' = Append(events, event) /\ events \in Seq(Event)
    BY <1>1 DEF Recorded, TypeOK
  <2>2. /\ Len(events') = Len(events) + 1 /\ events'[Len(events) + 1] = event
        /\ \A i \in 1..Len(events) : events'[i] = events[i]
    BY <2>1, AppendFacts
  <2>3. m = Len(events)
    BY <1>3
  <2> QED
    BY <2>2, <2>3
<1>5. /\ write = "none" => journal' = journal
      /\ write # "none" => /\ journal'.closed = (write = "full")
                           /\ NewLine(PieceWritten(event, write))
  BY <1>1, <1>3, JournalEffect DEF Recorded
<1>6. CASE write = "none"
  <2>1. journal' = journal /\ told' = told /\ status' = "down"
    BY <1>5, <1>6
  <2>2. Exact(m)'
    BY <1>3, <1>4, <2>1 DEF Exact
  <2>3. \A id \in told' : \E i \in 1..m : events'[i].id = id
    BY <1>3, <1>4, <2>1
  <2> QED
    BY <1>3, <2>1, <2>2, <2>3 DEF Whole
<1>7. CASE write = "fragment"
  <2>1. /\ Len(journal'.lines) = m + 1 /\ journal'.lines[m + 1] = <<Fragment>>
        /\ \A i \in 1..m : journal'.lines[i] = journal.lines[i]
    BY <1>3, <1>5, <1>7 DEF NewLine, PieceWritten
  <2>2. told' = told /\ status' = "down"
    BY <1>7
  <2>3. Exact(m)'
    BY <1>3, <1>4, <2>1 DEF Exact
  <2>4. \A id \in told' : \E i \in 1..m : events'[i].id = id
    BY <1>3, <1>4, <2>2
  <2> QED
    BY <2>1, <2>2, <2>3, <2>4 DEF Whole
<1>8. CASE write = "full"
  <2>1. /\ Len(journal'.lines) = m + 1 /\ journal'.lines[m + 1] = <<event>>
        /\ \A i \in 1..m : journal'.lines[i] = journal.lines[i]
        /\ journal'.closed
    BY <1>3, <1>5, <1>8 DEF NewLine, PieceWritten
  <2>2. \A i \in 1..(m + 1) : journal'.lines[i] = <<events'[i]>>
    <3> TAKE i \in 1..(m + 1)
    <3>1. i \in 1..m \/ i = m + 1
      OBVIOUS
    <3> QED
      BY <1>3, <1>4, <2>1, <3>1
  <2>3. Exact(m + 1)'
    BY <1>4, <2>1, <2>2 DEF Exact
  <2>4. \A id \in told' : \E i \in 1..(m + 1) : events'[i].id = id
    BY <1>3, <1>4
  <2>5. Whole(m + 1)'
    BY <1>4, <2>1, <2>3, <2>4 DEF Whole
  <2> QED
    BY <2>5
<1> QED
  BY <1>6, <1>7, <1>8

\* An append, answered or not, keeps everything but what only torn writes leave.
LEMMA RecordKeepsInv ==
    ASSUME LedgerInv, NEW event \in Event, NEW write \in Writes, Recorded(event, write),
           told' = told \/ (write = "full" /\ told' = told \cup {event.id}),
           status' \in {"up", "down"}, recovered' = recovered,
           faults' \subseteq Writes \cup {"threw"}, crashes' \in 0..MaxCrashes,
           OnlyTorn' => \E m \in Nat : Whole(m)'
    PROVE  LedgerInv'
<1>1. TypeOK /\ IdsGivenOut /\ LinesFilled
  BY DEF LedgerInv
<1>2. /\ events' \in Seq(Event) /\ Len(events') = Len(events) + 1 /\ Len(events) \in Nat
      /\ DOMAIN events = 1..Len(events) /\ DOMAIN events' = 1..(Len(events) + 1)
      /\ events'[Len(events) + 1] = event
      /\ \A i \in 1..Len(events) : events'[i] = events[i] /\ events[i].id \in Nat
  BY <1>1, AppendFacts, TypeFacts DEF Recorded, TypeOK
<1>3. /\ drafted \in Nat /\ event.id = drafted + 1 /\ drafted' = drafted + 1
      /\ drafted' \in 0..MaxEvents
  BY <1>1, TypeFacts DEF Recorded
<1>4. told' \subseteq 1..drafted'
  <2>1. told \subseteq 1..drafted
    BY <1>1 DEF TypeOK
  <2>2. told' \subseteq told \cup {drafted + 1}
    BY <1>3
  <2> QED
    BY <1>3, <2>1, <2>2
<1>5. journal'.lines \in Seq(Seq(Pieces)) /\ journal'.closed \in BOOLEAN
  BY <1>1, JournalEffect DEF Recorded
<1>6. TypeOK'
  <2>1. status' \in {"up", "down", "refused"} /\ recovered' \in BOOLEAN
    BY <1>1 DEF TypeOK
  <2> QED
    BY <1>2, <1>3, <1>4, <1>5, <2>1 DEF TypeOK
<1>7. IdsGivenOut'
  BY <1>1, <1>2, <1>3 DEF IdsGivenOut
<1>8. LinesFilled'
  <2> DEFINE n == Len(journal.lines)
  <2>1. /\ n \in Nat /\ DOMAIN journal.lines = 1..n
        /\ \A i \in 1..n : Len(journal.lines[i]) \in Nat /\ Len(journal.lines[i]) > 0
    BY <1>1, TypeFacts DEF LinesFilled
  <2>2. DOMAIN journal'.lines = 1..Len(journal'.lines)
    BY <1>5
  <2>3. \/ journal' = journal
        \/ NewLine(PieceWritten(event, write))
        \/ Continued
    BY <1>1, JournalEffect DEF Recorded
  <2> HIDE DEF n
  <2>4. CASE journal' = journal
    BY <1>1, <2>4 DEF LinesFilled
  <2>5. CASE NewLine(PieceWritten(event, write))
    <3>1. /\ Len(journal'.lines) = n + 1 /\ Len(journal'.lines[n + 1]) = 1
          /\ \A i \in 1..n : journal'.lines[i] = journal.lines[i]
      BY <2>5 DEF NewLine, n
    <3> SUFFICES ASSUME NEW i \in 1..(n + 1)
                 PROVE  Len(journal'.lines[i]) > 0
      BY <2>2, <3>1 DEF LinesFilled
    <3>2. CASE i \in 1..n
      <4>1. Len(journal.lines[i]) > 0 /\ journal'.lines[i] = journal.lines[i]
        BY <2>1, <3>1, <3>2
      <4> QED
        BY <4>1, Zenon
    <3>3. CASE i = n + 1
      <4>1. Len(journal'.lines[i]) = 1
        BY <3>1, <3>3, Zenon
      <4> QED
        BY <4>1
    <3> QED
      BY <2>1, <3>2, <3>3
  <2>6. CASE Continued
    <3>1. /\ Len(journal'.lines) = n /\ n > 0
          /\ Len(journal'.lines[n]) = Len(journal.lines[n]) + 1
          /\ \A i \in 1..(n - 1) : journal'.lines[i] = journal.lines[i]
      BY <2>6 DEF Continued, n
    <3> SUFFICES ASSUME NEW i \in 1..n
                 PROVE  Len(journal'.lines[i]) > 0
      BY <2>2, <3>1 DEF LinesFilled
    <3>2. i \in 1..(n - 1) \/ i = n
      BY <2>1
    <3> QED
      BY <2>1, <3>1, <3>2
  <2> QED
    BY <2>3, <2>4, <2>5, <2>6
<1>9. Causal(events)' /\ \E m \in Nat : Copied(m)'
  BY AppendCopies DEF Recorded
<1>10. Recoverable'
  BY DEF Recoverable
<1> QED
  BY <1>6, <1>7, <1>8, <1>9, <1>10 DEF LedgerInv

\* append(), its failures and the crashes during it.
LEMMA AppendKeepsInv ==
    ASSUME LedgerInv, NEW draft \in Drafts, NEW write \in Writes,
           append(draft) \/ appendThrows(draft, write) \/ crashInAppend(draft, write)
    PROVE  LedgerInv'
<1>1. /\ faults \subseteq Writes \cup {"threw"} /\ crashes \in 0..MaxCrashes
      /\ MaxCrashes \in Nat
  BY LedgerConstants DEF LedgerInv, TypeOK
<1>2. CASE append(draft)
  <2>1. "full" \in Writes /\ "full" \in {"full", "fragment", "none"}
    BY DEF Writes
  <2>2. PICK event \in Event : Recorded(event, "full") /\ event.id = draft.id
    <3>1. draft.id = drafted + 1
      <4>1. draft \in [id : {drafted + 1}, correlationId : Correlations,
                      causationId : Ids \cup {NoCause}, recordedAtUnix : Times, prev : {GENESIS}]
        BY Zenon DEF Drafts
      <4> QED
        BY <4>1
    <3>2. Record(draft, "full")
      BY <1>2 DEF append
    <3> QED
      BY <3>1, <3>2, RecordEffect DEF Recorded
  <2>3. /\ told' = told \cup {event.id} /\ status' = "up" /\ recovered' = recovered
        /\ faults' = faults /\ crashes' = crashes
    BY <1>2, <2>2 DEF append, Recorded
  <2>4. OnlyTorn' => \E m \in Nat : Whole(m)'
    BY <2>1, <2>2, <2>3, AppendWhole DEF OnlyTorn
  <2> QED
    BY <1>1, <2>1, <2>2, <2>3, <2>4, RecordKeepsInv
<1>3. CASE appendThrows(draft, write)
  <2>1. PICK event \in Event : Recorded(event, write)
    BY <1>3, RecordEffect DEF appendThrows
  <2>2. /\ told' = told /\ status' = "up" /\ recovered' = recovered
        /\ faults' = faults \cup {"threw"} /\ crashes' = crashes
    BY <1>3, <2>1 DEF appendThrows, Recorded
  <2>3. ~OnlyTorn'
    BY <2>2 DEF OnlyTorn
  <2> QED
    BY <1>1, <2>1, <2>2, <2>3, RecordKeepsInv
<1>4. CASE crashInAppend(draft, write)
  <2>1. PICK event \in Event : Recorded(event, write)
    BY <1>4, RecordEffect DEF crashInAppend
  <2>2. /\ told' = told /\ status' = "down" /\ recovered' = recovered
        /\ faults' = faults \cup {write}
    BY <1>4 DEF crashInAppend
  <2>3. crashes' \in 0..MaxCrashes
    BY <1>1, <1>4 DEF crashInAppend
  <2>4. OnlyTorn' => \E m \in Nat : Whole(m)'
    <3>1. OnlyTorn' => OnlyTorn /\ write \in {"full", "fragment", "none"}
      BY <2>2 DEF OnlyTorn
    <3> QED
      BY <2>1, <2>2, <3>1, AppendWhole
  <2>5. faults' \subseteq Writes \cup {"threw"}
    BY <1>1, <2>2
  <2> QED
    BY <2>1, <2>2, <2>3, <2>4, <2>5, RecordKeepsInv
<1> QED
  BY <1>2, <1>3, <1>4

----------------------------------------------------------------------------
(* loadFrom(): what is read back                                           *)

\* The lines that are kept are those of the journal, but for a last one.
LEMMA KeptFacts ==
    ASSUME TypeOK
    PROVE  LET n == Len(journal.lines)
               k == IF Unparsed = {} THEN n ELSE n - 1
           IN  /\ n \in Nat /\ k \in Nat /\ k <= n /\ Unparsed \subseteq 1..n
               /\ Kept \in Seq(Seq(Pieces)) /\ Len(Kept) = k /\ DOMAIN Kept = 1..k
               /\ \A i \in 1..k : Kept[i] = journal.lines[i]
               /\ Records = [i \in 1..k |-> journal.lines[i][1]]
<1> DEFINE n == Len(journal.lines)
           k == IF Unparsed = {} THEN n ELSE n - 1
<1>1. n \in Nat /\ DOMAIN journal.lines = 1..n /\ journal.lines \in Seq(Seq(Pieces))
  BY TypeFacts DEF TypeOK
<1>2. Unparsed \subseteq 1..n
  BY <1>1 DEF Unparsed
<1>3. k \in Nat /\ k <= n
  BY <1>1, <1>2
<1>4. /\ Kept \in Seq(Seq(Pieces)) /\ Len(Kept) = k /\ DOMAIN Kept = 1..k
      /\ \A i \in 1..k : Kept[i] = journal.lines[i]
  <2>1. CASE Unparsed = {}
    BY <1>1, <2>1 DEF Kept
  <2>2. CASE Unparsed # {}
    <3>1. Kept = SubSeq(journal.lines, 1, n - 1) /\ k = n - 1 /\ n >= 1
      BY <1>1, <1>2, <2>2 DEF Kept
    <3> QED
      BY <1>1, <3>1
  <2> QED
    BY <2>1, <2>2
<1> HIDE DEF n, k
<1>5. Records = [i \in 1..k |-> journal.lines[i][1]]
  BY <1>4 DEF Records
<1> QED
  BY <1>1, <1>2, <1>3, <1>4, <1>5 DEF n, k

\* The m events that loading reads back.
ReadBack(m) ==
    /\ Unparsed \subseteq {Len(journal.lines)}
    /\ Unparsed = {} <=> Len(journal.lines) = m
    /\ Kept \in Seq(Seq(Pieces)) /\ Len(Kept) = m
    /\ \A i \in 1..m : Kept[i] = <<events[i]>>
    /\ Records \in Seq(Event) /\ Len(Records) = m /\ FirstOf(Records, events)

\* Exact lines, and at most a torn one after them, are read back as they were.
LEMMA ExactIsReadBack ==
    ASSUME TypeOK, NEW m \in Nat, Exact(m),
           \/ Len(journal.lines) = m
           \/ Len(journal.lines) = m + 1 /\ ~Parses(journal.lines[m + 1])
    PROVE  ReadBack(m)
<1> DEFINE n == Len(journal.lines)
           k == IF Unparsed = {} THEN n ELSE n - 1
<1>1. /\ n \in Nat /\ k \in Nat /\ k <= n /\ Unparsed \subseteq 1..n
      /\ Kept \in Seq(Seq(Pieces)) /\ Len(Kept) = k
      /\ \A i \in 1..k : Kept[i] = journal.lines[i]
      /\ Records = [i \in 1..k |-> journal.lines[i][1]]
  BY KeptFacts
<1>2. m <= n /\ m <= Len(events) /\ \A i \in 1..m : journal.lines[i] = <<events[i]>>
  BY DEF Exact
<1>3. \A i \in 1..m : events[i] \in Event /\ i \in 1..Len(events)
  BY <1>2, TypeFacts
<1>4. \A i \in 1..m : Parses(journal.lines[i])
  <2> SUFFICES ASSUME NEW i \in 1..m
               PROVE  Parses(<<events[i]>>)
    BY <1>2, Zenon
  <2>1. events[i] # Fragment
    BY <1>3, LedgerConstants
  <2>2. Len(<<events[i]>>) = 1 /\ <<events[i]>>[1] = events[i]
    OBVIOUS
  <2> QED
    BY <2>1, <2>2, Zenon DEF Parses
<1>5. \A i \in Unparsed : ~Parses(journal.lines[i])
  BY DEF Unparsed
<1>6. /\ Unparsed \subseteq {n} /\ k = m
      /\ Unparsed = {} <=> n = m
  <2>1. CASE n = m
    BY <1>1, <1>4, <1>5, <2>1
  <2>2. CASE n = m + 1 /\ ~Parses(journal.lines[m + 1])
    <3>1. n \in Unparsed
      BY <1>1, <2>2, TypeFacts DEF Unparsed
    <3>2. \A i \in 1..n : i \in 1..m \/ i = n
      BY <1>1, <2>2
    <3> QED
      BY <1>1, <1>4, <1>5, <2>2, <3>1, <3>2
  <2> QED
    BY <2>1, <2>2
<1> HIDE DEF n, k
<1>7. \A i \in 1..m : Kept[i] = <<events[i]>>
  BY <1>1, <1>2, <1>6
<1>8. Records = [i \in 1..m |-> events[i]]
  BY <1>1, <1>2, <1>6
<1>9. Records \in Seq(Event) /\ Len(Records) = m /\ FirstOf(Records, events)
  BY <1>2, <1>3, <1>8 DEF FirstOf
<1> QED
  BY <1>1, <1>6, <1>7, <1>9 DEF ReadBack, n

\* A journal that loads has nothing after the exact lines but a torn one: a line that
\* parses there names the wrong predecessor, and the chain would not verify.
LEMMA LoadableIsExact ==
    ASSUME TypeOK, NEW m \in Nat, Copied(m), Loadable
    PROVE  ReadBack(m)
<1> DEFINE n == Len(journal.lines)
           k == IF Unparsed = {} THEN n ELSE n - 1
<1>1. /\ n \in Nat /\ k \in Nat /\ k <= n /\ Unparsed \subseteq 1..n
      /\ Records = [i \in 1..k |-> journal.lines[i][1]]
  BY KeptFacts
<1>2. /\ Exact(m) /\ m <= n /\ \A i \in 1..m : journal.lines[i] = <<events[i]>>
      /\ m < n => Breaks(m)
  BY DEF Copied, Exact
<1>3. Unparsed \subseteq {n} /\ ChainHolds(Records)
  BY DEF Loadable, restoreAccepts
<1>4. DOMAIN journal.lines = 1..n
  BY TypeFacts
<1> HIDE DEF n
<1>5. ASSUME m < n, Parses(journal.lines[m + 1])
      PROVE  FALSE
  <2>1. journal.lines[m + 1][1].prev # DigestAfter(m)
    BY <1>2, <1>5 DEF Breaks
  <2>2. m + 1 \in 1..k
    <3>1. m + 1 \notin Unparsed
      BY <1>5 DEF Unparsed
    <3> QED
      BY <1>1, <1>3, <1>5, <3>1
  <2> HIDE DEF k
  <2>3. DOMAIN Records = 1..k /\ Records[m + 1] = journal.lines[m + 1][1]
    BY <1>1, <2>2
  <2>4. Records[m + 1].prev = IF m + 1 = 1 THEN GENESIS ELSE Records[(m + 1) - 1].id
    BY <1>3, <2>2, <2>3, Zenon DEF ChainHolds
  <2>5. CASE m = 0
    BY <2>1, <2>3, <2>4, <2>5 DEF DigestAfter
  <2>6. CASE m # 0
    <3>1. m \in 1..k /\ m \in 1..m /\ (m + 1) - 1 = m /\ m + 1 # 1
      BY <1>1, <2>2, <2>6
    <3>2. Records[m] = events[m]
      BY <1>1, <1>2, <3>1
    <3> QED
      BY <2>1, <2>3, <2>4, <2>6, <3>1, <3>2 DEF DigestAfter
  <2> QED
    BY <2>5, <2>6
<1>6. \/ n = m
      \/ n = m + 1 /\ ~Parses(journal.lines[m + 1])
  <2>1. CASE m < n
    <3>1. m + 1 \in Unparsed
      BY <1>1, <1>4, <1>5, <2>1 DEF Unparsed
    <3> QED
      BY <1>3, <1>5, <2>1, <3>1
  <2>2. CASE ~(m < n)
    BY <1>1, <1>2, <2>2
  <2> QED
    BY <2>1, <2>2
<1> QED
  BY <1>2, <1>6, ExactIsReadBack DEF n

\* loadFrom(): memory is then a prefix of what it was, and the journal says the same.
LEMMA LoadKeepsInv ==
    ASSUME LedgerInv, loadFrom
    PROVE  LedgerInv'
<1>1. TypeOK /\ IdsGivenOut /\ Causal(events)
  BY DEF LedgerInv
<1>2. PICK m \in Nat : Copied(m)
  BY DEF LedgerInv
<1>3. ReadBack(m)
  BY <1>1, <1>2, LoadableIsExact DEF loadFrom
<1>4. /\ status = "down" /\ status' = "up" /\ events' = Records /\ recovered' = RecoveredFlag
      /\ journal' = IF Unparsed = {} THEN journal ELSE RewrittenJournal
      /\ UNCHANGED <<drafted, told, faults, crashes>>
  BY DEF loadFrom
<1>5. /\ Records \in Seq(Event) /\ Len(Records) = m /\ m <= Len(events)
      /\ \A i \in 1..m : Records[i] = events[i]
      /\ FirstOf(Records, events)
  BY <1>3 DEF ReadBack, FirstOf
<1>6. /\ Kept \in Seq(Seq(Pieces)) /\ Len(Kept) = m /\ DOMAIN Kept = 1..m
      /\ \A i \in 1..m : Kept[i] = <<events[i]>>
  <2>1. Kept \in Seq(Seq(Pieces)) /\ Len(Kept) = m
    BY <1>3, Zenon DEF ReadBack
  <2>2. \A i \in 1..m : Kept[i] = <<events[i]>>
    BY <1>3, Zenon DEF ReadBack
  <2>3. DOMAIN Kept = 1..m
    BY <2>1
  <2> QED
    BY <2>1, <2>2, <2>3, Zenon
<1>7. journal'.lines = Kept /\ journal'.closed \in BOOLEAN
  BY <1>1, <1>4 DEF Kept, RewrittenJournal, TypeOK
<1>8. TypeOK'
  BY <1>1, <1>4, <1>5, <1>6, <1>7 DEF TypeOK, RecoveredFlag
<1>9. IdsGivenOut'
  BY <1>1, <1>4, <1>5, TypeFacts DEF IdsGivenOut
<1>10. LinesFilled'
  BY <1>6, <1>7 DEF LinesFilled
<1>11. Causal(events)'
  BY <1>1, <1>4, <1>5, PrefixCausal DEF TypeOK
<1>12. Exact(m)'
  <2>1. \A i \in 1..m : Kept[i] = <<events'[i]>>
    BY <1>4, <1>5, <1>6
  <2> QED
    BY <1>4, <1>5, <1>6, <1>7, <2>1 DEF Exact
<1>13. Copied(m)'
  BY <1>4, <1>5, <1>6, <1>7, <1>12 DEF Copied
<1>14. Recoverable'
  <2> SUFFICES ASSUME OnlyTorn
               PROVE  \E k \in Nat : Whole(k)'
    BY <1>4 DEF Recoverable, OnlyTorn
  <2>1. PICK k \in Nat : Whole(k)
    BY DEF LedgerInv, Recoverable
  <2>2. ReadBack(k) /\ (Len(journal.lines) = k => journal.closed)
    <3>1. Parses(<<Fragment>>) = FALSE
      BY DEF Parses
    <3>2. /\ Exact(k) /\ (Len(journal.lines) = k => journal.closed)
          /\ \/ Len(journal.lines) = k
             \/ Len(journal.lines) = k + 1 /\ ~Parses(journal.lines[k + 1])
      BY <2>1, <3>1 DEF Whole
    <3> QED
      BY <1>1, <3>2, ExactIsReadBack
  <2>3. k = m
    BY <1>5, <2>2 DEF ReadBack
  <2>4. journal'.closed
    <3>1. CASE Unparsed = {}
      BY <1>4, <2>2, <3>1 DEF ReadBack
    <3>2. CASE Unparsed # {}
      BY <1>4, <3>2 DEF RewrittenJournal
    <3> QED
      BY <3>1, <3>2
  <2>5. \A id \in told' : \E i \in 1..m : events'[i].id = id
    BY <1>4, <1>5, <2>1, <2>3 DEF Whole
  <2>6. Whole(m)'
    BY <1>4, <1>5, <1>6, <1>7, <1>12, <2>4, <2>5 DEF Whole
  <2> QED
    BY <2>6
<1> QED
  BY <1>8, <1>9, <1>10, <1>11, <1>13, <1>14 DEF LedgerInv

\* If every write that was cut short ended inside the object, the ledger loads.
LEMMA TornJournalsLoad ==
    ASSUME LedgerInv, OnlyTorn
    PROVE  Loadable
<1>1. TypeOK /\ Causal(events) /\ events \in Seq(Event)
  BY DEF LedgerInv, TypeOK
<1>2. PICK k \in Nat : Whole(k)
  BY DEF LedgerInv, Recoverable
<1>3. Parses(<<Fragment>>) = FALSE
  BY DEF Parses
<1>4. ReadBack(k)
  BY <1>1, <1>2, <1>3, ExactIsReadBack DEF Whole
<1>5. Causal(Records)
  BY <1>1, <1>4, PrefixCausal DEF ReadBack
<1> QED
  BY <1>4, <1>5 DEF Loadable, restoreAccepts, ReadBack, Causal

----------------------------------------------------------------------------
(* The theorems                                                            *)

\* A change of status alone: a crash while nothing is written, a refused load.
LEMMA StatusKeepsInv ==
    ASSUME LedgerInv, status' = "down" \/ (status' = "refused" /\ ~OnlyTorn),
           status' = "down" => status \in {"up", "down"},
           UNCHANGED <<events, journal, recovered, drafted, told, faults>>,
           crashes' \in 0..MaxCrashes
    PROVE  LedgerInv'
<1>1. /\ events' = events /\ journal' = journal /\ drafted' = drafted /\ told' = told
      /\ faults' = faults /\ recovered' = recovered
  OBVIOUS
<1>2. TypeOK' /\ IdsGivenOut' /\ LinesFilled' /\ Causal(events)'
  BY <1>1 DEF LedgerInv, TypeOK, IdsGivenOut, LinesFilled
<1>3. \E m \in Nat : Copied(m)'
  BY <1>1 DEF LedgerInv, Copied, Exact, Breaks, DigestAfter, Parses
<1>4. Recoverable'
  <2> SUFFICES ASSUME OnlyTorn
               PROVE  status' # "refused" /\ \E m \in Nat : Whole(m)'
    BY <1>1 DEF Recoverable, OnlyTorn
  <2>1. PICK m \in Nat : Whole(m)
    BY DEF LedgerInv, Recoverable
  <2>2. Whole(m)'
    BY <1>1, <2>1 DEF Whole, Exact
  <2> QED
    BY <2>2
<1> QED
  BY <1>2, <1>3, <1>4 DEF LedgerInv

\* The invariant holds at first.
LEMMA InitInv ==
    ASSUME Init
    PROVE  LedgerInv
<1>1. /\ status = "down" /\ events = <<>> /\ journal = [lines |-> <<>>, closed |-> TRUE]
      /\ recovered = FALSE /\ drafted = 0 /\ told = {} /\ faults = {} /\ crashes = 0
  BY DEF Init, EmptyJournal
<1>2. journal.lines = <<>> /\ journal.closed = TRUE
  BY <1>1
<1>3. /\ events \in Seq(Event) /\ journal.lines \in Seq(Seq(Pieces)) /\ Len(events) = 0
      /\ Len(journal.lines) = 0 /\ DOMAIN events = {} /\ DOMAIN journal.lines = {}
  BY <1>1, <1>2
<1>4. TypeOK
  <2>1. drafted \in 0..MaxEvents /\ crashes \in 0..MaxCrashes
    BY <1>1, LedgerConstants
  <2>2. /\ status \in {"up", "down", "refused"} /\ recovered \in BOOLEAN
        /\ journal.closed \in BOOLEAN
    BY <1>1, <1>2
  <2>3. told \subseteq 1..drafted /\ faults \subseteq Writes \cup {"threw"}
    BY <1>1
  <2> QED
    BY <1>3, <2>1, <2>2, <2>3, Zenon DEF TypeOK
<1>5. IdsGivenOut /\ LinesFilled
  BY <1>3 DEF IdsGivenOut, LinesFilled
<1>6. Causal(events)
  BY <1>3 DEF Causal, ChainHolds, Explained, Begun
<1>7. Exact(0)
  BY <1>3 DEF Exact
<1>8. Copied(0) /\ Whole(0)
  BY <1>1, <1>2, <1>3, <1>7 DEF Copied, Whole
<1>9. Recoverable
  BY <1>1, <1>8 DEF Recoverable
<1> QED
  BY <1>4, <1>5, <1>6, <1>8, <1>9 DEF LedgerInv

\* Every step keeps the invariant.
LEMMA NextInv ==
    ASSUME LedgerInv, [Next]_vars
    PROVE  LedgerInv'
<1>0. "full" \in Writes
  BY DEF Writes
<1>1. ASSUME NEW draft \in Drafts, append(draft)
      PROVE  LedgerInv'
  BY <1>0, <1>1, AppendKeepsInv
<1>2. ASSUME NEW draft \in Drafts, NEW write \in Writes,
             appendThrows(draft, write) \/ crashInAppend(draft, write)
      PROVE  LedgerInv'
  BY <1>2, AppendKeepsInv
<1>3. CASE crash
  <2>1. crashes' \in 0..MaxCrashes
    BY <1>3, LedgerConstants DEF crash, LedgerInv, TypeOK
  <2> QED
    BY <1>3, <2>1, StatusKeepsInv DEF crash
<1>4. CASE loadFrom
  BY <1>4, LoadKeepsInv
<1>5. CASE loadRefused
  <2>1. ~OnlyTorn
    BY <1>5, TornJournalsLoad DEF loadRefused
  <2>2. crashes' \in 0..MaxCrashes
    BY <1>5 DEF loadRefused, LedgerInv, TypeOK
  <2> QED
    BY <1>5, <2>1, <2>2, StatusKeepsInv DEF loadRefused
<1>6. CASE UNCHANGED vars
  <2>1. /\ status' = status /\ events' = events /\ journal' = journal /\ drafted' = drafted
        /\ told' = told /\ faults' = faults /\ recovered' = recovered /\ crashes' = crashes
    BY <1>6 DEF vars
  <2>2. TypeOK' /\ IdsGivenOut' /\ LinesFilled' /\ Causal(events)'
    BY <2>1 DEF LedgerInv, TypeOK, IdsGivenOut, LinesFilled
  <2>3. \E m \in Nat : Copied(m)'
    BY <2>1 DEF LedgerInv, Copied, Exact, Breaks, DigestAfter, Parses
  <2>4. Recoverable'
    BY <2>1 DEF LedgerInv, Recoverable, OnlyTorn, Whole, Exact
  <2> QED
    BY <2>2, <2>3, <2>4 DEF LedgerInv
<1> QED
  BY <1>1, <1>2, <1>3, <1>4, <1>5, <1>6 DEF Next

\* The inductive invariant of the event ledger.
THEOREM Invariance == Spec => []LedgerInv
<1>1. Init => LedgerInv
  BY InitInv
<1>2. LedgerInv /\ [Next]_vars => LedgerInv'
  BY NextInv
<1> QED
  BY <1>1, <1>2, PTL DEF Spec

\* append(), loadFrom() and crashes keep events, lines and identifiers in their types.
THEOREM TypeCorrect == Spec => []TypeOK
<1>1. LedgerInv => TypeOK
  BY DEF LedgerInv
<1> QED
  BY <1>1, Invariance, PTL

\* A running ledger answers from a chain that holds, in which every cause is an earlier
\* event of the same run and every run has exactly one beginning: loadFrom() need not
\* check again what append() checked.
THEOREM TheRecordIsCausal == Spec => []CausalRecord
<1>1. ASSUME LedgerInv
      PROVE  CausalRecord
  <2>1. Causal(events) /\ DOMAIN events = 1..Len(events) /\ Len(events) \in Nat
    BY <1>1, TypeFacts DEF LedgerInv
  <2>2. ASSUME NEW c \in {e.correlationId : e \in Range(events)}
        PROVE  Cardinality({i \in DOMAIN events :
                 events[i].correlationId = c /\ events[i].causationId = NoCause}) = 1
    <3>1. PICK i \in DOMAIN events : events[i].correlationId = c
      BY DEF Range
    <3>2. PICK j \in 1..i : /\ events[j].correlationId = events[i].correlationId
                            /\ events[j].causationId = NoCause
      BY <2>1, Zenon DEF Causal, Begun
    <3>3. j \in DOMAIN events
      BY <2>1, <3>1
    <3>4. \A k \in DOMAIN events :
            events[k].correlationId = c /\ events[k].causationId = NoCause => k = j
      BY <2>1, <3>1, <3>2, <3>3 DEF Causal, Begun
    <3>5. {k \in DOMAIN events :
             events[k].correlationId = c /\ events[k].causationId = NoCause} = {j}
      BY <3>1, <3>2, <3>3, <3>4
    <3> QED
      BY <3>5, FS_Singleton
  <2>3. Explained(events) /\ ChainHolds(events)
    BY <2>1 DEF Causal
  <2> QED
    BY <2>2, <2>3 DEF CausalRecord, Explained
<1> QED
  BY <1>1, Invariance, PTL

\* As long as crashes cut writes short only inside the object, nothing a caller was told
\* of is lost and the ledger always loads again (append(), loadFrom()).
THEOREM TornWritesAreSurvived == Spec => []SurvivesTornWrites
<1>1. ASSUME LedgerInv
      PROVE  SurvivesTornWrites
  <2> SUFFICES ASSUME OnlyTorn
               PROVE  /\ status = "up" => told \subseteq IdsOf(events)
                      /\ status # "refused"
    BY DEF SurvivesTornWrites, OnlyTorn
  <2>1. PICK m \in Nat : Whole(m)
    BY <1>1 DEF LedgerInv, Recoverable
  <2>2. \A i \in 1..m : i \in DOMAIN events
    <3>1. TypeOK /\ m <= Len(events)
      BY <1>1, <2>1 DEF LedgerInv, Whole, Exact
    <3>2. DOMAIN events = 1..Len(events) /\ Len(events) \in Nat
      BY <3>1, TypeFacts
    <3> QED
      BY <3>1, <3>2
  <2>3. told \subseteq IdsOf(events)
    BY <2>1, <2>2 DEF Whole, IdsOf, Range
  <2> QED
    BY <1>1, <2>3 DEF LedgerInv, Recoverable
<1> QED
  BY <1>1, Invariance, PTL

\* Of the steps that start the ledger, only loadFrom() does, and it reads a prefix back.
LEMMA StartsByLoading ==
    ASSUME LedgerInv, [Next]_vars, status = "down", status' = "up"
    PROVE  \E m \in Nat : /\ Copied(m) /\ ReadBack(m)
                          /\ events' = Records /\ recovered' = (Unparsed # {})
<1>1. loadFrom
  BY DEF Next, append, appendThrows, crashInAppend, Record, crash, loadRefused, vars
<1>2. TypeOK
  BY DEF LedgerInv
<1>3. PICK m \in Nat : Copied(m)
  BY DEF LedgerInv
<1>4. ReadBack(m)
  BY <1>1, <1>2, <1>3, LoadableIsExact DEF loadFrom
<1>5. events' = Records /\ recovered' = (Unparsed # {})
  BY <1>1 DEF loadFrom, RecoveredFlag
<1> QED
  BY <1>3, <1>4, <1>5

\* A restart recovers an initial part of what the last process had recorded, and
\* invents, reorders or skips nothing, whatever was cut off or failed (loadFrom()).
THEOREM RestartsReadAPrefix == Spec => RestartRecoversAPrefix
<1>1. ASSUME LedgerInv, [Next]_vars, status = "down", status' = "up"
      PROVE  Len(events') <= Len(events) /\ events' = SubSeq(events, 1, Len(events'))
  <2>1. PICK m \in Nat : ReadBack(m) /\ events' = Records
    BY <1>1, StartsByLoading
  <2>2. /\ events' \in Seq(Event) /\ Len(events') = m /\ m <= Len(events)
        /\ \A i \in 1..m : events'[i] = events[i]
    BY <2>1 DEF ReadBack, FirstOf
  <2>3. events \in Seq(Event) /\ Len(events) \in Nat
    BY <1>1 DEF LedgerInv, TypeOK
  <2>4. /\ SubSeq(events, 1, m) \in Seq(Event) /\ Len(SubSeq(events, 1, m)) = m
        /\ \A i \in 1..m : SubSeq(events, 1, m)[i] = events[i]
    BY <2>2, <2>3
  <2>5. events' = SubSeq(events, 1, m)
    BY <2>2, <2>4
  <2> QED
    BY <2>2, <2>5
<1>2. LedgerInv /\ [Next]_vars =>
        [status = "down" /\ status' = "up" =>
           /\ Len(events') <= Len(events)
           /\ events' = SubSeq(events, 1, Len(events'))]_vars
  BY <1>1
<1> QED
  BY <1>2, Invariance, PTL DEF Spec, RestartRecoversAPrefix

\* If a restart loses an event a caller was told of, the ledger says that it dropped
\* something, or refuses to start (#recovered).
THEOREM NoSilentLoss == Spec => LossIsReported
<1>1. ASSUME LedgerInv, [Next]_vars, status = "down", status' = "up",
             ~(IdsOf(events) \cap told \subseteq IdsOf(events'))
      PROVE  recovered'
  <2>1. PICK m \in Nat : /\ Copied(m) /\ ReadBack(m)
                         /\ events' = Records /\ recovered' = (Unparsed # {})
    BY <1>1, StartsByLoading
  <2>2. PICK i \in DOMAIN events : events[i].id \in told /\ events[i].id \notin IdsOf(events')
    BY <1>1 DEF IdsOf, Range
  <2>3. DOMAIN events = 1..Len(events) /\ Len(events) \in Nat
    BY <1>1, TypeFacts DEF LedgerInv
  <2>4. DOMAIN events' = 1..m /\ \A j \in 1..m : events'[j] = events[j]
    BY <2>1 DEF ReadBack, FirstOf
  <2>5. i \in (m + 1)..Len(events)
    <3>1. i \notin 1..m
      BY <2>2, <2>4 DEF IdsOf, Range
    <3> QED
      BY <2>3, <3>1
  <2>6. Len(journal.lines) # m
    BY <2>1, <2>2, <2>5 DEF Copied
  <2> QED
    BY <2>1, <2>6 DEF ReadBack
<1>2. LedgerInv /\ [Next]_vars =>
        [status = "down" /\ status' = "up" /\ ~(IdsOf(events) \cap told \subseteq IdsOf(events'))
           => recovered']_vars
  BY <1>1
<1> QED
  BY <1>2, Invariance, PTL DEF Spec, LossIsReported
=============================================================================
