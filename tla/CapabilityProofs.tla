------------------------- MODULE CapabilityProofs -------------------------
(***************************************************************************)
(* Safety of the capability engine with the executor on top of it, for     *)
(* every set of plans, steps, paths, requests and calls and every bound.   *)
(*                                                                         *)
(* The inductive invariant adds to the properties what they rest on: every *)
(* token in circulation was minted within its step (MintedInScope), is     *)
(* named after a counter the running incarnation has already passed        *)
(* (KnownKeys) and shares that counter with no other (OneTokenPerSerial),  *)
(* identifiers nobody carries yet are blank (FreshIds), entries of whole   *)
(* grants hold whole uses (WholeLeft), and what was let through reads like *)
(* a token that this incarnation signed (HonouredInScope).                 *)
(***************************************************************************)
EXTENDS Executor, SequenceTheorems, TLAPS

KnownKeys ==
    \A t \in held :
        /\ t.key <= epoch
        /\ t.serial \in 1..MaxTokens
        /\ t.id = IdOf(t.planDigest, t.stepId, t.serial)
        /\ t.key = epoch => t.serial <= counter

OneTokenPerSerial == \A t, u \in held : t.serial = u.serial /\ t.key = u.key => t = u

FreshIds ==
    \A id \in TokenIds : Named(id) = {} =>
        issued[id] = NoEntry /\ spent[id] = 0 /\ granted[id] = 0

WholeLeft ==
    \A id \in TokenIds : (\A t \in Named(id) : Whole(t.usesGranted)) => Whole(UsesLeft(id))

MintedInScope ==
    \A t \in held :
        /\ Range(t.paths) \subseteq StepFiles[t.stepId] \ Escaping
        /\ t.stepId \notin Destructive => Range(t.operations) \cap DESTRUCTIVE = {}
        /\ t.expiresAtUnix <= t.approvalExpiresAtUnix

HonouredInScope ==
    \A h \in honoured :
        /\ \E t \in held : t.key = epoch /\ Mac(t) = Mac(h.token)
        /\ h.path \in Range(h.token.paths) /\ h.operation \in Range(h.token.operations)
        /\ h.at < h.token.expiresAtUnix

CapInv ==
    /\ CapTypeOK
    /\ KnownKeys /\ OneTokenPerSerial /\ FreshIds /\ WholeLeft
    /\ MintedInScope /\ HonouredInScope
    /\ SpendsWithinGrant

----------------------------------------------------------------------------
(* Spellings: identifiers and signed lists.                                *)

\* An identifier together with the step's id gives back the counter.
LEMMA SerialOfId ==
    ASSUME NEW d, NEW e, NEW s \in Steps, NEW u \in Steps,
           NEW m \in 1..MaxTokens, NEW n \in 1..MaxTokens,
           IdOf(d, s, m) = IdOf(e, u, n)
    PROVE  d = e /\ (Text[s] = Text[u] => m = n)
<1>1. d = e /\ Text[s] \o Numeral[m] = Text[u] \o Numeral[n]
  BY DEF IdOf
<1>2. /\ Text[s] \in Seq(Chars) /\ Text[u] \in Seq(Chars)
      /\ Numeral[m] \in Seq(Chars) /\ Numeral[n] \in Seq(Chars)
  BY SpellingsTyped
<1>3. ASSUME Text[s] = Text[u] PROVE m = n
  <2>1. Numeral[m] = Numeral[n]
    BY <1>1, <1>2, <1>3, ConcatSimplifications
  <2> QED
    BY <2>1, SpellingsTyped
<1> QED
  BY <1>1, <1>3

\* The signed list holds the paths and the spellings of the operations, and
\* nothing else.
LEMMA SignedRange ==
    ASSUME NEW t \in Token
    PROVE  /\ \A path \in Range(t.paths) : path \in Range(Signed(t))
           /\ \A op \in Range(t.operations) : Lower[op] \in Range(Signed(t))
           /\ \A x \in Range(Signed(t)) :
                x \in Range(t.paths) \/ \E op \in Range(t.operations) : x = Lower[op]
<1> DEFINE names == Paths \cup {Lower[op] : op \in OPERATIONS}
           ops == [i \in DOMAIN t.operations |-> Lower[t.operations[i]]]
<1>1. t.paths \in Seq(Paths) /\ t.operations \in Seq(OPERATIONS)
  BY DEF Token
<1>2. t.paths \in Seq(names)
  BY <1>1, SeqMonotonic
<1>3. /\ DOMAIN t.operations = 1..Len(t.operations) /\ Len(t.operations) \in Nat
      /\ \A i \in 1..Len(t.operations) : t.operations[i] \in OPERATIONS
      /\ DOMAIN t.paths = 1..Len(t.paths) /\ Len(t.paths) \in Nat
  BY <1>1
<1>4. ops \in Seq(names) /\ Len(ops) = Len(t.operations)
  BY <1>3
<1>5. /\ Signed(t) = t.paths \o ops
      /\ DOMAIN Signed(t) = 1..(Len(t.paths) + Len(t.operations))
      /\ \A i \in 1..(Len(t.paths) + Len(t.operations)) : Signed(t)[i] =
           IF i <= Len(t.paths) THEN t.paths[i] ELSE ops[i - Len(t.paths)]
  <2>1. Signed(t) = t.paths \o ops
    BY DEF Signed
  <2> HIDE DEF ops, names
  <2>2. /\ t.paths \o ops \in Seq(names)
        /\ Len(t.paths \o ops) = Len(t.paths) + Len(ops)
        /\ \A i \in 1..(Len(t.paths) + Len(ops)) : (t.paths \o ops)[i] =
             IF i <= Len(t.paths) THEN t.paths[i] ELSE ops[i - Len(t.paths)]
    BY <1>2, <1>4, ConcatProperties
  <2>3. DOMAIN (t.paths \o ops) = 1..Len(t.paths \o ops)
    BY <2>2, LenProperties
  <2> QED
    BY <1>4, <2>1, <2>2, <2>3
<1>6. ASSUME NEW i \in DOMAIN t.paths PROVE t.paths[i] \in Range(Signed(t))
  BY <1>3, <1>5 DEF Range
<1>7. ASSUME NEW i \in DOMAIN t.operations PROVE Lower[t.operations[i]] \in Range(Signed(t))
  <2>1. i + Len(t.paths) \in DOMAIN Signed(t) /\ ~(i + Len(t.paths) <= Len(t.paths))
        /\ (i + Len(t.paths)) - Len(t.paths) = i
    BY <1>3, <1>5
  <2>2. Signed(t)[i + Len(t.paths)] = Lower[t.operations[i]]
    BY <1>5, <2>1
  <2> QED
    BY <2>1, <2>2 DEF Range
<1>8. ASSUME NEW i \in DOMAIN Signed(t)
      PROVE  Signed(t)[i] \in Range(t.paths)
             \/ \E op \in Range(t.operations) : Signed(t)[i] = Lower[op]
  <2>1. CASE i <= Len(t.paths)
    BY <1>3, <1>5, <2>1 DEF Range
  <2>2. CASE ~(i <= Len(t.paths))
    <3>1. i - Len(t.paths) \in DOMAIN t.operations
      BY <1>3, <1>5, <2>2
    <3>2. Signed(t)[i] = Lower[t.operations[i - Len(t.paths)]]
      BY <1>5, <2>2, <3>1
    <3> QED
      BY <3>1, <3>2 DEF Range
  <2> QED
    BY <2>1, <2>2
<1> QED
  BY <1>6, <1>7, <1>8 DEF Range

\* Whatever a caller presents has the shape of a token.
LEMMA PresentedTyped ==
    ASSUME CapTypeOK, NEW token \in Presented
    PROVE  token \in Token
<1>1. CASE \E t \in held : token = [t EXCEPT !.expiresAtUnix = MaxTime + 1]
  <2>1. PICK t \in held : token = [t EXCEPT !.expiresAtUnix = MaxTime + 1]
    BY <1>1
  <2>2. t \in Token /\ MaxTime + 1 \in Nat
    BY ConstantsTyped DEF CapTypeOK
  <2> QED
    BY <2>1, <2>2 DEF Token
<1>2. CASE \E t \in held : token \in Resplit(t)
  <2>1. PICK t \in held : token \in Resplit(t)
    BY <1>2
  <2> DEFINE list == Signed(t)
             spelled(name) == CHOOSE op \in OPERATIONS : Lower[op] = name
             ops(k) == [i \in 1..(Len(list) - k) |-> spelled(list[k + i])]
  <2>2. t \in Token
    BY DEF CapTypeOK
  <2>3. PICK k \in 0..Len(list) :
          /\ \A i \in 1..k : list[i] \in Paths
          /\ \A i \in (k + 1)..Len(list) : list[i] \in Range(Lower)
          /\ token = [t EXCEPT !.paths = SubSeq(list, 1, k), !.operations = ops(k)]
    BY <2>1 DEF Resplit
  <2>4. Len(list) \in Nat
    <3>1. t.paths \in Seq(Paths) /\ t.operations \in Seq(OPERATIONS)
      BY <2>2 DEF Token
    <3>2. DOMAIN t.operations = 1..Len(t.operations) /\ Len(t.operations) \in Nat
          /\ \A i \in 1..Len(t.operations) : t.operations[i] \in OPERATIONS
      BY <3>1
    <3> DEFINE names == Paths \cup {Lower[op] : op \in OPERATIONS}
               lows == [i \in DOMAIN t.operations |-> Lower[t.operations[i]]]
    <3>3. t.paths \in Seq(names) /\ lows \in Seq(names)
      BY <3>1, <3>2, SeqMonotonic
    <3>4. list = t.paths \o lows
      BY DEF Signed
    <3> HIDE DEF names, lows, list
    <3>5. list \in Seq(names)
      BY <3>3, <3>4, ConcatProperties
    <3> QED
      BY <3>5, LenProperties
  <2> HIDE DEF list
  <2>5. k \in Int /\ Len(list) - k \in Nat
    BY <2>4
  <2>6. SubSeq(list, 1, k) \in Seq(Paths)
    BY <2>3, <2>5, SubSeqProperties
  <2>7. ASSUME NEW i \in 1..(Len(list) - k) PROVE spelled(list[k + i]) \in OPERATIONS
    <3>1. k + i \in (k + 1)..Len(list)
      BY <2>4, <2>5
    <3>2. PICK op \in OPERATIONS : Lower[op] = list[k + i]
      BY <2>3, <3>1, SpellingsTyped DEF Range
    <3> QED
      BY <3>2
  <2>8. ops(k) \in Seq(OPERATIONS)
    <3> HIDE DEF spelled
    <3>1. ops(k) \in [1..(Len(list) - k) -> OPERATIONS]
      BY <2>7
    <3>2. ASSUME NEW f, NEW n \in Nat, f \in [1..n -> OPERATIONS] PROVE f \in Seq(OPERATIONS)
      BY <3>2
    <3> HIDE DEF ops
    <3> QED
      BY <2>5, <3>1, <3>2
  <2> HIDE DEF ops
  <2> QED
    BY <2>2, <2>3, <2>6, <2>8 DEF Token
<1> QED
  BY <1>1, <1>2 DEF Presented

----------------------------------------------------------------------------
(* The steps of the engine.                                                *)

\* While something is left of a whole grant, a whole use is left.
LEMMA OneMoreSpend ==
    ASSUME NEW left \in Int, Whole(left), left # 0
    PROVE  left - OneUse >= 0 /\ Whole(left - OneUse)
<1>1. PICK n \in 0..left : left = OneUse * n
  BY DEF Whole
<1>2. /\ n - 1 \in 0..(left - OneUse) /\ left - OneUse = OneUse * (n - 1)
  BY <1>1 DEF OneUse
<1> QED
  BY <1>1, <1>2 DEF Whole, OneUse

\* A minted token and its registry entry have their types.
LEMMA MintedTyped ==
    ASSUME CapTypeOK, NEW req \in Requests, Mintable(req), counter < MaxTokens
    PROVE  /\ counter + 1 \in 1..MaxTokens
           /\ TokenOf(req, counter + 1) \in Token
           /\ [usesRemaining |-> req.uses, stepId |-> req.stepId,
               expiresAtUnix |-> req.expiresAtUnix] \in Entry
<1>1. req \in Request
  BY ConstantsTyped
<1>2. counter + 1 \in 1..MaxTokens
  BY ConstantsTyped DEF CapTypeOK
<1>3. req.operations \in Seq(OPERATIONS)
  <2>1. req.operations \in Seq(STRING)
    BY <1>1 DEF Request
  <2>2. \A i \in 1..Len(req.operations) : req.operations[i] \in OPERATIONS
    BY <2>1 DEF Mintable, Range
  <2>3. req.operations \in [1..Len(req.operations) -> OPERATIONS] /\ Len(req.operations) \in Nat
    BY <2>1, <2>2
  <2> QED
    BY <2>3, SeqDef
<1>4. req.uses \in Nat
  BY <1>1 DEF Mintable, Request
<1>5. /\ Digest[req.plan] \in Digests /\ req.stepId \in Steps
      /\ IdOf(Digest[req.plan], req.stepId, counter + 1) \in TokenIds
  BY <1>1, <1>2, SpellingsTyped DEF Request, TokenIds
<1> QED
  BY <1>1, <1>2, <1>3, <1>4, <1>5 DEF CapTypeOK, TokenOf, Token, Entry, Request

\* A counter is used once, so a minted token is new and another token of the
\* incarnation has its identifier only if it is of a step with another id.
LEMMA MintedIsNew ==
    ASSUME CapInv, NEW req \in Requests, mint(req)
    PROVE  /\ TokenOf(req, counter + 1) \notin held
           /\ \A u \in Named(TokenOf(req, counter + 1).id) :
                Text[req.stepId] # Text[u.stepId]
<1> DEFINE tok == TokenOf(req, counter + 1)
<1>1. /\ tok \in Token /\ counter + 1 \in 1..MaxTokens
      /\ tok.serial = counter + 1 /\ tok.key = epoch /\ tok.stepId = req.stepId
      /\ tok.id = IdOf(Digest[req.plan], req.stepId, counter + 1)
  BY MintedTyped DEF mint, CapInv, TokenOf
<1>2. \A u \in held : u.key = epoch => u.serial # counter + 1
  BY DEF CapInv, KnownKeys, CapTypeOK
<1>3. tok \notin held
  BY <1>1, <1>2
<1>4. ASSUME NEW u \in Named(tok.id) PROVE Text[req.stepId] # Text[u.stepId]
  <2>1. /\ u \in held /\ u.key = epoch /\ u.id = tok.id
        /\ u.id = IdOf(u.planDigest, u.stepId, u.serial)
        /\ u.serial \in 1..MaxTokens /\ u.stepId \in Steps
    BY DEF Named, CapInv, KnownKeys, CapTypeOK, Token
  <2>2. req.stepId \in Steps
    BY <1>1 DEF Token
  <2>3. Text[req.stepId] = Text[u.stepId] => counter + 1 = u.serial
    BY <1>1, <2>1, <2>2, SerialOfId
  <2> QED
    BY <1>2, <2>1, <2>3
<1> QED
  BY <1>3, <1>4

\* mint: the entry under the identifier is replaced, and the uses granted
\* under it grow by as much as the new entry holds.
LEMMA MintStep ==
    ASSUME CapInv, NEW req \in Requests, mint(req)
    PROVE  CapInv'
<1> DEFINE tok == TokenOf(req, counter + 1)
           entry == [usesRemaining |-> req.uses, stepId |-> req.stepId,
                     expiresAtUnix |-> req.expiresAtUnix]
<1>0. CapTypeOK
  BY DEF CapInv
<1>1. /\ tok \in Token /\ entry \in Entry /\ counter + 1 \in 1..MaxTokens
  BY <1>0, MintedTyped DEF mint
<1>2. /\ counter' = counter + 1 /\ held' = held \cup {tok}
      /\ issued' = [issued EXCEPT ![tok.id] = entry]
      /\ granted' = [granted EXCEPT ![tok.id] = granted[tok.id] + req.uses]
      /\ now' = now /\ epoch' = epoch /\ spent' = spent /\ honoured' = honoured
      /\ counter \in Nat /\ epoch \in Nat
  BY <1>0 DEF mint, CapTypeOK
<1>3. /\ tok.serial = counter + 1 /\ tok.key = epoch /\ tok.usesGranted = req.uses
      /\ tok.id = IdOf(tok.planDigest, tok.stepId, tok.serial)
  BY DEF TokenOf
<1>4. /\ tok.id \in TokenIds /\ req.uses \in Nat
  BY <1>1, <1>3 DEF Token
<1>5. /\ tok \notin held
      /\ \A id \in TokenIds : Named(id)' = Named(id) \cup (IF id = tok.id THEN {tok} ELSE {})
  <2>1. tok \notin held
    BY MintedIsNew
  <2> HIDE DEF tok
  <2> QED
    BY <1>2, <1>3, <2>1 DEF Named
<1>6. \A id \in TokenIds :
        /\ UsesLeft(id)' = IF id = tok.id THEN req.uses ELSE UsesLeft(id)
        /\ granted'[id] = IF id = tok.id THEN granted[id] + req.uses ELSE granted[id]
        /\ (issued'[id] = NoEntry) = (id # tok.id /\ issued[id] = NoEntry)
  <2>1. entry # NoEntry /\ entry.usesRemaining = req.uses
    BY <1>1, NullsAreNotValues
  <2> HIDE DEF tok, entry
  <2> QED
    BY <1>0, <1>2, <1>4, <2>1 DEF UsesLeft, CapTypeOK
<1>7. CapTypeOK'
  <2>1. counter' \in 0..MaxTokens
    BY <1>1, <1>2
  <2> HIDE DEF tok, entry
  <2> QED
    BY <1>0, <1>1, <1>2, <1>4, <2>1 DEF CapTypeOK
<1>8. KnownKeys'
  <2>1. \A t \in held : t.key = epoch => t.serial <= counter'
    BY <1>0, <1>2 DEF CapInv, KnownKeys
  <2>2. /\ tok.key <= epoch' /\ tok.serial \in 1..MaxTokens /\ tok.serial <= counter'
    BY <1>1, <1>2, <1>3
  <2> HIDE DEF tok
  <2> QED
    BY <1>2, <1>3, <2>1, <2>2 DEF CapInv, KnownKeys
<1>9. OneTokenPerSerial'
  <2>1. \A t \in held : t.key = epoch => t.serial # tok.serial
    BY <1>0, <1>2, <1>3 DEF CapInv, KnownKeys
  <2> HIDE DEF tok
  <2> QED
    BY <1>2, <1>3, <2>1 DEF CapInv, OneTokenPerSerial
<1>10. FreshIds'
  <2> HIDE DEF tok
  <2> SUFFICES ASSUME NEW id \in TokenIds, Named(id)' = {}
               PROVE  issued'[id] = NoEntry /\ spent'[id] = 0 /\ granted'[id] = 0
    BY DEF FreshIds
  <2>1. id # tok.id /\ Named(id) = {}
    BY <1>5
  <2> QED
    BY <1>2, <1>6, <2>1 DEF CapInv, FreshIds
<1>11. MintedInScope'
  <2>1. /\ Range(tok.paths) \subseteq StepFiles[tok.stepId] \ Escaping
        /\ tok.stepId \notin Destructive => Range(tok.operations) \cap DESTRUCTIVE = {}
        /\ tok.expiresAtUnix <= tok.approvalExpiresAtUnix
    BY DEF mint, Mintable, TokenOf
  <2> HIDE DEF tok
  <2> QED
    BY <1>2, <2>1 DEF CapInv, MintedInScope
<1>12. HonouredInScope'
  BY <1>2 DEF CapInv, HonouredInScope, Mac, Signed
<1> HIDE DEF tok, entry
<1>13. ASSUME NEW id \in TokenIds, \A t \in Named(id)' : Whole(t.usesGranted)
       PROVE  /\ \A t \in Named(id) : Whole(t.usesGranted)
              /\ id = tok.id => Whole(req.uses)
  BY <1>3, <1>5, <1>13
<1>14. WholeLeft'
  BY <1>6, <1>13 DEF CapInv, WholeLeft
<1>15. SpendsWithinGrant'
  <2> SUFFICES ASSUME NEW id \in TokenIds, \A t \in Named(id)' : Whole(t.usesGranted)
               PROVE  /\ UsesLeft(id)' \in 0..(granted'[id] - OneUse * spent'[id])
                      /\ \A t \in Named(id)' : Named(id)' = {t} =>
                           /\ OneUse * spent'[id] <= t.usesGranted
                           /\ issued'[id] # NoEntry =>
                                UsesLeft(id)' = t.usesGranted - OneUse * spent'[id]
    BY DEF SpendsWithinGrant
  <2>1. /\ UsesLeft(id) \in 0..(granted[id] - OneUse * spent[id])
        /\ \A t \in Named(id) : Named(id) = {t} =>
             /\ OneUse * spent[id] <= t.usesGranted
             /\ issued[id] # NoEntry => UsesLeft(id) = t.usesGranted - OneUse * spent[id]
    BY <1>13 DEF CapInv, SpendsWithinGrant
  <2>2. granted[id] \in Nat /\ spent[id] \in Nat
    BY <1>0 DEF CapTypeOK
  <2>3. CASE id # tok.id
    BY <1>2, <1>5, <1>6, <2>1, <2>3
  <2>4. CASE id = tok.id
    <3>1. UsesLeft(id)' \in 0..(granted'[id] - OneUse * spent'[id])
      BY <1>2, <1>4, <1>6, <2>1, <2>2, <2>4 DEF OneUse
    <3>2. ASSUME NEW t \in Named(id)', Named(id)' = {t}
          PROVE  t = tok /\ spent[id] = 0
      <4>1. t = tok /\ Named(id) = {}
        <5>1. Named(id)' = Named(id) \cup {tok} /\ tok \notin Named(id)
          BY <1>5, <2>4 DEF Named
        <5> QED
          BY <3>2, <5>1
      <4> QED
        BY <4>1 DEF CapInv, FreshIds
    <3> QED
      BY <1>2, <1>3, <1>4, <1>6, <2>4, <3>1, <3>2 DEF OneUse
  <2> QED
    BY <2>3, <2>4
<1> QED
  BY <1>7, <1>8, <1>9, <1>10, <1>11, <1>12, <1>14, <1>15 DEF CapInv

\* spend: one use less under the token's identifier, one spend more.
LEMMA SpendStep ==
    ASSUME CapInv, NEW token \in Token, NEW path \in Paths, NEW op \in OPERATIONS,
           NEW at \in Nat, spend(token, path, op, at)
    PROVE  CapInv'
<1> DEFINE tid == token.id
           entry == [usesRemaining |-> UsesLeft(tid) - OneUse,
                     stepId |-> Undefined, expiresAtUnix |-> Undefined]
           h0 == [token |-> token, path |-> path, operation |-> op, at |-> at]
<1>0. CapTypeOK
  BY DEF CapInv
<1>1. /\ \E t \in held : t.key = epoch /\ Mac(t) = Mac(token)
      /\ token.key = epoch /\ issued[tid] # NoEntry
      /\ issued[tid].usesRemaining # 0 /\ at < token.expiresAtUnix
      /\ path \in Range(token.paths) /\ op \in Range(token.operations)
  BY DEF spend, Spendable, Verifies, Mac
<1>2. tid \in TokenIds /\ issued[tid] \in Entry
  BY <1>0, <1>1 DEF CapTypeOK, Token
<1>3. UsesLeft(tid) = issued[tid].usesRemaining /\ UsesLeft(tid) \in Int
  BY <1>1, <1>2 DEF UsesLeft, Entry
<1>4. entry \in Entry /\ h0 \in Honoured
  BY <1>1, <1>2, <1>3 DEF Entry, Honoured, OneUse
<1>5. /\ issued' = [issued EXCEPT ![tid] = entry]
      /\ spent' = [spent EXCEPT ![tid] = spent[tid] + 1]
      /\ honoured' = honoured \cup {h0} /\ granted' = granted
      /\ now' = now /\ epoch' = epoch /\ counter' = counter /\ held' = held
  BY DEF spend
<1>6. \A id \in TokenIds :
        /\ Named(id)' = Named(id)
        /\ UsesLeft(id)' = IF id = tid THEN UsesLeft(id) - OneUse ELSE UsesLeft(id)
        /\ spent'[id] = IF id = tid THEN spent[id] + 1 ELSE spent[id]
        /\ (issued'[id] = NoEntry) = (issued[id] = NoEntry)
  <2>1. entry # NoEntry /\ entry.usesRemaining = UsesLeft(tid) - OneUse
    BY <1>4, NullsAreNotValues
  <2> HIDE DEF entry, tid
  <2> QED
    BY <1>0, <1>1, <1>2, <1>5, <2>1 DEF UsesLeft, CapTypeOK, Named
<1>7. CapTypeOK'
  <2>1. spent[tid] + 1 \in Nat
    BY <1>0, <1>2 DEF CapTypeOK
  <2> HIDE DEF entry, h0, tid
  <2> QED
    BY <1>0, <1>2, <1>4, <1>5, <2>1 DEF CapTypeOK
<1>8. KnownKeys' /\ OneTokenPerSerial' /\ MintedInScope'
  BY <1>5 DEF CapInv, KnownKeys, OneTokenPerSerial, MintedInScope
<1>9. HonouredInScope'
  <2>1. /\ h0.token = token /\ h0.path = path /\ h0.operation = op /\ h0.at = at
    OBVIOUS
  <2> HIDE DEF h0
  <2>2. ASSUME NEW h \in honoured'
        PROVE  /\ \E t \in held : t.key = epoch /\ Mac(t) = Mac(h.token)
               /\ h.path \in Range(h.token.paths) /\ h.operation \in Range(h.token.operations)
               /\ h.at < h.token.expiresAtUnix
    <3>1. CASE h \in honoured
      BY <3>1 DEF CapInv, HonouredInScope
    <3>2. CASE h = h0
      BY <1>1, <2>1, <3>2
    <3> QED
      BY <1>5, <3>1, <3>2
  <2> QED
    BY <1>5, <2>2 DEF HonouredInScope, Mac, Signed
<1> HIDE DEF entry, h0
<1>10. PICK t0 \in Named(tid) : TRUE
  <2>1. PICK t \in held : t.key = epoch /\ Mac(t) = Mac(token)
    BY <1>1
  <2>2. t.id = tid
    BY <2>1 DEF Mac
  <2> QED
    BY <2>1, <2>2 DEF Named
<1> HIDE DEF tid
<1>11. FreshIds'
  <2>1. \A id \in TokenIds : Named(id)' = {} => id # tid
    BY <1>2, <1>6, <1>10
  <2> QED
    BY <1>5, <1>6, <2>1 DEF CapInv, FreshIds
<1>12. ASSUME NEW id \in TokenIds, id = tid, \A t \in Named(id) : Whole(t.usesGranted)
       PROVE  /\ UsesLeft(id) - OneUse >= 0 /\ Whole(UsesLeft(id) - OneUse)
  <2>1. Whole(UsesLeft(id)) /\ UsesLeft(id) \in Int /\ UsesLeft(id) # 0
    BY <1>1, <1>3, <1>12 DEF CapInv, WholeLeft, tid
  <2> QED
    BY <2>1, OneMoreSpend
<1>13. WholeLeft'
  BY <1>6, <1>12 DEF CapInv, WholeLeft
<1>14. SpendsWithinGrant'
  <2> SUFFICES ASSUME NEW id \in TokenIds, \A t \in Named(id) : Whole(t.usesGranted)
               PROVE  /\ UsesLeft(id)' \in 0..(granted[id] - OneUse * spent'[id])
                      /\ \A t \in Named(id) : Named(id) = {t} =>
                           /\ OneUse * spent'[id] <= t.usesGranted
                           /\ issued'[id] # NoEntry =>
                                UsesLeft(id)' = t.usesGranted - OneUse * spent'[id]
    BY <1>5, <1>6 DEF SpendsWithinGrant
  <2>1. /\ UsesLeft(id) \in 0..(granted[id] - OneUse * spent[id])
        /\ \A t \in Named(id) : Named(id) = {t} =>
             /\ OneUse * spent[id] <= t.usesGranted
             /\ issued[id] # NoEntry => UsesLeft(id) = t.usesGranted - OneUse * spent[id]
    BY DEF CapInv, SpendsWithinGrant
  <2>2. /\ granted[id] \in Nat /\ spent[id] \in Nat
        /\ \A t \in Named(id) : t.usesGranted \in Nat
    BY <1>0 DEF CapTypeOK, Named, Token
  <2>3. CASE id # tid
    BY <1>6, <2>1, <2>3
  <2>4. CASE id = tid
    <3>1. UsesLeft(id) - OneUse >= 0 /\ issued[id] # NoEntry
      BY <1>1, <1>12, <2>4 DEF tid
    <3>2. UsesLeft(id)' = UsesLeft(id) - OneUse /\ spent'[id] = spent[id] + 1
      BY <1>6, <2>4
    <3>3. UsesLeft(id) \in Int
      BY <1>3, <2>4
    <3>4. UsesLeft(id)' \in 0..(granted[id] - OneUse * spent'[id])
      BY <2>1, <2>2, <3>1, <3>2, <3>3 DEF OneUse
    <3>5. ASSUME NEW t \in Named(id), Named(id) = {t}
          PROVE  /\ OneUse * spent'[id] <= t.usesGranted
                 /\ UsesLeft(id)' = t.usesGranted - OneUse * spent'[id]
      <4>1. UsesLeft(id) = t.usesGranted - OneUse * spent[id] /\ t.usesGranted \in Nat
        BY <2>1, <2>2, <3>1, <3>5
      <4> QED
        BY <2>2, <3>1, <3>2, <4>1 DEF OneUse
    <3> QED
      BY <3>4, <3>5
  <2> QED
    BY <2>3, <2>4
<1> QED
  BY <1>7, <1>8, <1>9, <1>11, <1>13, <1>14 DEF CapInv

\* revoke: the entry disappears, and nothing else changes.
LEMMA RevokeStep ==
    ASSUME CapInv, NEW rid \in TokenIds, revoke(rid)
    PROVE  CapInv'
<1>0. CapTypeOK
  BY DEF CapInv
<1>1. /\ issued' = [issued EXCEPT ![rid] = NoEntry]
      /\ now' = now /\ epoch' = epoch /\ counter' = counter /\ granted' = granted
      /\ held' = held /\ spent' = spent /\ honoured' = honoured
  BY DEF revoke
<1>2. \A id \in TokenIds :
        /\ Named(id)' = Named(id)
        /\ UsesLeft(id)' = IF id = rid THEN 0 ELSE UsesLeft(id)
        /\ (issued'[id] = NoEntry) = (id = rid \/ issued[id] = NoEntry)
  BY <1>0, <1>1 DEF UsesLeft, CapTypeOK, Named
<1>3. CapTypeOK'
  BY <1>0, <1>1 DEF CapTypeOK
<1>4. KnownKeys' /\ OneTokenPerSerial' /\ MintedInScope' /\ HonouredInScope'
  BY <1>1 DEF CapInv, KnownKeys, OneTokenPerSerial, MintedInScope, HonouredInScope, Mac, Signed
<1>5. FreshIds'
  BY <1>1, <1>2 DEF CapInv, FreshIds
<1>6. WholeLeft'
  <2>1. Whole(0)
    BY DEF Whole, OneUse
  <2> QED
    BY <1>2, <2>1 DEF CapInv, WholeLeft
<1>7. SpendsWithinGrant'
  <2> SUFFICES ASSUME NEW id \in TokenIds, \A t \in Named(id) : Whole(t.usesGranted)
               PROVE  /\ UsesLeft(id)' \in 0..(granted[id] - OneUse * spent[id])
                      /\ \A t \in Named(id) : Named(id) = {t} =>
                           /\ OneUse * spent[id] <= t.usesGranted
                           /\ issued'[id] # NoEntry =>
                                UsesLeft(id)' = t.usesGranted - OneUse * spent[id]
    BY <1>1, <1>2 DEF SpendsWithinGrant
  <2>1. /\ UsesLeft(id) \in 0..(granted[id] - OneUse * spent[id])
        /\ \A t \in Named(id) : Named(id) = {t} =>
             /\ OneUse * spent[id] <= t.usesGranted
             /\ issued[id] # NoEntry => UsesLeft(id) = t.usesGranted - OneUse * spent[id]
    BY DEF CapInv, SpendsWithinGrant
  <2>2. granted[id] \in Nat /\ spent[id] \in Nat
    BY <1>0 DEF CapTypeOK
  <2>3. UsesLeft(id)' \in 0..(granted[id] - OneUse * spent[id])
    BY <1>2, <2>1, <2>2 DEF OneUse
  <2> QED
    BY <1>2, <2>1, <2>3
<1> QED
  BY <1>3, <1>4, <1>5, <1>6, <1>7 DEF CapInv

\* restart: no token of an earlier incarnation has the key of the new one.
LEMMA RestartStep ==
    ASSUME CapInv, restart
    PROVE  CapInv'
<1>0. CapTypeOK
  BY DEF CapInv
<1>1. /\ epoch' = epoch + 1 /\ counter' = 0 /\ honoured' = {}
      /\ issued' = [id \in TokenIds |-> NoEntry] /\ spent' = [id \in TokenIds |-> 0]
      /\ granted' = [id \in TokenIds |-> 0]
      /\ now' = now /\ held' = held
  BY DEF restart
<1>2. \A t \in held : t.key # epoch' /\ t.key <= epoch'
  BY <1>0, <1>1 DEF CapInv, KnownKeys, CapTypeOK, Token
<1>3. \A id \in TokenIds : Named(id)' = {} /\ UsesLeft(id)' = 0
  BY <1>1, <1>2 DEF Named, UsesLeft
<1>4. CapTypeOK'
  BY <1>0, <1>1, ConstantsTyped DEF CapTypeOK
<1>5. KnownKeys' /\ OneTokenPerSerial' /\ MintedInScope' /\ HonouredInScope'
  BY <1>1, <1>2 DEF CapInv, KnownKeys, OneTokenPerSerial, MintedInScope, HonouredInScope
<1>6. FreshIds' /\ WholeLeft'
  BY <1>1, <1>3 DEF FreshIds, WholeLeft, Whole, OneUse
<1>7. SpendsWithinGrant'
  BY <1>1, <1>3 DEF SpendsWithinGrant, OneUse
<1> QED
  BY <1>4, <1>5, <1>6, <1>7 DEF CapInv

\* A step that only lets time pass, or only concerns the executor's own call.
LEMMA QuietStep ==
    ASSUME CapInv, now' \in Nat,
           UNCHANGED <<epoch, counter, issued, held, granted, spent, honoured>>
    PROVE  CapInv'
<1>1. \A id : Named(id)' = Named(id) /\ UsesLeft(id)' = UsesLeft(id)
  BY DEF Named, UsesLeft
<1>2. \A t : Mac(t)' = Mac(t)
  BY DEF Mac, Signed
<1> QED
  BY <1>1, <1>2 DEF CapInv, CapTypeOK, KnownKeys, OneTokenPerSerial, FreshIds, WholeLeft,
     MintedInScope, HonouredInScope, SpendsWithinGrant

----------------------------------------------------------------------------
(* The executor on top of the engine.                                      *)

\* What the job has recorded as paid for, the minter has let through.
PaidWasHonoured ==
    job # NoJob => \A p \in job.paid : \E h \in honoured : <<h.path, h.operation>> = p

\* Every file that differs was paid for (NoEffectWithoutSpend, minter aside).
ChangedWasPaid ==
    job # NoJob => \A file \in job.changed : \E p \in job.paid :
        \/ p[1] = file /\ p[2] \in {"WRITE", "DELETE"}
        \/ p[2] = "EXECUTE"

\* The outcomes are those of the actions, in order; what was performed was paid.
OutcomesFollowActions ==
    job # NoJob =>
        /\ Len(job.outcomes) <= Len(job.call.actions)
        /\ \A i \in 1..Len(job.outcomes) : job.outcomes[i].performed =>
             <<job.call.actions[i].path, job.call.actions[i].kind>> \in job.paid

\* A verdict is given at the end only.
OkWhenFinished == job # NoJob /\ job.ok => job.finished

Inv ==
    /\ CapInv
    /\ job \in JobState \cup {NoJob}
    /\ OkWhenFinished
    /\ PaidWasHonoured /\ ChangedWasPaid /\ OutcomesFollowActions
    /\ OkMeansAsDeclared

\* The initial state: nothing minted, nothing running.
LEMMA InitInv == Init => Inv
<1> SUFFICES ASSUME Init PROVE Inv
  OBVIOUS
<1>1. CapTypeOK
  BY ConstantsTyped DEF Init, CapInit, CapTypeOK
<1>2. KnownKeys /\ OneTokenPerSerial /\ MintedInScope /\ HonouredInScope
  BY DEF Init, CapInit, KnownKeys, OneTokenPerSerial, MintedInScope, HonouredInScope
<1>3. FreshIds /\ WholeLeft /\ SpendsWithinGrant
  <2>1. \A id \in TokenIds : /\ Named(id) = {} /\ UsesLeft(id) = 0 /\ spent[id] = 0
                             /\ granted[id] = 0 /\ issued[id] = NoEntry
    BY DEF Init, CapInit, Named, UsesLeft
  <2>2. Whole(0)
    BY DEF Whole, OneUse
  <2>3. FreshIds
    BY <2>1 DEF FreshIds
  <2>4. WholeLeft
    BY <2>1, <2>2 DEF WholeLeft
  <2>5. SpendsWithinGrant
    BY <2>1 DEF SpendsWithinGrant, OneUse
  <2> QED
    BY <2>3, <2>4, <2>5
<1>4. job = NoJob
  BY DEF Init
<1> QED
  BY <1>1, <1>2, <1>3, <1>4 DEF Inv, CapInv, PaidWasHonoured, ChangedWasPaid,
     OutcomesFollowActions, OkMeansAsDeclared, OkWhenFinished

\* A job record and the action it is at have their types.
LEMMA JobTyped ==
    ASSUME Inv, job # NoJob
    PROVE  /\ job \in JobState
           /\ job.call \in Job
           /\ job.outcomes \in Seq(Outcome)
           /\ HasAction => CurrentAction \in Action
<1>1. job \in JobState
  BY DEF Inv
<1>2. job.call \in Jobs /\ job.outcomes \in Seq(Outcome)
  BY <1>1 DEF JobState
<1>3. job.call \in Job
  BY <1>2, JobsTyped
<1>4. HasAction => CurrentAction \in Action
  BY <1>2, <1>3 DEF HasAction, CurrentAction, Job
<1> QED
  BY <1>1, <1>2, <1>3, <1>4

\* execute: a call starts with nothing done.
LEMMA ExecuteStep ==
    ASSUME Inv, NEW call \in Jobs, NEW tokens \in TokenLists, execute(call, tokens)
    PROVE  Inv'
<1>1. CapInv'
  BY QuietStep DEF Inv, CapInv, CapTypeOK, execute, capVars
<1>2. tokens \in Seq(Token) /\ now \in Nat
  <2>1. PICK t \in held, u \in held : tokens = <<t, u>>
    BY DEF TokenLists
  <2>2. t \in Token /\ u \in Token /\ now \in Nat
    BY DEF Inv, CapInv, CapTypeOK
  <2> QED
    BY <2>1, <2>2
<1>3. job' = [call |-> call, tokens |-> tokens, nowUnix |-> now, outcomes |-> <<>>,
              changed |-> {}, paid |-> {}, finished |-> FALSE, ok |-> FALSE]
  BY DEF execute
<1>4. job' \in JobState
  BY <1>2, <1>3 DEF JobState
<1>5. call.actions \in Seq(Action)
  BY JobsTyped DEF Job
<1>6. PaidWasHonoured' /\ ChangedWasPaid'
  BY <1>3 DEF PaidWasHonoured, ChangedWasPaid
<1>7. OutcomesFollowActions'
  BY <1>3, <1>5 DEF OutcomesFollowActions
<1>8. OkMeansAsDeclared' /\ OkWhenFinished'
  BY <1>3 DEF OkMeansAsDeclared, OkWhenFinished
<1> QED
  BY <1>1, <1>4, <1>6, <1>7, <1>8 DEF Inv

\* One more outcome for the action at hand: the outcomes still follow the actions.
LEMMA OutcomeAppended ==
    ASSUME Inv, HasAction, NEW o \in Outcome, job' # NoJob,
           job'.outcomes = Append(job.outcomes, o), job'.call = job.call,
           job.paid \subseteq job'.paid,
           o.performed => <<CurrentAction.path, CurrentAction.kind>> \in job'.paid
    PROVE  OutcomesFollowActions'
<1>1. job # NoJob /\ job.outcomes \in Seq(Outcome) /\ job.call \in Job
  BY JobTyped DEF HasAction, Running
<1>2. /\ Len(job.outcomes) < Len(job.call.actions)
      /\ Len(job.outcomes) \in Nat /\ Len(job.call.actions) \in Nat
  BY <1>1 DEF HasAction, Job
<1>3. /\ Len(job'.outcomes) = Len(job.outcomes) + 1
      /\ \A i \in 1..Len(job.outcomes) : job'.outcomes[i] = job.outcomes[i]
      /\ job'.outcomes[Len(job.outcomes) + 1] = o
  BY <1>1, AppendProperties
<1>4. ASSUME NEW i \in 1..Len(job'.outcomes), job'.outcomes[i].performed
      PROVE  <<job'.call.actions[i].path, job'.call.actions[i].kind>> \in job'.paid
  <2>1. CASE i = Len(job.outcomes) + 1
    BY <1>3, <1>4, <2>1 DEF CurrentAction
  <2>2. CASE i # Len(job.outcomes) + 1
    <3>1. i \in 1..Len(job.outcomes)
      BY <1>2, <1>3, <2>2
    <3> QED
      BY <1>1, <1>3, <1>4, <3>1 DEF Inv, OutcomesFollowActions
  <2> QED
    BY <2>1, <2>2
<1>5. Len(job'.outcomes) <= Len(job'.call.actions)
  BY <1>2, <1>3
<1> QED
  BY <1>4, <1>5 DEF OutcomesFollowActions

\* Recording an outcome appends one that says whether the action was performed.
LEMMA RecordedAppends ==
    ASSUME CurrentAction \in Action, NEW performed \in BOOLEAN, NEW exitZero \in BOOLEAN
    PROVE  \E o \in Outcome : /\ o.performed = performed
                              /\ Recorded(performed, exitZero) = Append(job.outcomes, o)
<1> DEFINE o == [performed |-> performed, operation |-> CurrentAction.kind,
                 name |-> CurrentAction.name, exitZero |-> exitZero]
<1>1. o \in Outcome /\ o.performed = performed
  BY DEF Outcome, Action
<1>2. Recorded(performed, exitZero) = Append(job.outcomes, o)
  BY DEF Recorded
<1> HIDE DEF o
<1> QED
  BY <1>1, <1>2

\* refuseAction: one more outcome, and nothing else.
LEMMA RefuseStep ==
    ASSUME Inv, refuseAction
    PROVE  Inv'
<1>1. CapInv'
  BY QuietStep DEF Inv, CapInv, CapTypeOK, refuseAction, capVars
<1>2. /\ job # NoJob /\ HasAction /\ honoured' = honoured
      /\ job' = [job EXCEPT !.outcomes = Recorded(FALSE, FALSE)]
  BY DEF refuseAction, HasAction, Running, capVars
<1>3. /\ job \in JobState /\ job.outcomes \in Seq(Outcome) /\ CurrentAction \in Action
  BY <1>2, JobTyped
<1>4. PICK o \in Outcome : ~o.performed /\ Recorded(FALSE, FALSE) = Append(job.outcomes, o)
  BY <1>3, RecordedAppends
<1>5. Append(job.outcomes, o) \in Seq(Outcome)
  BY <1>3, AppendProperties
<1>6. /\ job' \in JobState /\ job' # NoJob
      /\ job'.outcomes = Append(job.outcomes, o)
      /\ job'.call = job.call /\ job'.changed = job.changed
      /\ job'.paid = job.paid /\ job'.ok = job.ok /\ ~job.finished
  BY <1>2, <1>3, <1>4, <1>5, JobsTyped DEF JobState, HasAction
<1>7. PaidWasHonoured' /\ ChangedWasPaid'
  BY <1>2, <1>6 DEF Inv, PaidWasHonoured, ChangedWasPaid
<1>8. OutcomesFollowActions'
  BY <1>2, <1>4, <1>6, OutcomeAppended
<1>9. OkMeansAsDeclared' /\ OkWhenFinished'
  BY <1>2, <1>6 DEF Inv, OkWhenFinished, OkMeansAsDeclared
<1> QED
  BY <1>1, <1>6, <1>7, <1>8, <1>9 DEF Inv

\* performAction: the spend is let through, and the effect stays within it.
LEMMA PerformStep ==
    ASSUME Inv, performAction
    PROVE  Inv'
<1>1. job # NoJob /\ HasAction /\ ~job.finished
  BY DEF performAction, HasAction, Running
<1>2. /\ job \in JobState /\ job.outcomes \in Seq(Outcome) /\ CurrentAction \in Action
  BY <1>1, JobTyped
<1>3. PICK i \in tokenFor(CurrentAction), performed, exitZero \in BOOLEAN :
        /\ spend(job.tokens[i], CurrentAction.path, CurrentAction.kind, job.nowUnix)
        /\ \E changed \in IF CanRun(job.tokens[i], CurrentAction)
                          THEN Touched(CurrentAction) ELSE {job.changed} :
             job' = [job EXCEPT !.outcomes = Recorded(performed, exitZero),
                                !.changed = changed,
                                !.paid = @ \cup {<<CurrentAction.path, CurrentAction.kind>>}]
  BY DEF performAction
<1>4. PICK changed \in Touched(CurrentAction) \cup {job.changed} :
        job' = [job EXCEPT !.outcomes = Recorded(performed, exitZero),
                           !.changed = changed,
                           !.paid = @ \cup {<<CurrentAction.path, CurrentAction.kind>>}]
  BY <1>3
<1> DEFINE p0 == <<CurrentAction.path, CurrentAction.kind>>
           h0 == [token |-> job.tokens[i], path |-> CurrentAction.path,
                  operation |-> CurrentAction.kind, at |-> job.nowUnix]
<1>5. CurrentAction.kind \in OPERATIONS
  BY DEF performAction, Offered
<1>6. honoured' = honoured \cup {h0}
  BY <1>3 DEF spend
<1>7. CapInv'
  <2>1. job.tokens[i] \in Token /\ job.nowUnix \in Nat /\ CurrentAction.path \in Paths
    BY <1>2 DEF JobState, tokenFor, Action
  <2> QED
    BY <1>3, <1>5, <2>1, SpendStep DEF Inv
<1>8. PICK o \in Outcome : /\ o.performed = performed
                           /\ Recorded(performed, exitZero) = Append(job.outcomes, o)
  BY <1>2, RecordedAppends
<1>9. Append(job.outcomes, o) \in Seq(Outcome)
  BY <1>2, AppendProperties
<1>10. changed \in SUBSET Files
  BY <1>2, <1>4 DEF Touched, JobState
<1>11. p0 \in Paths \X OPERATIONS
  BY <1>2, <1>5 DEF Action
<1>12. /\ job' \in JobState /\ job' # NoJob
       /\ job'.outcomes = Append(job.outcomes, o)
       /\ job'.call = job.call /\ job'.changed = changed
       /\ job'.paid = job.paid \cup {p0} /\ job'.ok = job.ok
  <2>1. job' = [job EXCEPT !.outcomes = Append(job.outcomes, o), !.changed = changed,
                           !.paid = job.paid \cup {p0}]
    BY <1>4, <1>8
  <2>2. job.paid \cup {p0} \in SUBSET (Paths \X OPERATIONS)
    BY <1>2, <1>11 DEF JobState
  <2> HIDE DEF p0
  <2>3. job' \in JobState
    BY <1>2, <1>9, <1>10, <2>1, <2>2 DEF JobState
  <2> QED
    BY <1>2, <2>1, <2>3, JobsTyped DEF JobState
<1>13. PaidWasHonoured'
  <2>1. \A p \in job.paid : \E h \in honoured' : <<h.path, h.operation>> = p
    BY <1>1, <1>6 DEF Inv, PaidWasHonoured
  <2>2. h0 \in honoured' /\ <<h0.path, h0.operation>> = p0
    BY <1>6
  <2> QED
    BY <1>12, <2>1, <2>2 DEF PaidWasHonoured
<1>14. ChangedWasPaid'
  <2> SUFFICES ASSUME NEW file \in changed
               PROVE  \E p \in job.paid \cup {p0} :
                        \/ p[1] = file /\ p[2] \in {"WRITE", "DELETE"}
                        \/ p[2] = "EXECUTE"
    BY <1>12 DEF ChangedWasPaid
  <2>0. p0[1] = CurrentAction.path /\ p0[2] = CurrentAction.kind
    OBVIOUS
  <2> HIDE DEF p0
  <2>1. CASE file \in job.changed
    BY <1>1, <2>1 DEF Inv, ChangedWasPaid
  <2>2. CASE file \notin job.changed
    <3>1. CASE CurrentAction.kind \in {"WRITE", "DELETE"}
      <4>1. Touched(CurrentAction) =
              {job.changed, job.changed \ {CurrentAction.path},
               job.changed \cup ({CurrentAction.path} \cap Files)}
        BY <3>1 DEF Touched
      <4>2. file = CurrentAction.path
        BY <1>4, <2>2, <4>1
      <4> QED
        BY <2>0, <3>1, <4>2
    <3>2. CASE CurrentAction.kind = "EXECUTE"
      BY <2>0, <3>2
    <3>3. CASE CurrentAction.kind \notin {"WRITE", "DELETE", "EXECUTE"}
      <4>1. Touched(CurrentAction) = {job.changed}
        BY <3>3 DEF Touched
      <4> QED
        BY <1>4, <2>2, <4>1
    <3> QED
      BY <3>1, <3>2, <3>3
  <2> QED
    BY <2>1, <2>2
<1>15. OutcomesFollowActions'
  BY <1>1, <1>8, <1>12, OutcomeAppended
<1>16. OkMeansAsDeclared' /\ OkWhenFinished'
  BY <1>1, <1>12 DEF Inv, OkWhenFinished, OkMeansAsDeclared
<1> QED
  BY <1>7, <1>12, <1>13, <1>14, <1>15, <1>16 DEF Inv

\* finish: the verdict is OkMeansAsDeclared, because every action has an outcome.
LEMMA FinishStep ==
    ASSUME Inv, finish
    PROVE  Inv'
<1>1. CapInv'
  BY QuietStep DEF Inv, CapInv, CapTypeOK, finish, capVars
<1>2. job # NoJob /\ ~HasAction /\ ~job.finished /\ honoured' = honoured
  BY DEF finish, Running, capVars
<1>3. job \in JobState /\ job.outcomes \in Seq(Outcome) /\ job.call \in Job
  BY <1>2, JobTyped
<1> DEFINE verdict == /\ \A i \in DOMAIN job.outcomes : job.outcomes[i].performed
                      /\ ~observationIsEmpty
                      /\ compareClean
<1>4. job' = [job EXCEPT !.finished = TRUE, !.ok = verdict]
  BY DEF finish
<1>5. verdict \in BOOLEAN
  OBVIOUS
<1> HIDE DEF verdict
<1>6. /\ job' \in JobState /\ job' # NoJob
      /\ job'.outcomes = job.outcomes /\ job'.call = job.call
      /\ job'.changed = job.changed /\ job'.paid = job.paid
      /\ job'.ok = verdict /\ job'.finished
  BY <1>3, <1>4, <1>5, JobsTyped DEF JobState
<1>7. PaidWasHonoured' /\ ChangedWasPaid' /\ OutcomesFollowActions' /\ OkWhenFinished'
  BY <1>2, <1>6 DEF Inv, PaidWasHonoured, ChangedWasPaid, OutcomesFollowActions,
     OkWhenFinished
<1>8. ASSUME verdict
      PROVE  /\ \A i \in DOMAIN job.call.actions :
                  <<job.call.actions[i].path, job.call.actions[i].kind>> \in job.paid
             /\ job.changed \subseteq job.call.diffMustTouch
             /\ \A i \in DOMAIN job.outcomes :
                  /\ job.outcomes[i].performed
                  /\ job.outcomes[i].operation = "EXECUTE"
                       /\ job.outcomes[i].name \notin job.call.expectedToFail \cup {""}
                       => job.outcomes[i].exitZero
  <2>1. /\ \A i \in DOMAIN job.outcomes : job.outcomes[i].performed
        /\ compareClean
    BY <1>8 DEF verdict
  <2>2. job.call.actions \in Seq(Action)
    BY <1>3 DEF Job
  <2>3. DOMAIN job.outcomes = 1..Len(job.outcomes)
        /\ DOMAIN job.call.actions = 1..Len(job.outcomes)
    <3>1. Len(job.outcomes) = Len(job.call.actions)
      BY <1>2, <1>3, <2>2 DEF Inv, OutcomesFollowActions, HasAction, Running
    <3> QED
      BY <1>3, <2>2, <3>1
  <2>4. \A i \in DOMAIN job.call.actions :
          <<job.call.actions[i].path, job.call.actions[i].kind>> \in job.paid
    BY <1>2, <2>1, <2>3 DEF Inv, OutcomesFollowActions
  <2>5. job.changed \subseteq job.call.diffMustTouch
    BY <2>1 DEF compareClean
  <2>6. ASSUME NEW i \in DOMAIN job.outcomes, job.outcomes[i].operation = "EXECUTE",
               job.outcomes[i].name \notin job.call.expectedToFail \cup {""}
        PROVE  job.outcomes[i].exitZero
    <3>1. i \in Ran
      BY <2>1, <2>6 DEF Ran
    <3> QED
      BY <2>1, <2>6, <3>1 DEF compareClean
  <2> QED
    BY <2>1, <2>4, <2>5, <2>6
<1>9. OkMeansAsDeclared'
  BY <1>6, <1>8 DEF OkMeansAsDeclared
<1> QED
  BY <1>1, <1>6, <1>7, <1>9 DEF Inv

\* Steps after which no call is in progress, or that leave it as it is.
LEMMA NoCallStep ==
    ASSUME CapInv', job' = NoJob
    PROVE  Inv'
BY DEF Inv, PaidWasHonoured, ChangedWasPaid, OutcomesFollowActions, OkMeansAsDeclared,
       OkWhenFinished

\* Every step of the composed system preserves the invariant.
LEMMA NextInv == Inv /\ [Next]_vars => Inv'
<1> SUFFICES ASSUME Inv, [Next]_vars PROVE Inv'
  OBVIOUS
<1>0. CapInv
  BY DEF Inv
<1>1. CASE ~Running /\ CapNext /\ UNCHANGED job
  <2>1. CASE \E req \in Requests : mint(req)
    BY <1>0, <1>1, <2>1, MintStep, NoCallStep DEF Running
  <2>2. CASE \E token \in Presented, path \in Paths, op \in OPERATIONS :
               spend(token, path, op, now)
    <3>1. now \in Nat /\ \A token \in Presented : token \in Token
      BY <1>0, PresentedTyped DEF CapInv, CapTypeOK
    <3> QED
      BY <1>0, <1>1, <2>2, <3>1, SpendStep, NoCallStep DEF Running
  <2>3. CASE \E id \in TokenIds : revoke(id)
    BY <1>0, <1>1, <2>3, RevokeStep, NoCallStep DEF Running
  <2> QED
    BY <1>1, <2>1, <2>2, <2>3 DEF CapNext
<1>2. CASE tick /\ UNCHANGED job
  <2>1. CapInv'
    BY <1>0, <1>2, QuietStep DEF tick, CapInv, CapTypeOK
  <2> QED
    BY <1>2, <2>1 DEF Inv, tick, PaidWasHonoured, ChangedWasPaid, OutcomesFollowActions,
       OkMeansAsDeclared, OkWhenFinished
<1>3. CASE crash
  BY <1>0, <1>3, RestartStep, NoCallStep DEF crash
<1>4. CASE \E call \in Jobs, tokens \in TokenLists : execute(call, tokens)
  BY <1>4, ExecuteStep
<1>5. CASE refuseAction
  BY <1>5, RefuseStep
<1>6. CASE performAction
  BY <1>6, PerformStep
<1>7. CASE finish
  BY <1>7, FinishStep
<1>8. CASE return
  BY <1>0, <1>8, QuietStep, NoCallStep DEF return, capVars, CapInv, CapTypeOK
<1>9. CASE UNCHANGED vars
  <2>1. CapInv'
    BY <1>0, <1>9, QuietStep DEF vars, capVars, CapInv, CapTypeOK
  <2> QED
    BY <1>9, <2>1 DEF Inv, vars, capVars, PaidWasHonoured, ChangedWasPaid,
       OutcomesFollowActions, OkMeansAsDeclared, OkWhenFinished
<1> QED
  BY <1>1, <1>2, <1>3, <1>4, <1>5, <1>6, <1>7, <1>8, <1>9 DEF Next

\* The inductive invariant Inv (CapabilityProofs' strengthening of the engine's
\* and the executor's properties) holds in every reachable state.
THEOREM Invariance == Spec => []Inv
BY InitInv, NextInv, PTL DEF Spec

----------------------------------------------------------------------------

\* Type correctness of the engine and of the executor's call.
THEOREM TypeCorrect == Spec => []TypeOK
<1>1. Inv => TypeOK
  BY DEF Inv, CapInv, TypeOK
<1> QED
  BY <1>1, Invariance, PTL

\* Over every plan, request and interleaving, what is honoured and what is left
\* stay within the uses granted under an identifier, and a token alone under
\* its identifier stays within its own (SpendsWithinGrant: mint, spend, revoke).
THEOREM GrantsAreNeverOverspent == Spec => []SpendsWithinGrant
<1>1. Inv => SpendsWithinGrant
  BY DEF Inv, CapInv
<1> QED
  BY <1>1, Invariance, PTL

\* Whatever is let through descends from a signed token before its approval
\* lapsed and stays within the step's files and operations, up to names that
\* are both (HonouredWithinApproval: mint's ceiling, #sign, spend's checks).
THEOREM NothingOutsideTheApproval == Spec => []HonouredWithinApproval
<1>1. Inv => HonouredWithinApproval
  <2> SUFFICES ASSUME Inv, NEW h \in honoured
               PROVE  \E t \in held :
                        /\ t.key = epoch /\ Mac(t) = Mac(h.token)
                        /\ h.at < t.approvalExpiresAtUnix
                        /\ \/ h.path \in StepFiles[t.stepId] \ Escaping
                           \/ \E op \in Range(t.operations) : h.path = Lower[op]
                        /\ h.operation \in DESTRUCTIVE =>
                             t.stepId \in Destructive \/ Lower[h.operation] \in StepFiles[t.stepId]
    BY DEF HonouredWithinApproval
  <2>1. /\ \E t \in held : t.key = epoch /\ Mac(t) = Mac(h.token)
        /\ h.path \in Range(h.token.paths) /\ h.operation \in Range(h.token.operations)
        /\ h.at < h.token.expiresAtUnix
    BY DEF Inv, CapInv, HonouredInScope
  <2>2. PICK t \in held : t.key = epoch /\ Mac(t) = Mac(h.token)
    BY <2>1
  <2>3. /\ h.token \in Token /\ t \in Token
        /\ h.operation \in OPERATIONS /\ h.at \in Nat
    BY DEF Inv, CapInv, CapTypeOK, Honoured
  <2>4. Signed(t) = Signed(h.token) /\ t.expiresAtUnix = h.token.expiresAtUnix
    BY <2>2 DEF Mac
  <2>5. /\ Range(t.paths) \subseteq StepFiles[t.stepId] \ Escaping
        /\ t.stepId \notin Destructive => Range(t.operations) \cap DESTRUCTIVE = {}
        /\ t.expiresAtUnix <= t.approvalExpiresAtUnix
    BY DEF Inv, CapInv, MintedInScope
  <2>6. h.at < t.approvalExpiresAtUnix
    BY <2>1, <2>3, <2>4, <2>5 DEF Token
  <2>7. h.path \in Range(Signed(t)) /\ Lower[h.operation] \in Range(Signed(t))
    BY <2>1, <2>3, <2>4, SignedRange
  <2>8. \A x \in Range(Signed(t)) :
          x \in Range(t.paths) \/ \E op \in Range(t.operations) : x = Lower[op]
    BY <2>3, SignedRange
  <2>9. \/ h.path \in StepFiles[t.stepId] \ Escaping
        \/ \E op \in Range(t.operations) : h.path = Lower[op]
    BY <2>5, <2>7, <2>8
  <2>10. ASSUME h.operation \in DESTRUCTIVE, Lower[h.operation] \notin StepFiles[t.stepId]
         PROVE  t.stepId \in Destructive
    <3>1. PICK op \in Range(t.operations) : Lower[h.operation] = Lower[op]
      BY <2>5, <2>7, <2>8, <2>10
    <3>2. op \in OPERATIONS
      BY <2>3 DEF Token, Range
    <3>3. op = h.operation
      BY <2>3, <3>1, <3>2, SpellingsTyped
    <3> QED
      BY <2>5, <2>10, <3>3
  <2> QED
    BY <2>2, <2>6, <2>9, <2>10
<1> QED
  BY <1>1, Invariance, PTL

\* What is honoured under an identifier was granted for the same plan, and by
\* that very grant unless a step with another id came to the same identifier,
\* across restarts that hand identifiers out again (TokensDrawOnTheirOwnGrant).
THEOREM NoTokenDrawsOnAnothersGrant == Spec => []TokensDrawOnTheirOwnGrant
<1>1. Inv => TokensDrawOnTheirOwnGrant
  <2> SUFFICES ASSUME Inv, NEW h \in honoured, NEW t \in Named(h.token.id)
               PROVE  /\ t.planDigest = h.token.planDigest
                      /\ Text[t.stepId] = Text[h.token.stepId] => Mac(t) = Mac(h.token)
    BY DEF TokensDrawOnTheirOwnGrant
  <2>1. PICK u \in held : u.key = epoch /\ Mac(u) = Mac(h.token)
    BY DEF Inv, CapInv, HonouredInScope
  <2>2. /\ u.id = h.token.id /\ u.planDigest = h.token.planDigest
        /\ Text[u.stepId] = Text[h.token.stepId]
    BY <2>1 DEF Mac
  <2>3. t \in held /\ t.key = epoch /\ t.id = h.token.id
    BY DEF Named
  <2>4. /\ t.id = IdOf(t.planDigest, t.stepId, t.serial)
        /\ u.id = IdOf(u.planDigest, u.stepId, u.serial)
        /\ t.serial \in 1..MaxTokens /\ u.serial \in 1..MaxTokens
        /\ t.stepId \in Steps /\ u.stepId \in Steps
    BY <2>1, <2>3 DEF Inv, CapInv, KnownKeys, CapTypeOK, Token
  <2>5. /\ t.planDigest = u.planDigest
        /\ Text[t.stepId] = Text[u.stepId] => t.serial = u.serial
    BY <2>2, <2>3, <2>4, SerialOfId
  <2>6. t.serial = u.serial => t = u
    BY <2>1, <2>3 DEF Inv, CapInv, OneTokenPerSerial
  <2> QED
    BY <2>1, <2>2, <2>5, <2>6
<1> QED
  BY <1>1, Invariance, PTL

\* No file differs in the shadow that no honoured spend paid for
\* (NoEffectWithoutSpend: execute() spends before every effect).
THEOREM EveryEffectIsPaid == Spec => []NoEffectWithoutSpend
<1>1. Inv => NoEffectWithoutSpend
  BY DEF Inv, NoEffectWithoutSpend, ChangedWasPaid, PaidWasHonoured
<1> QED
  BY <1>1, Invariance, PTL

\* An ok verdict means every action paid and performed, nothing undeclared
\* changed and no command failed unannounced (OkMeansAsDeclared).
THEOREM OkIsAsDeclared == Spec => []OkMeansAsDeclared
<1>1. Inv => OkMeansAsDeclared
  BY DEF Inv
<1> QED
  BY <1>1, Invariance, PTL

\* A withdrawn grant is not honoured until the process restarts, and its entry
\* returns only with a new mint for a step of another id that comes to the same
\* identifier (WithdrawnStaysWithdrawn: revoke, spend, mint).
THEOREM RevocationIsFinal == Spec => WithdrawnStaysWithdrawn
<1> DEFINE Stays(id) ==
             /\ spent'[id] = spent[id]
             /\ issued'[id] # NoEntry =>
                  \E t \in held' \ held : t.id = id /\
                    \A u \in Named(id) : Text[t.stepId] # Text[u.stepId]
           P == \A id \in TokenIds :
                  issued[id] = NoEntry /\ Named(id) # {} /\ epoch' = epoch => Stays(id)
<1>1. Inv /\ [Next]_vars => [P]_capVars
  <2> SUFFICES ASSUME Inv, Next, NEW id \in TokenIds, issued[id] = NoEntry,
                      Named(id) # {}, epoch' = epoch
               PROVE  Stays(id)
    BY DEF vars
  <2>1. CapTypeOK /\ CapInv
    BY DEF Inv, CapInv
  <2>2. ASSUME NEW req \in Requests, mint(req)
        PROVE  Stays(id)
    <3> DEFINE tok == TokenOf(req, counter + 1)
    <3>1. /\ tok \notin held /\ tok.stepId = req.stepId
          /\ \A u \in Named(tok.id) : Text[req.stepId] # Text[u.stepId]
      BY <2>1, <2>2, MintedIsNew DEF TokenOf
    <3>2. /\ tok \in held' /\ spent' = spent
          /\ id # tok.id => issued'[id] = issued[id]
      BY <2>1, <2>2 DEF mint, CapTypeOK
    <3> HIDE DEF tok
    <3> QED
      BY <3>1, <3>2
  <2>3. ASSUME NEW token, NEW path, NEW op, NEW at, spend(token, path, op, at)
        PROVE  Stays(id)
    <3>1. token.id # id
      BY <2>3 DEF spend, Spendable
    <3> QED
      BY <2>1, <2>3, <3>1 DEF spend, CapTypeOK
  <2>4. ASSUME NEW other \in TokenIds, revoke(other)
        PROVE  Stays(id)
    BY <2>1, <2>4 DEF revoke, CapTypeOK
  <2>5. ~crash
    BY <2>1 DEF crash, restart, CapTypeOK
  <2>6. CASE UNCHANGED <<issued, spent>>
    BY <2>6
  <2> HIDE DEF Stays
  <2> QED
    BY <2>2, <2>3, <2>4, <2>5, <2>6 DEF Next, CapNext, tick, execute, refuseAction,
       performAction, finish, return, capVars
<1> QED
  BY <1>1, Invariance, PTL DEF Spec, WithdrawnStaysWithdrawn
============================================================================
