---------------------------- MODULE Capability ----------------------------
(***************************************************************************)
(* The capability engine of the control plane, capability.mjs: a plan that *)
(* a person approved is turned into signed tokens (authorizePlan, mint),   *)
(* a token is spent before every effect (spend), withdrawn (revoke) and    *)
(* listed (grant).  The registry of issued tokens and the signing secret   *)
(* live in memory, so a restart of the process loses both; the counter     *)
(* that names tokens starts again with them.                               *)
(*                                                                         *)
(* Two conversions are modelled by what they do.  The identifier of a      *)
(* token hashes the step's id and the counter one after the other, so two  *)
(* steps of a plan whose ids differ by trailing digits can come to the     *)
(* same identifier, and the later entry replaces the earlier one.  The MAC *)
(* covers the paths and then the operations in lower case as one list, so  *)
(* a token is bound to that list and not to where the paths end.           *)
(*                                                                         *)
(* Every refusal of the code throws before anything is assigned, so a      *)
(* refused call is a stuttering step and only its conditions are stated.   *)
(*                                                                         *)
(* JavaScript has one number type and mint asks only for `uses > 0`, so    *)
(* uses are counted here in HALVES: 2 is one use, 3 a use and a half.      *)
(***************************************************************************)
EXTENDS Integers, FiniteSets, Sequences, Functions

CONSTANTS
    Plans, Steps, Paths, Dims, Digests, Chars,
    Digest,          \* planDigest(): plans may share one
    Text,            \* the characters of each step's id
    Numeral,         \* the characters of String(#counter)
    Lower,           \* each operation in lower case, which may be a path too
    PlanSteps,       \* the steps of each plan
    StepFiles,       \* the files each step names
    Destructive,     \* steps whose blast radius is declared destructive
    ReachesOutside,  \* steps that declare they reach outside the workspace
    Escaping,        \* paths that are absolute or hold a parent component
    StepLimits,      \* the isolation envelope each step grants, or NoLimits
    Ceiling,         \* the envelope measured for this container, or NoLimits
    Floor,           \* the least usable value of each dimension
    Requests,        \* what callers ask the engine for
    Unset, NoLimits, NoEntry, Undefined,
    MaxTime, MaxTokens, MaxRestarts, MaxSpends   \* bounds of the model

OPERATIONS == {"READ", "WRITE", "DELETE", "EXECUTE"}

DESTRUCTIVE == {"DELETE", "EXECUTE"}

OneUse == 2

Whole(uses) == \E n \in 0..uses : uses = OneUse * n

\* The content of the hash that names a token: a digest has a fixed length,
\* the step's id and the counter follow one another with nothing between.
IdOf(digest, step, n) == <<digest, Text[step] \o Numeral[n]>>

TokenIds == {IdOf(d, s, n) : d \in Digests, s \in Steps, n \in 1..MaxTokens}

Limits == {l \in [Dims -> Nat \cup {Unset}] : \E d \in Dims : l[d] # Unset}

Request == [plan : Plans, stepId : Steps, paths : Seq(Paths),
            operations : Seq(STRING), uses : Int, expiresAtUnix : Nat,
            limits : Limits \cup {NoLimits}, approverNamed : BOOLEAN,
            grantedAtUnix : Nat, approvalExpiresAtUnix : Nat]

\* What a holder keeps.  `key` is the incarnation whose secret made the MAC;
\* serial (the counter at mint) and approvalExpiresAtUnix are history, the code
\* does not carry them on the token, and of the step only its id.
Token == [id : TokenIds, key : Nat, planDigest : Digests, stepId : Steps,
          paths : Seq(Paths), operations : Seq(OPERATIONS),
          expiresAtUnix : Nat, usesGranted : Nat, limits : Limits \cup {NoLimits},
          serial : Nat, approvalExpiresAtUnix : Nat]

\* A registry entry: the counter, and of the description the step and expiry.
Entry == [usesRemaining : Int, stepId : Steps \cup {Undefined},
          expiresAtUnix : Nat \cup {Undefined}]

\* A spend that was let through, and at what time.
Honoured == [token : Token, path : Paths, operation : OPERATIONS, at : Nat]

ASSUME ConstantsTyped ==
    /\ MaxTime \in Nat /\ MaxTokens \in Nat
    /\ MaxRestarts \in Nat /\ MaxSpends \in Nat
    /\ PlanSteps \in [Plans -> SUBSET Steps]
    /\ StepFiles \in [Steps -> SUBSET Paths]
    /\ StepLimits \in [Steps -> Limits \cup {NoLimits}]
    /\ Ceiling \in Limits \cup {NoLimits}
    /\ Floor \in [Dims -> Nat]
    /\ Requests \subseteq Request

ASSUME SpellingsTyped ==
    /\ Digest \in [Plans -> Digests]
    /\ Text \in [Steps -> Seq(Chars)]
    /\ Numeral \in [1..MaxTokens -> Seq(Chars)]
    /\ \A m, n \in 1..MaxTokens : Numeral[m] = Numeral[n] => m = n
    /\ DOMAIN Lower = OPERATIONS
    /\ \A op, other \in OPERATIONS : Lower[op] = Lower[other] => op = other

ASSUME NullsAreNotValues ==
    /\ Unset \notin Nat /\ NoLimits \notin Limits
    /\ NoEntry \notin Entry /\ Undefined \notin Nat \cup Steps

VARIABLES
    now,       \* the wall clock, in seconds
    epoch,     \* which incarnation of the process is running
    counter,   \* #counter
    issued,    \* #issued
    held,      \* every token ever signed, in whoever's hands it is
    granted,   \* history: uses granted under each id in this incarnation
    spent,     \* history: spends honoured per id in this incarnation
    honoured   \* history: what this incarnation let through, on which token

capVars == <<now, epoch, counter, issued, held, granted, spent, honoured>>

----------------------------------------------------------------------------
(* Isolation envelopes (isolation.mjs).                                    *)

\* A dimension left unset widens a grant that sets it.
withinGrant(limits, grant) ==
    \/ grant = NoLimits
    \/ \A d \in Dims : grant[d] # Unset => limits[d] # Unset /\ limits[d] <= grant[d]

\* A dimension left unset is inherited from the container, so it exceeds nothing.
exceedsCeiling(limits, ceiling) ==
    /\ ceiling # NoLimits
    /\ \E d \in Dims : limits[d] # Unset /\ ceiling[d] # Unset /\ limits[d] > ceiling[d]

assertUsable(limits) == \A d \in Dims : limits[d] # Unset => limits[d] >= Floor[d]

----------------------------------------------------------------------------
(* Minting.                                                                *)

authorizePlan(req) ==
    /\ req.approverNamed
    /\ req.approvalExpiresAtUnix > req.grantedAtUnix
    /\ now < req.approvalExpiresAtUnix

LimitsAllowed(req) ==
    IF req.limits # NoLimits
    THEN /\ withinGrant(req.limits, StepLimits[req.stepId])
         /\ ~exceedsCeiling(req.limits, Ceiling)
         /\ assertUsable(req.limits)
    ELSE ~("EXECUTE" \in Range(req.operations) /\ Ceiling # NoLimits)

\* A mint that grants what was asked for: any path, any operation.
MintableAsAsked(req) ==
    /\ req.stepId \in PlanSteps[req.plan]
    /\ req.paths # <<>> /\ req.operations # <<>>
    /\ req.uses > 0
    /\ now < req.expiresAtUnix
    /\ req.expiresAtUnix <= req.approvalExpiresAtUnix

\* A mint that takes the caller's word for the files of the step.
MintableAnywhere(req) ==
    /\ MintableAsAsked(req)
    /\ Range(req.operations) \subseteq OPERATIONS
    /\ req.stepId \notin Destructive => Range(req.operations) \cap DESTRUCTIVE = {}
    /\ req.stepId \notin ReachesOutside
    /\ LimitsAllowed(req)

Mintable(req) ==
    /\ req.stepId \in PlanSteps[req.plan]
    /\ req.paths # <<>> /\ req.operations # <<>>
    /\ req.uses > 0
    /\ Range(req.operations) \subseteq OPERATIONS
    /\ Range(req.paths) \subseteq StepFiles[req.stepId]
    /\ req.stepId \notin Destructive => Range(req.operations) \cap DESTRUCTIVE = {}
    /\ req.stepId \notin ReachesOutside
    /\ Range(req.paths) \cap Escaping = {}
    /\ now < req.expiresAtUnix
    /\ req.expiresAtUnix <= req.approvalExpiresAtUnix
    /\ LimitsAllowed(req)

TokenOf(req, n) ==
    [id |-> IdOf(Digest[req.plan], req.stepId, n), key |-> epoch,
     planDigest |-> Digest[req.plan], stepId |-> req.stepId,
     paths |-> req.paths, operations |-> req.operations,
     expiresAtUnix |-> req.expiresAtUnix, usesGranted |-> req.uses, limits |-> req.limits,
     serial |-> n, approvalExpiresAtUnix |-> req.approvalExpiresAtUnix]

\* The entry is set under the identifier, whatever was there.
mint(req) ==
    LET token == TokenOf(req, counter + 1)
    IN  /\ counter < MaxTokens
        /\ authorizePlan(req)
        /\ Mintable(req)
        /\ counter' = counter + 1
        /\ held' = held \cup {token}
        /\ issued' = [issued EXCEPT ![token.id] =
                        [usesRemaining |-> req.uses, stepId |-> req.stepId,
                         expiresAtUnix |-> req.expiresAtUnix]]
        /\ granted' = [granted EXCEPT ![token.id] = @ + req.uses]
        /\ UNCHANGED <<now, epoch, spent, honoured>>

----------------------------------------------------------------------------
(* Spending.                                                               *)

\* The list the MAC covers: the paths, then the operations in lower case.
Signed(token) == token.paths \o [i \in DOMAIN token.operations |-> Lower[token.operations[i]]]

\* #sign: every item with its length, so the MAC fixes this tuple exactly.
Mac(token) == <<token.key, token.id, token.planDigest, Text[token.stepId], Signed(token),
                token.expiresAtUnix, token.usesGranted, token.limits>>

\* A secret that outlives the process: a MAC of an earlier incarnation verifies.
VerifiesAcrossRestarts(token) == \E t \in held : Mac(t) = Mac(token)

\* HMAC under this incarnation's random secret: it verifies for what this
\* incarnation signed, and for whatever reads the same.
Verifies(token) == token.key = epoch /\ \E t \in held : Mac(t) = Mac(token)

\* The order of the tests of spend, without the one for the use counter.
SpendableIgnoringCounter(token, path, op, at) ==
    /\ Verifies(token)
    /\ issued[token.id] # NoEntry
    /\ at < token.expiresAtUnix
    /\ path \in Range(token.paths)
    /\ op \in Range(token.operations)

\* A spend that does not ask whether this engine still holds the grant.
SpendableIfVerified(token, path, op, at) ==
    /\ Verifies(token)
    /\ at < token.expiresAtUnix
    /\ path \in Range(token.paths)
    /\ op \in Range(token.operations)

Spendable(token, path, op, at) ==
    /\ Verifies(token)
    /\ issued[token.id] # NoEntry
    /\ at < token.expiresAtUnix
    /\ issued[token.id].usesRemaining # 0
    /\ path \in Range(token.paths)
    /\ op \in Range(token.operations)

UsesLeft(id) == IF issued[id] = NoEntry THEN 0 ELSE issued[id].usesRemaining

\* The entry is replaced by its counter alone: the description is dropped.
spend(token, path, op, at) ==
    /\ spent[token.id] < MaxSpends
    /\ Spendable(token, path, op, at)
    /\ issued' = [issued EXCEPT ![token.id] =
                    [usesRemaining |-> UsesLeft(token.id) - OneUse,
                     stepId |-> Undefined, expiresAtUnix |-> Undefined]]
    /\ spent' = [spent EXCEPT ![token.id] = @ + 1]
    /\ honoured' = honoured \cup
         {[token |-> token, path |-> path, operation |-> op, at |-> at]}
    /\ UNCHANGED <<now, epoch, counter, held, granted>>

\* The same signed list with the end of the paths elsewhere: before it paths,
\* after it spellings of operations.  Anything else there would grant nothing.
Resplit(token) ==
    LET list == Signed(token)
        spelled(name) == CHOOSE op \in OPERATIONS : Lower[op] = name
        ends == {k \in 0..Len(list) : /\ \A i \in 1..k : list[i] \in Paths
                                      /\ \A i \in (k + 1)..Len(list) : list[i] \in Range(Lower)}
    IN  {[token EXCEPT !.paths = SubSeq(list, 1, k),
                       !.operations = [i \in 1..(Len(list) - k) |-> spelled(list[k + i])]] :
           k \in ends}

\* What a caller may present: a token it holds, or one that differs from it.
Presented ==
    (UNION {Resplit(t) : t \in held}) \cup {[t EXCEPT !.expiresAtUnix = MaxTime + 1] : t \in held}

----------------------------------------------------------------------------
(* Listing and withdrawing.                                                *)

\* `usesRemaining <= 0` is not a live grant, whatever spend makes of it.
Live(id) == issued[id] # NoEntry /\ issued[id].usesRemaining > 0

\* The revoke route and the session's revoke command: only a grant that grant()
\* returns is revoked.
revoke(id) ==
    /\ Live(id)
    /\ issued' = [issued EXCEPT ![id] = NoEntry]
    /\ UNCHANGED <<now, epoch, counter, held, granted, spent, honoured>>

\* new TokenMinter(randomBytes(32)) when the server starts again.
restart ==
    /\ epoch < MaxRestarts
    /\ epoch' = epoch + 1
    /\ counter' = 0
    /\ issued' = [id \in TokenIds |-> NoEntry]
    /\ granted' = [id \in TokenIds |-> 0]
    /\ spent' = [id \in TokenIds |-> 0]
    /\ honoured' = {}
    /\ UNCHANGED <<now, held>>

tick ==
    /\ now < MaxTime
    /\ now' = now + 1
    /\ UNCHANGED <<epoch, counter, issued, held, granted, spent, honoured>>

CapInit ==
    /\ now = 0 /\ epoch = 0 /\ counter = 0
    /\ issued = [id \in TokenIds |-> NoEntry]
    /\ granted = [id \in TokenIds |-> 0]
    /\ spent = [id \in TokenIds |-> 0]
    /\ held = {} /\ honoured = {}

\* The calls of the capability routes; the executor adds its own spends.
CapNext ==
    \/ \E req \in Requests : mint(req)
    \/ \E token \in Presented, path \in Paths, op \in OPERATIONS :
         spend(token, path, op, now)
    \/ \E id \in TokenIds : revoke(id)

----------------------------------------------------------------------------
(* Properties.                                                             *)

CapTypeOK ==
    /\ now \in Nat /\ epoch \in Nat /\ counter \in 0..MaxTokens
    /\ issued \in [TokenIds -> Entry \cup {NoEntry}]
    /\ held \subseteq Token
    /\ granted \in [TokenIds -> Nat] /\ spent \in [TokenIds -> Nat]
    /\ honoured \subseteq Honoured

\* The tokens of the running incarnation that carry an identifier.
Named(id) == {t \in held : t.key = epoch /\ t.id = id}

\* Over all interleavings of mints, spends from every caller, revocations and
\* restarts: what was honoured under an identifier and what its entry still
\* holds stay within the uses granted under it, also when two mints come to
\* the same identifier and the later entry replaces the earlier; and a token
\* that shares its identifier with no other is honoured at most as often as it
\* was granted for, its entry holding exactly what is left (mint, spend and
\* revoke of capability.mjs; grants of a whole number of uses).
SpendsWithinGrant ==
    \A id \in TokenIds : (\A t \in Named(id) : Whole(t.usesGranted)) =>
        /\ UsesLeft(id) \in 0..(granted[id] - OneUse * spent[id])
        /\ \A t \in Named(id) : Named(id) = {t} =>
             /\ OneUse * spent[id] <= t.usesGranted
             /\ issued[id] # NoEntry => UsesLeft(id) = t.usesGranted - OneUse * spent[id]

\* Whatever was let through descends from a token this incarnation signed, was
\* judged before the approval behind that token lapsed, and stays within the
\* files and operations of its step, except for what #sign leaves open: a file
\* may be named like an operation the token grants, and an operation may be
\* spelled like a file of the step (mint's ceiling and spend's checks).
HonouredWithinApproval ==
    \A h \in honoured : \E t \in held :
        /\ t.key = epoch /\ Mac(t) = Mac(h.token)
        /\ h.at < t.approvalExpiresAtUnix
        /\ \/ h.path \in StepFiles[t.stepId] \ Escaping
           \/ \E op \in Range(t.operations) : h.path = Lower[op]
        /\ h.operation \in DESTRUCTIVE =>
             t.stepId \in Destructive \/ Lower[h.operation] \in StepFiles[t.stepId]

\* What is honoured under an identifier is paid for by the plan it was granted
\* for, and by that very grant unless a step with another id came to the same
\* identifier: a restarted process hands out the same identifiers again, and a
\* token of an earlier incarnation, or an altered one, must not be paid for by
\* a newer grant (mint's #counter, #sign and spend).
TokensDrawOnTheirOwnGrant ==
    \A h \in honoured : \A t \in Named(h.token.id) :
        /\ t.planDigest = h.token.planDigest
        /\ Text[t.stepId] = Text[h.token.stepId] => Mac(t) = Mac(h.token)

\* A grant that was withdrawn is not honoured again before a restart, and no
\* call brings its entry back but a mint for a step with another id that comes
\* to the same identifier (revoke, spend and mint's #issued.set).
WithdrawnStaysWithdrawn ==
    [][\A id \in TokenIds :
         issued[id] = NoEntry /\ Named(id) # {} /\ epoch' = epoch =>
           /\ spent'[id] = spent[id]
           /\ issued'[id] # NoEntry =>
                \E t \in held' \ held : t.id = id /\
                  \A u \in Named(id) : Text[t.stepId] # Text[u.stepId]]_capVars
============================================================================
